-------------------------- MODULE PaneWatchProofs --------------------------
(***************************************************************************)
(* Type correctness, PidAlive and OwnCommand of PaneWatch, for any number  *)
(* of commands, any faults and without either timing assumption (PidAlive: *)
(* as long as nobody kills a watcher with SIGKILL).                        *)
(***************************************************************************)
EXTENDS PaneWatch, TLAPS

(* Where a watcher is while its shell may still signal it.                 *)
HeldPc == {"boot", "loop", "park"} \cup ClearPc \cup TickPc

(* What the hooks know at each point of their work.                        *)
ShellInv ==
    /\ shell \in {"spawn", "running", "ended", "write", "signal"} => cur \in Cmd
    /\ shell \in {"ended", "write", "signal"} => status[cur] # "none"
    /\ shell = "spawn" => pid = 0 /\ cmdFile = cur
    /\ shell = "dead" => pid = 0

(* A watcher that is not spawned yet, or is still starting up, has no      *)
(* signal waiting.                                                         *)
FreshInv ==
    \A w \in Cmd :
        /\ w > cur \/ (w = cur /\ shell = "spawn") => pc[w] = "none"
        /\ pc[w] \in {"none", "boot"} => sig[w] = "none"

(* The watcher whose PID the shell holds is held, and not signalled yet.   *)
PidInv ==
    "crash" \notin Faults /\ pid # 0 => pc[pid] \in HeldPc /\ sig[pid] = "none"

(* As long as a watcher is starting up, `cmd` is its own: the hook that    *)
(* would overwrite the file first kills the watcher.                       *)
CmdInv ==
    \A w \in Cmd :
        /\ pc[w] = "boot" => cmdFile = w /\ (pid = w \/ shell = "dead")
        /\ Live(w) => prog[w] = w

(* A watcher that has not given up is below the limit on failures.         *)
FailInv ==
    \A w \in Cmd : pc[w] \notin {"park"} \cup GonePc => fails[w] < MaxFailures

IInv == TypeOK /\ ShellInv /\ FreshInv /\ PidInv /\ CmdInv /\ FailInv

(* What every step of a watcher has in common: it moves one program        *)
(* counter, a held watcher that was not signalled stays held, and the      *)
(* shell's variables are left alone.                                       *)
Moves(w) ==
    /\ UNCHANGED <<shellVars, paneOpen>>
    /\ pc[w] \notin {"none"} \cup GonePc
    /\ pc' = [pc EXCEPT ![w] = pc'[w]]
    /\ pc'[w] \in Pc \ {"none", "boot"}
    /\ ("crash" \notin Faults /\ pc[w] \in HeldPc /\ sig[w] = "none" /\ shell # "dead")
          => pc'[w] \in HeldPc
    /\ pc'[w] \notin {"park"} \cup GonePc => fails'[w] < MaxFailures
    /\ fails' \in [Cmd -> 0..MaxFailures]
    /\ \A v \in Cmd \ {w} : fails'[v] = fails[v]
    /\ prog' \in [Cmd -> 0..N]
    /\ pc'[w] \notin GonePc =>
          prog'[w] = IF pc[w] = "boot" THEN cmdFile ELSE prog[w]
    /\ \A v \in Cmd \ {w} : prog'[v] = prog[v]
    /\ sig' = sig \/ sig' = [sig EXCEPT ![w] = "none"]
    /\ marker' \in {"absent", "empty", "named"} /\ opened' \subseteq Cmd
    /\ row' \in Row /\ label' \in Label /\ late' \subseteq Request /\ io' \in 0..MaxIo
    /\ reported' \in [Cmd -> BOOLEAN] /\ outcome' \in [Cmd -> Outcome]

-----------------------------------------------------------------------------
(* The initial states satisfy the inductive invariant.                     *)
LEMMA InitIInv == Init => IInv
<1> SUFFICES ASSUME Init PROVE IInv
  OBVIOUS
<1>1. TypeOK
  <2>1. /\ NoRow \in Row /\ [state |-> "idle", by |-> 0] \in Row
        /\ NoLabel \in Label /\ [text |-> "fail", by |-> 0, ttl |-> FALSE] \in Label
    <3>1. 0 \in 0..N
      BY ConstantsAssumption
    <3>2. NoRow \in Row /\ [state |-> "idle", by |-> 0] \in Row
      BY <3>1 DEF Row, NoRow
    <3>3. NoLabel \in Label /\ [text |-> "fail", by |-> 0, ttl |-> FALSE] \in Label
      BY <3>1 DEF Label, NoLabel, Outcome
    <3> QED
      BY <3>2, <3>3
  <2>2. exitFile \in Outcome
    BY DEF Init, Outcome
  <2>3. pc \in [Cmd -> Pc]
    BY DEF Init, Pc
  <2>4. /\ status \in [Cmd -> {"none"} \cup Outcome] /\ outcome \in [Cmd -> Outcome]
        /\ prog \in [Cmd -> 0..N] /\ fails \in [Cmd -> 0..MaxFailures]
    BY ConstantsAssumption DEF Init, Outcome
  <2>5. row \in Row /\ label \in Label /\ marker \in {"absent", "empty", "named"}
    BY <2>1 DEF Init
  <2>6. /\ shell \in ShellState /\ cur \in 0..N /\ pid \in 0..N /\ cmdFile \in 0..N
        /\ io \in 0..MaxIo /\ opened \subseteq Cmd /\ paneOpen \in BOOLEAN
        /\ late \subseteq Request
    BY ConstantsAssumption DEF Init, ShellState
  <2>7. clearFirst \in [Cmd -> BOOLEAN] /\ reported \in [Cmd -> BOOLEAN]
    BY DEF Init
  <2>8. sig \in [Cmd -> {"none", "USR1", "TERM"}]
    BY DEF Init
  <2> QED
    BY <2>2, <2>3, <2>4, <2>5, <2>6, <2>7, <2>8 DEF TypeOK
<1>2. ShellInv /\ FreshInv /\ PidInv /\ CmdInv /\ FailInv
  BY ConstantsAssumption
  DEF Init, ShellInv, FreshInv, PidInv, CmdInv, FailInv, Live, GonePc, Cmd
<1> QED
  BY <1>1, <1>2 DEF IInv

(* A request on the socket, whatever its result, is a move: a failure that *)
(* makes a held watcher stop parks it.                                     *)
LEMMA SendMoves ==
  ASSUME IInv, NEW w \in Cmd, NEW at \in Pc \ {"none", "boot", "park"}, at \notin GonePc,
         NEW r \in Request, NEW next \in Pc \ {"none", "boot"},
         at \in HeldPc => at \in ClearPc \cup TickPc /\ next \in HeldPc,
         SendAt(w, at, r, next)
  PROVE  Moves(w)
<1>1. /\ TypeOK /\ fails[w] < MaxFailures /\ pc[w] = at
      /\ UNCHANGED <<shellVars, fileVars, paneOpen, prog, sig, reported, outcome>>
      /\ Send(w, r, next)
  BY DEF IInv, FailInv, SendAt
<1>2. StopAt(w) \in {"park", "exited"} /\ (at \in HeldPc => StopAt(w) = "park")
  BY <1>1 DEF StopAt, HeldPc, ClearPc, TickPc
<1>3. Apply(r) => row' \in Row /\ label' \in Label
  BY <1>1 DEF Apply, TypeOK, Request
<1>4. CASE /\ paneOpen /\ Apply(r) /\ fails' = [fails EXCEPT ![w] = 0]
           /\ Goto(w, next) /\ UNCHANGED <<late, io>>
  BY <1>1, <1>3, <1>4, ConstantsAssumption
  DEF Moves, Goto, TypeOK, GonePc, fileVars
<1>5. CASE /\ ~paneOpen /\ Goto(w, StopAt(w))
           /\ UNCHANGED <<row, label, fails, late, io>>
  BY <1>1, <1>2, <1>5, ConstantsAssumption
  DEF Moves, Goto, TypeOK, GonePc, fileVars, Pc, HeldPc
<1>6. CASE /\ io < MaxIo /\ io' = io + 1 /\ late' = late \cup {r}
           /\ fails' = [fails EXCEPT ![w] = @ + 1]
           /\ Goto(w, IF fails[w] + 1 >= MaxFailures THEN StopAt(w) ELSE next)
           /\ UNCHANGED <<row, label>>
  <2>1. io' \in 0..MaxIo /\ late' \subseteq Request
    BY <1>1, <1>6, ConstantsAssumption DEF TypeOK
  <2>2. /\ fails' \in [Cmd -> 0..MaxFailures] /\ fails'[w] = fails[w] + 1
        /\ \A v \in Cmd \ {w} : fails'[v] = fails[v]
    BY <1>1, <1>6, ConstantsAssumption DEF TypeOK
  <2> QED
    BY <1>1, <1>2, <1>6, <2>1, <2>2, ConstantsAssumption
    DEF Moves, Goto, TypeOK, GonePc, fileVars, Pc, HeldPc
<1> QED
  BY <1>1, <1>4, <1>5, <1>6 DEF Send

(* A request is one of those the type invariant allows in flight.          *)
LEMMA Requests ==
  ASSUME TypeOK, NEW w \in Cmd
  PROVE  /\ \A s \in {"working", "idle"} : Agent(w, s) \in Request
         /\ Release \in Request /\ ClearMetadata \in Request
         /\ \A ttl \in BOOLEAN : /\ Metadata(w, "working", ttl) \in Request
                                 /\ Metadata(w, outcome[w], ttl) \in Request
<1>1. w \in 0..N /\ 0 \in 0..N
  BY ConstantsAssumption DEF Cmd
<1>2. outcome[w] \in Outcome
  BY DEF TypeOK
<1>3. \A s \in {"working", "idle"} : Agent(w, s) \in Request
  BY <1>1 DEF Agent, Request, Row
<1>4. Release \in Request
  BY <1>1 DEF Release, Request, Row, NoRow
<1>5. ClearMetadata \in Request
  BY <1>1 DEF ClearMetadata, Request, Label, NoLabel
<1>6. ASSUME NEW t \in {"none", "working"} \cup Outcome, NEW ttl \in BOOLEAN
      PROVE  Metadata(w, t, ttl) \in Request
  BY <1>1 DEF Metadata, Request, Label
<1> QED
  BY <1>2, <1>3, <1>4, <1>5, <1>6

(* A command that has been read is watched or parked.                      *)
LEMMA DispatchHolds == \A p : Dispatch(p) \in {"park", "loop"}
BY DEF Dispatch

(* Every step of a watcher is a move, and so is its being killed.          *)
LEMMA WatcherMoves ==
  ASSUME IInv, NEW w \in Cmd, WatcherStep(w) \/ Crash(w)
  PROVE  Moves(w)
<1> USE ConstantsAssumption
<1>1. TypeOK /\ (pc[w] \notin {"park"} \cup GonePc => fails[w] < MaxFailures)
  BY DEF IInv, FailInv
<1>2. CASE Boot(w)
  BY <1>1, <1>2, DispatchHolds
  DEF Boot, Moves, Goto, TypeOK, GonePc, ClearPc, HeldPc, Pc, shellVars, fileVars, paneVars
<1>3. CASE Clear(w)
  <2>1. CASE ClearRead(w)
    BY <1>1, <2>1, DispatchHolds
    DEF ClearRead, OnlyFiles, Moves, Goto, TypeOK, GonePc, ClearPc, HeldPc, Pc,
        shellVars, fileVars, paneVars
  <2>2. CASE ClearDrop(w)
    BY <1>1, <2>2, DispatchHolds
    DEF ClearDrop, Unlink, OnlyFiles, Moves, Goto, TypeOK, GonePc, ClearPc, HeldPc, Pc,
        shellVars, fileVars, paneVars
  <2>3. CASE SendAt(w, "cMeta", ClearMetadata, "cRelease")
    BY <1>1, <2>3, Requests, SendMoves DEF Pc, ClearPc, GonePc, HeldPc
  <2>4. CASE SendAt(w, "cRelease", Release, "cCheck")
    BY <1>1, <2>4, Requests, SendMoves DEF Pc, ClearPc, GonePc, HeldPc
  <2>5. CASE RemoveCheck(w, "cCheck", "cUnlink", Dispatch(prog[w]))
    BY <1>1, <2>5, DispatchHolds
    DEF RemoveCheck, OnlyFiles, Moves, Goto, TypeOK, GonePc, ClearPc, HeldPc, Pc,
        shellVars, fileVars, paneVars
  <2>6. CASE RemoveUnlink(w, "cUnlink", Dispatch(prog[w]))
    BY <1>1, <2>6, DispatchHolds
    DEF RemoveUnlink, Unlink, OnlyFiles, Moves, Goto, TypeOK, GonePc, ClearPc, HeldPc, Pc,
        shellVars, fileVars, paneVars
  <2> QED
    BY <1>3, <2>1, <2>2, <2>3, <2>4, <2>5, <2>6 DEF Clear
<1>4. CASE Tick(w)
  BY <1>1, <1>4
  DEF Tick, Moves, Goto, TypeOK, GonePc, TickPc, HeldPc, Pc, shellVars, fileVars, paneVars
<1>5. CASE Report(w)
  <2>1. CASE OpenMarker(w)
    BY <1>1, <2>1
    DEF OpenMarker, OnlyFiles, Moves, Goto, TypeOK, GonePc, TickPc, HeldPc, Pc,
        shellVars, fileVars, paneVars
  <2>2. CASE WriteMarker(w)
    BY <1>1, <2>2
    DEF WriteMarker, OnlyFiles, Moves, Goto, TypeOK, GonePc, TickPc, HeldPc, Pc,
        shellVars, fileVars, paneVars
  <2>3. CASE SendAt(w, "tReport", Agent(w, "working"), "tMeta")
    BY <1>1, <2>3, Requests, SendMoves DEF Pc, TickPc, GonePc, HeldPc
  <2>4. CASE SendAt(w, "tMeta", Metadata(w, "working", FALSE), "loop")
    BY <1>1, <2>4, Requests, SendMoves DEF Pc, TickPc, GonePc, HeldPc
  <2> QED
    BY <1>5, <2>1, <2>2, <2>3, <2>4 DEF Report
<1>6. CASE Finish(w)
  BY <1>1, <1>6
  DEF Finish, FinishAt, ReadExit, Moves, Goto, TypeOK, GonePc, FinishPc, TailPc, HeldPc,
      Pc, shellVars, fileVars, paneVars
<1>7. CASE ShellGone(w)
  BY <1>1, <1>7
  DEF ShellGone, ShellAlive, Moves, Goto, TypeOK, GonePc, TailPc, HeldPc, Pc,
      shellVars, fileVars, paneVars
<1>8. CASE Conclude(w)
  <2>1. CASE SendAt(w, "sIdle", Agent(w, "idle"), "sMeta")
    BY <1>1, <2>1, Requests, SendMoves DEF Pc, FinishPc, GonePc, HeldPc, ClearPc, TickPc
  <2>2. CASE SendAt(w, "sMeta", Metadata(w, outcome[w], FALSE), "exited")
    BY <1>1, <2>2, Requests, SendMoves DEF Pc, FinishPc, GonePc, HeldPc, ClearPc, TickPc
  <2>3. CASE SendAt(w, "fIdle", Agent(w, "idle"), "fMeta")
    BY <1>1, <2>3, Requests, SendMoves DEF Pc, FinishPc, GonePc, HeldPc, ClearPc, TickPc
  <2>4. CASE SendAt(w, "fMeta", Metadata(w, outcome[w], TRUE), "linger")
    BY <1>1, <2>4, Requests, SendMoves DEF Pc, FinishPc, GonePc, HeldPc, ClearPc, TickPc
  <2>5. CASE LingerDone(w) \/ LingerSuperseded(w)
    BY <1>1, <2>5
    DEF LingerDone, LingerSuperseded, OnlyPc, Moves, Goto, TypeOK, GonePc, TailPc, HeldPc,
        ClearPc, TickPc, Pc, shellVars, fileVars, paneVars
  <2>6. CASE SendAt(w, "release", Release, "check")
    BY <1>1, <2>6, Requests, SendMoves DEF Pc, TailPc, GonePc, HeldPc, ClearPc, TickPc
  <2>7. CASE RemoveCheck(w, "check", "unlink", "exited")
    BY <1>1, <2>7
    DEF RemoveCheck, OnlyFiles, Moves, Goto, TypeOK, GonePc, TailPc, HeldPc, ClearPc,
        TickPc, Pc, shellVars, fileVars, paneVars
  <2>8. CASE RemoveUnlink(w, "unlink", "exited")
    BY <1>1, <2>8
    DEF RemoveUnlink, Unlink, OnlyFiles, Moves, Goto, TypeOK, GonePc, TailPc, HeldPc,
        ClearPc, TickPc, Pc, shellVars, fileVars, paneVars
  <2> QED
    BY <1>8, <2>1, <2>2, <2>3, <2>4, <2>5, <2>6, <2>7, <2>8 DEF Conclude
<1>9. CASE Unpark(w)
  BY <1>1, <1>9
  DEF Unpark, ShellAlive, OnlyPc, Moves, Goto, TypeOK, GonePc, Pc, shellVars, fileVars,
      paneVars
<1>10. CASE Crash(w)
  BY <1>1, <1>10
  DEF Crash, OnlyPc, Moves, Goto, TypeOK, GonePc, Pc, shellVars, fileVars, paneVars
<1> QED
  BY <1>2, <1>3, <1>4, <1>5, <1>6, <1>7, <1>8, <1>9, <1>10 DEF WatcherStep

(* A move keeps the inductive invariant.                                   *)
LEMMA MovesInv ==
  ASSUME IInv, NEW w \in Cmd, Moves(w)
  PROVE  IInv'
<1> USE ConstantsAssumption
<1>1. TypeOK /\ ShellInv /\ FreshInv /\ PidInv /\ CmdInv /\ FailInv
  BY DEF IInv
<1>2. /\ shell' = shell /\ cur' = cur /\ pid' = pid /\ cmdFile' = cmdFile
      /\ status' = status /\ exitFile' = exitFile /\ clearFirst' = clearFirst
      /\ paneOpen' = paneOpen
  BY DEF Moves, shellVars
<1>3. /\ pc[w] \notin {"none"} \cup GonePc
      /\ pc' \in [Cmd -> Pc] /\ pc'[w] \notin {"none", "boot"}
      /\ \A v \in Cmd \ {w} : pc'[v] = pc[v]
  BY <1>1 DEF Moves, TypeOK
<1>4. /\ sig' \in [Cmd -> {"none", "USR1", "TERM"}] /\ sig'[w] \in {sig[w], "none"}
      /\ \A v \in Cmd \ {w} : sig'[v] = sig[v]
  BY <1>1 DEF Moves, TypeOK
<1>5. /\ prog' \in [Cmd -> 0..N]
      /\ pc'[w] \notin GonePc =>
            prog'[w] = IF pc[w] = "boot" THEN cmdFile ELSE prog[w]
      /\ \A v \in Cmd \ {w} : prog'[v] = prog[v]
  BY <1>1 DEF Moves, TypeOK
<1>6. TypeOK'
  BY <1>1, <1>2, <1>3, <1>4, <1>5 DEF TypeOK, Moves
<1>7. ShellInv'
  BY <1>1, <1>2 DEF ShellInv
<1>8. FreshInv'
  BY <1>1, <1>2, <1>3, <1>4 DEF FreshInv
<1>9. PidInv'
  <2>1. CASE pid = w
    BY <1>1, <1>2, <1>4, <2>1 DEF PidInv, ShellInv, Moves
  <2>2. CASE pid # w
    BY <1>1, <1>2, <1>3, <1>4, <2>2 DEF PidInv, TypeOK, Cmd
  <2> QED
    BY <2>1, <2>2
<1>10. CmdInv'
  <2> SUFFICES ASSUME NEW v \in Cmd
               PROVE  /\ pc'[v] = "boot" => cmdFile' = v /\ (pid' = v \/ shell' = "dead")
                      /\ Live(v)' => prog'[v] = v
    BY DEF CmdInv
  <2>1. CASE v = w
    BY <1>1, <1>2, <1>3, <1>5, <2>1 DEF CmdInv, Live
  <2>2. CASE v # w
    BY <1>1, <1>2, <1>3, <1>5, <2>2 DEF CmdInv, Live
  <2> QED
    BY <2>1, <2>2
<1>11. FailInv'
  BY <1>1, <1>3 DEF FailInv, Moves
<1> QED
  BY <1>6, <1>7, <1>8, <1>9, <1>10, <1>11 DEF IInv

(* Signalling the held watcher and forgetting its PID: whether it was      *)
(* still starting up, and dies, or finds the signal in its channel.        *)
LEMMA SignalEffect ==
  ASSUME TypeOK, NEW s \in {"USR1", "TERM"}, Signal(pid, s)
  PROVE  /\ pc' \in [Cmd -> Pc] /\ sig' \in [Cmd -> {"none", "USR1", "TERM"}]
         /\ \A v \in Cmd : /\ v # pid => pc'[v] = pc[v] /\ sig'[v] = sig[v]
                           /\ pc'[v] = pc[v] \/ (pc[v] = "boot" /\ pc'[v] = "killed")
                           /\ pc'[v] \in {"none", "boot"} => sig'[v] = sig[v]
                           /\ v = pid => pc'[v] # "boot"
<1>1. pid \in Cmd \/ pid = 0
  BY ConstantsAssumption DEF TypeOK, Cmd
<1>2. "killed" \in Pc
  BY DEF Pc, GonePc
<1>3. 0 \notin Cmd
  BY DEF Cmd
<1> QED
  BY <1>1, <1>2, <1>3 DEF Signal, TypeOK, Live, GonePc

(* The hooks, the user and Herdr keep the inductive invariant.             *)
LEMMA ShellInductive ==
  ASSUME IInv,
         \/ PreexecStart \/ CommandEnds \/ HookStep \/ ShellDies
         \/ Expire \/ ApplyLate \/ PaneCloses
  PROVE  IInv'
<1> USE ConstantsAssumption DEF IInv
<1>0. "killed" \in GonePc /\ "killed" \notin {"none", "boot"}
  BY DEF GonePc
<1>1. CASE PreexecStart
  <2>1. /\ shell = "prompt" /\ shell' = "spawn" /\ pid' = 0
        /\ cur' = cur + 1 /\ cur' \in Cmd /\ cmdFile' = cur'
    BY <1>1 DEF PreexecStart, TypeOK, Cmd
  <2>2. Signal(pid, "TERM")
    BY <1>1 DEF PreexecStart
  <2>3. /\ UNCHANGED <<status, exitFile, clearFirst, prog, fails, reported, outcome>>
        /\ UNCHANGED <<marker, opened, paneOpen, row, label, late, io>>
    BY <1>1 DEF PreexecStart, fileVars, paneVars
  <2>4. pc' \in [Cmd -> Pc] /\ sig' \in [Cmd -> {"none", "USR1", "TERM"}]
    BY <2>2, SignalEffect
  <2>5. TypeOK'
    BY <2>1, <2>3, <2>4 DEF TypeOK, ShellState, Cmd
  <2>6. ShellInv' /\ PidInv'
    BY <2>1 DEF ShellInv, PidInv
  <2>7. FreshInv'
    <3> SUFFICES ASSUME NEW v \in Cmd
                 PROVE  /\ v > cur' \/ (v = cur' /\ shell' = "spawn") => pc'[v] = "none"
                        /\ pc'[v] \in {"none", "boot"} => sig'[v] = "none"
      BY DEF FreshInv
    <3>1. /\ pc'[v] = pc[v] \/ (pc[v] = "boot" /\ pc'[v] = "killed")
          /\ pc'[v] \in {"none", "boot"} => sig'[v] = sig[v]
      BY <2>2, SignalEffect
    <3>2. v > cur' \/ v = cur' => v > cur
      BY <2>1 DEF TypeOK, Cmd
    <3>3. /\ v > cur => pc[v] = "none"
          /\ pc[v] \in {"none", "boot"} => sig[v] = "none"
      BY DEF FreshInv
    <3> QED
      BY <3>1, <3>2, <3>3
  <2>8. CmdInv'
    BY <1>0, <2>1, <2>2, <2>3, SignalEffect DEF CmdInv, Live
  <2>9. FailInv'
    BY <1>0, <2>2, <2>3, SignalEffect DEF FailInv
  <2> QED
    BY <2>5, <2>6, <2>7, <2>8, <2>9
<1>2. CASE PreexecSpawn
  <2>1. /\ shell = "spawn" /\ shell' = "running" /\ pid = 0 /\ pid' = cur /\ cur \in Cmd
        /\ cmdFile = cur /\ pc[cur] = "none" /\ sig[cur] = "none"
        /\ UNCHANGED <<cur, cmdFile, status, exitFile, prog, sig, fails, reported, outcome>>
        /\ UNCHANGED <<marker, opened, paneOpen, row, label, late, io>>
    BY <1>2 DEF PreexecSpawn, ShellInv, FreshInv, fileVars, paneVars
  <2>2. /\ pc' \in [Cmd -> Pc] /\ pc'[cur] = "boot"
        /\ \A v \in Cmd \ {cur} : pc'[v] = pc[v]
    BY <1>2, <2>1 DEF PreexecSpawn, TypeOK, Pc
  <2>3. clearFirst' \in [Cmd -> BOOLEAN]
    BY <1>2 DEF PreexecSpawn, TypeOK, MarkerTest
  <2>4. TypeOK'
    BY <2>1, <2>2, <2>3 DEF TypeOK, ShellState
  <2>5. ShellInv'
    BY <2>1 DEF ShellInv
  <2>6. FreshInv'
    BY <2>1, <2>2 DEF FreshInv, TypeOK, Cmd
  <2>7. PidInv'
    BY <2>1, <2>2 DEF PidInv, HeldPc
  <2>8. CmdInv'
    BY <2>1, <2>2 DEF CmdInv, Live
  <2>9. FailInv'
    BY <2>1, <2>2 DEF FailInv, GonePc
  <2> QED
    BY <2>4, <2>5, <2>6, <2>7, <2>8, <2>9
<1>3. CASE CommandEnds
  <2>1. /\ shell = "running" /\ shell' \in {"ended", "prompt"} /\ cur \in Cmd
        /\ UNCHANGED <<cur, pid, cmdFile, exitFile, clearFirst, pc, prog, sig, fails,
                       reported, outcome>>
        /\ UNCHANGED <<marker, opened, paneOpen, row, label, late, io>>
    BY <1>3 DEF CommandEnds, ShellInv, fileVars, paneVars, watchVars
  <2>2. /\ status' \in [Cmd -> {"none"} \cup Outcome] /\ status'[cur] # "none"
    BY <1>3, <2>1 DEF CommandEnds, TypeOK, Outcome
  <2>3. TypeOK'
    BY <2>1, <2>2 DEF TypeOK, ShellState
  <2>4. ShellInv' /\ FreshInv'
    BY <2>1, <2>2 DEF ShellInv, FreshInv
  <2>5. PidInv' /\ CmdInv' /\ FailInv'
    BY <2>1 DEF PidInv, CmdInv, FailInv, Live
  <2> QED
    BY <2>3, <2>4, <2>5
<1>4. CASE PrecmdTruncate \/ PrecmdWrite
  <2>1. /\ shell \in {"ended", "write"} /\ shell' \in {"write", "signal"}
        /\ UNCHANGED <<cur, pid, cmdFile, status, clearFirst, pc, prog, sig, fails,
                       reported, outcome>>
        /\ UNCHANGED <<marker, opened, paneOpen, row, label, late, io>>
    BY <1>4 DEF PrecmdTruncate, PrecmdWrite, fileVars, paneVars, watchVars
  <2>2. exitFile' \in Outcome
    <3>1. CASE PrecmdTruncate
      BY <3>1 DEF PrecmdTruncate, Outcome
    <3>2. CASE PrecmdWrite
      BY <2>1, <3>2 DEF PrecmdWrite, TypeOK, ShellInv
    <3> QED
      BY <1>4, <3>1, <3>2
  <2>3. TypeOK'
    BY <2>1, <2>2 DEF TypeOK, ShellState
  <2>4. ShellInv' /\ FreshInv'
    BY <2>1 DEF ShellInv, FreshInv
  <2>5. PidInv' /\ CmdInv' /\ FailInv'
    BY <2>1 DEF PidInv, CmdInv, FailInv, Live
  <2> QED
    BY <2>3, <2>4, <2>5
<1>5. CASE PrecmdSignal
  <2>1. /\ shell = "signal" /\ shell' = "prompt" /\ pid' = 0 /\ Signal(pid, "USR1")
        /\ UNCHANGED <<cur, cmdFile, status, exitFile, clearFirst, prog, fails,
                       reported, outcome>>
        /\ UNCHANGED <<marker, opened, paneOpen, row, label, late, io>>
    BY <1>5 DEF PrecmdSignal, fileVars, paneVars
  <2>2. TypeOK'
    BY <2>1, SignalEffect DEF TypeOK, ShellState
  <2>3. ShellInv' /\ PidInv'
    BY <2>1 DEF ShellInv, PidInv
  <2>4. FreshInv'
    BY <1>0, <2>1, SignalEffect DEF FreshInv
  <2>5. CmdInv' /\ FailInv'
    BY <1>0, <2>1, SignalEffect DEF CmdInv, FailInv, Live
  <2> QED
    BY <2>2, <2>3, <2>4, <2>5
<1>6. CASE ShellDies
  <2>1. /\ shell # "dead" /\ shell' = "dead" /\ pid' = 0
        /\ UNCHANGED <<cur, cmdFile, status, exitFile, clearFirst, prog, fails,
                       reported, outcome>>
        /\ UNCHANGED <<marker, opened, paneOpen, row, label, late, io>>
        /\ Signal(pid, "TERM") \/ UNCHANGED <<pc, sig>>
    BY <1>6 DEF ShellDies, ShellAlive, fileVars, paneVars
  <2>2. /\ pc' \in [Cmd -> Pc] /\ sig' \in [Cmd -> {"none", "USR1", "TERM"}]
        /\ \A v \in Cmd : /\ pc'[v] = pc[v] \/ (pc[v] = "boot" /\ pc'[v] = "killed")
                          /\ pc'[v] \in {"none", "boot"} => sig'[v] = sig[v]
    <3>1. CASE Signal(pid, "TERM")
      BY <3>1, SignalEffect
    <3>2. CASE UNCHANGED <<pc, sig>>
      BY <3>2 DEF TypeOK
    <3> QED
      BY <2>1, <3>1, <3>2
  <2>3. TypeOK'
    BY <2>1, <2>2 DEF TypeOK, ShellState
  <2>4. ShellInv' /\ PidInv'
    BY <2>1 DEF ShellInv, PidInv
  <2>5. FreshInv'
    BY <1>0, <2>1, <2>2 DEF FreshInv
  <2>6. CmdInv' /\ FailInv'
    BY <1>0, <2>1, <2>2 DEF CmdInv, FailInv, Live
  <2> QED
    BY <2>3, <2>4, <2>5, <2>6
<1>7. CASE Expire \/ ApplyLate \/ PaneCloses
  <2>1. UNCHANGED <<shellVars, fileVars, io, watchVars>>
    BY <1>7 DEF Expire, ApplyLate, PaneCloses
  <2>2. row' \in Row /\ label' \in Label /\ late' \subseteq Request /\ paneOpen' \in BOOLEAN
    <3>1. NoRow \in Row /\ NoLabel \in Label
      <4>1. 0 \in 0..N
        OBVIOUS
      <4> QED
        BY <4>1 DEF Row, NoRow, Label, NoLabel
    <3>2. CASE Expire
      BY <3>1, <3>2 DEF Expire, TypeOK
    <3>3. CASE ApplyLate
      BY <3>3 DEF ApplyLate, Apply, Request, TypeOK
    <3>4. CASE PaneCloses
      BY <3>1, <3>4 DEF PaneCloses, TypeOK
    <3> QED
      BY <1>7, <3>2, <3>3, <3>4
  <2>3. TypeOK'
    BY <2>1, <2>2 DEF TypeOK, shellVars, fileVars, watchVars
  <2>4. ShellInv' /\ FreshInv' /\ PidInv' /\ CmdInv' /\ FailInv'
    BY <2>1 DEF ShellInv, FreshInv, PidInv, CmdInv, FailInv, Live, shellVars, watchVars
  <2> QED
    BY <2>3, <2>4
<1> QED
  BY <1>1, <1>2, <1>3, <1>4, <1>5, <1>6, <1>7 DEF HookStep

(* Every step keeps the inductive invariant.                               *)
LEMMA NextIInv == IInv /\ [Next]_vars => IInv'
<1> SUFFICES ASSUME IInv, [Next]_vars PROVE IInv'
  OBVIOUS
<1>1. CASE \E w \in Cmd : WatcherStep(w) \/ Crash(w)
  BY <1>1, WatcherMoves, MovesInv
<1>2. CASE \/ PreexecStart \/ CommandEnds \/ HookStep \/ ShellDies
           \/ Expire \/ ApplyLate \/ PaneCloses
  BY <1>2, ShellInductive
<1>3. CASE UNCHANGED vars
  BY <1>3
  DEF IInv, TypeOK, ShellInv, FreshInv, PidInv, CmdInv, FailInv, Live,
      vars, shellVars, fileVars, paneVars, watchVars
<1> QED
  BY <1>1, <1>2, <1>3 DEF Next

-----------------------------------------------------------------------------
(* Every variable keeps its type; in particular no watcher goes past       *)
(* MAX_CONSECUTIVE_FAILURES failed calls (Driver::apply).                  *)
THEOREM TypeCorrect == Spec => []TypeOK
<1>1. IInv => TypeOK
  BY DEF IInv
<1> QED
  BY <1>1, InitIInv, NextIInv, PTL DEF Spec

(* A watcher watches the command it was started for, whatever the shell    *)
(* has gone on to: the early death that run_with's comment asks to keep is *)
(* what makes the shared file `cmd` safe to read.                          *)
THEOREM OwnCommandHolds == Spec => []OwnCommand
<1>1. IInv => OwnCommand
  BY DEF IInv, CmdInv, OwnCommand
<1> QED
  BY <1>1, InitIInv, NextIInv, PTL DEF Spec

(* Unless somebody kills a watcher, the PID a hook signals belongs to a    *)
(* watcher that is still there, through any failure of socket or pane.     *)
THEOREM PidAliveHolds ==
  ASSUME "crash" \notin Faults
  PROVE  Spec => []PidAlive
<1>1. IInv => PidAlive
  BY DEF IInv, PidInv, PidAlive, HeldPc, ClearPc, TickPc, GonePc
<1> QED
  BY <1>1, InitIInv, NextIInv, PTL DEF Spec
=============================================================================
