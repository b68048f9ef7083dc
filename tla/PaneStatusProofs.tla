-------------------------- MODULE PaneStatusProofs --------------------------
(***************************************************************************)
(* What the pane's row shows, for any number of commands, any ignore list  *)
(* and any [finish] settings.  The invariant of PaneWatchProofs grows by   *)
(* two layers:                                                             *)
(*   EndedInv  how a command ended, from `exit` to the label: needs        *)
(*             "settle", whatever becomes of the requests;                 *)
(*   TimedInv  the marker and the row: needs "settle", "gap" and a socket  *)
(*             whose requests do not time out (MaxIo = 0).                 *)
(* Watchers may be killed, hooks skipped, `exit` lost, the shell may die   *)
(* and the pane may close, except where a theorem excludes it.             *)
(***************************************************************************)
EXTENDS PaneStatus, PaneWatchProofs

(* What the hooks know of the command that runs or has just ended.         *)
HookInv ==
    /\ shell \in {"running", "ended", "write", "signal"} =>
          pid = cur /\ pc[cur] # "none" /\ sig[cur] = "none"
    /\ shell \in {"spawn", "running"} => status[cur] = "none"
    /\ \A w \in Cmd : w > cur => status[w] = "none"
    /\ shell = "write" => exitFile = "unknown"
    /\ shell = "signal" => exitFile \in {"unknown", status[cur]}

(* Every command typed has had its watcher, the last one perhaps not yet;  *)
(* and when a watcher is started the ones before it have settled.          *)
SettledInv ==
    /\ \A w \in Cmd : w < cur \/ (w = cur /\ shell \notin {"spawn", "dead"}) => pc[w] # "none"
    /\ \A v, w \in Cmd : v < w /\ pc[w] # "none" => Settled(v)

(* A label leaves open how its command ended or tells the truth.           *)
Truthful(l) == l.by # 0 /\ l.text \in Outcome => l.text \in {"unknown", status[l.by]}

(* The truth on its way from the hook to the row: in the file while a      *)
(* signal waits, in the watcher that has read it, in every request still   *)
(* to be read, and in the label.                                           *)
TruthInv ==
    /\ \A w \in Cmd : ~Settled(w) /\ sig[w] = "USR1" =>
          status[w] # "none" /\ exitFile \in {"unknown", status[w]}
    /\ \A w \in Cmd : pc[w] \in FinishPc =>
          status[w] # "none" /\ outcome[w] \in {"unknown", status[w]}
    /\ Truthful(label)
    /\ \A r \in late : r.kind = "metadata" => Truthful(r.label)

EndedInv == IInv /\ HookInv /\ SettledInv /\ TruthInv

-----------------------------------------------------------------------------
(* A step of a watcher seen from the others.                               *)

(* A watcher that has settled stays settled, and one that is past its      *)
(* cleanup does not come back to it.                                       *)
Cleaning(w) == pc[w] \in {"linger"} \cup TailPc
Forward(w) ==
    /\ Settled(w) => pc'[w] \in {"linger", "park"} \cup TailPc \cup GonePc
    /\ Settled(w) /\ ~Cleaning(w) => pc'[w] \in GonePc
    /\ pc'[w] \in FinishPc => pc[w] \in FinishPc \/ Finish(w)
    /\ outcome' = outcome \/ Finish(w)

(* What a request leads to.                                                *)
LEMMA SendForward ==
  ASSUME TypeOK, NEW w \in Cmd, NEW at, NEW r, NEW next, SendAt(w, at, r, next)
  PROVE  /\ pc[w] = at
         /\ pc' = [pc EXCEPT ![w] = pc'[w]]
         /\ pc'[w] = next \/ pc'[w] = "exited"
               \/ (pc'[w] = "park" /\ at \in ClearPc \cup TickPc)
         /\ outcome' = outcome
BY DEF SendAt, Send, Goto, StopAt, TypeOK

LEMMA StepForward ==
  ASSUME IInv, NEW w \in Cmd, WatcherStep(w) \/ Crash(w)
  PROVE  Forward(w)
<1> USE DEF Forward, Settled, Cleaning, TailPc, GonePc, FinishPc, ClearPc, TickPc
<1>1. TypeOK
  BY DEF IInv
<1>2. CASE Boot(w) \/ Tick(w) \/ Finish(w) \/ ShellGone(w) \/ Unpark(w) \/ Crash(w)
  BY <1>1, <1>2, DispatchHolds
  DEF Boot, Tick, Finish, ShellGone, Unpark, Crash, Goto, OnlyPc, TypeOK
<1>3. CASE ClearRead(w) \/ ClearDrop(w)
           \/ RemoveCheck(w, "cCheck", "cUnlink", Dispatch(prog[w]))
           \/ RemoveUnlink(w, "cUnlink", Dispatch(prog[w]))
  BY <1>1, <1>3, DispatchHolds
  DEF ClearRead, ClearDrop, RemoveCheck, RemoveUnlink, Goto, OnlyFiles, TypeOK
<1>4. CASE OpenMarker(w) \/ WriteMarker(w) \/ LingerDone(w) \/ LingerSuperseded(w)
           \/ RemoveCheck(w, "check", "unlink", "exited")
           \/ RemoveUnlink(w, "unlink", "exited")
  BY <1>1, <1>4
  DEF OpenMarker, WriteMarker, LingerDone, LingerSuperseded, RemoveCheck, RemoveUnlink,
      Goto, OnlyFiles, OnlyPc, TypeOK
<1>5. CASE SendAt(w, "cMeta", ClearMetadata, "cRelease")
  BY <1>1, <1>5, SendForward
<1>6. CASE SendAt(w, "cRelease", Release, "cCheck")
  BY <1>1, <1>6, SendForward
<1>7. CASE SendAt(w, "tReport", Agent(w, "working"), "tMeta")
  BY <1>1, <1>7, SendForward
<1>8. CASE SendAt(w, "tMeta", Metadata(w, "working", FALSE), "loop")
  <2>1. /\ pc[w] = "tMeta" /\ outcome' = outcome
        /\ pc'[w] \in {"loop", "exited", "park"}
    BY <1>1, <1>8, SendForward
  <2> QED
    BY <2>1
<1>9. CASE SendAt(w, "sIdle", Agent(w, "idle"), "sMeta")
  BY <1>1, <1>9, SendForward
<1>10. CASE SendAt(w, "sMeta", Metadata(w, outcome[w], FALSE), "exited")
  BY <1>1, <1>10, SendForward
<1>11. CASE SendAt(w, "fIdle", Agent(w, "idle"), "fMeta")
  BY <1>1, <1>11, SendForward
<1>12. CASE SendAt(w, "fMeta", Metadata(w, outcome[w], TRUE), "linger")
  BY <1>1, <1>12, SendForward
<1>13. CASE SendAt(w, "release", Release, "check")
  BY <1>1, <1>13, SendForward
<1> QED
  BY <1>2, <1>3, <1>4, <1>5, <1>6, <1>7, <1>8, <1>9, <1>10, <1>11, <1>12, <1>13
  DEF WatcherStep, Clear, Report, Conclude

-----------------------------------------------------------------------------
(* How a command ended.                                                    *)

LEMMA InitEnded == Init => EndedInv
<1> SUFFICES ASSUME Init PROVE EndedInv
  OBVIOUS
<1>1. IInv
  BY InitIInv
<1>2. HookInv /\ SettledInv
  BY DEF Init, HookInv, SettledInv, Cmd
<1>3. TruthInv
  BY DEF Init, TruthInv, Truthful, Settled, FinishPc, NoLabel
<1> QED
  BY <1>1, <1>2, <1>3 DEF EndedInv

(* A request that tells the truth leaves it at that, applied or late.      *)
Spoken == Truthful(label) /\ \A r \in late : r.kind = "metadata" => Truthful(r.label)

LEMMA SendTruth ==
  ASSUME Spoken, NEW w \in Cmd, NEW at, NEW r, NEW next, SendAt(w, at, r, next),
         r.kind = "agent" \/ (r.kind = "metadata" /\ Truthful(r.label))
  PROVE  Spoken'
<1>1. status' = status
  BY DEF SendAt, shellVars
<1>2. label' = label \/ (r.kind # "agent" /\ label' = r.label)
  BY DEF SendAt, Send, Apply
<1>3. late' = late \/ late' = late \cup {r}
  BY DEF SendAt, Send
<1> QED
  BY <1>1, <1>2, <1>3 DEF Spoken, Truthful

(* Whatever a watcher does, what it says is true.                          *)
LEMMA StepTruth ==
  ASSUME EndedInv, NEW w \in Cmd, WatcherStep(w) \/ Crash(w)
  PROVE  Spoken'
<1>1. TypeOK /\ Spoken
  BY DEF EndedInv, IInv, TruthInv, Spoken
<1>2. CASE UNCHANGED <<status, label, late>>
  BY <1>1, <1>2 DEF Spoken, Truthful
<1>3. CASE \/ Boot(w) \/ Tick(w) \/ Finish(w) \/ ShellGone(w) \/ Unpark(w) \/ Crash(w)
           \/ LingerDone(w) \/ LingerSuperseded(w)
  BY <1>2, <1>3
  DEF Boot, Tick, Finish, ShellGone, Unpark, Crash, LingerDone, LingerSuperseded, OnlyPc,
      shellVars, paneVars
<1>4. CASE \/ ClearRead(w) \/ ClearDrop(w) \/ OpenMarker(w) \/ WriteMarker(w)
           \/ RemoveCheck(w, "cCheck", "cUnlink", Dispatch(prog[w]))
           \/ RemoveUnlink(w, "cUnlink", Dispatch(prog[w]))
           \/ RemoveCheck(w, "check", "unlink", "exited")
           \/ RemoveUnlink(w, "unlink", "exited")
  BY <1>2, <1>4
  DEF ClearRead, ClearDrop, OpenMarker, WriteMarker, RemoveCheck, RemoveUnlink, OnlyFiles,
      shellVars, paneVars
<1>5. CASE SendAt(w, "cMeta", ClearMetadata, "cRelease")
  <2>1. ClearMetadata.kind = "metadata" /\ Truthful(ClearMetadata.label)
    BY DEF ClearMetadata, NoLabel, Truthful
  <2> QED
    BY <1>1, <1>5, <2>1, SendTruth
<1>6. CASE SendAt(w, "cRelease", Release, "cCheck") \/ SendAt(w, "release", Release, "check")
  <2>1. Release.kind = "agent"
    BY DEF Release
  <2> QED
    BY <1>1, <1>6, <2>1, SendTruth
<1>7. CASE \/ SendAt(w, "tReport", Agent(w, "working"), "tMeta")
           \/ SendAt(w, "sIdle", Agent(w, "idle"), "sMeta")
           \/ SendAt(w, "fIdle", Agent(w, "idle"), "fMeta")
  <2>1. Agent(w, "working").kind = "agent" /\ Agent(w, "idle").kind = "agent"
    BY DEF Agent
  <2> QED
    BY <1>1, <1>7, <2>1, SendTruth
<1>8. CASE SendAt(w, "tMeta", Metadata(w, "working", FALSE), "loop")
  <2>1. /\ Metadata(w, "working", FALSE).kind = "metadata"
        /\ Truthful(Metadata(w, "working", FALSE).label)
    BY DEF Metadata, Truthful, Outcome
  <2> QED
    BY <1>1, <1>8, <2>1, SendTruth
<1>9. CASE \/ SendAt(w, "sMeta", Metadata(w, outcome[w], FALSE), "exited")
           \/ SendAt(w, "fMeta", Metadata(w, outcome[w], TRUE), "linger")
  <2>1. outcome[w] \in {"unknown", status[w]}
    BY <1>9 DEF SendAt, FinishPc, EndedInv, TruthInv
  <2>2. \A ttl \in BOOLEAN : /\ Metadata(w, outcome[w], ttl).kind = "metadata"
                             /\ Truthful(Metadata(w, outcome[w], ttl).label)
    BY <2>1 DEF Metadata, Truthful
  <2> QED
    BY <1>1, <1>9, <2>2, SendTruth
<1> QED
  BY <1>3, <1>4, <1>5, <1>6, <1>7, <1>8, <1>9 DEF WatcherStep, Clear, Report, Conclude

(* A step of a watcher keeps the layer.                                    *)
LEMMA MovesEnded ==
  ASSUME EndedInv, NEW w \in Cmd, WatcherStep(w) \/ Crash(w)
  PROVE  EndedInv'
<1>1. IInv /\ HookInv /\ SettledInv /\ TruthInv /\ TypeOK
  BY DEF EndedInv, IInv
<1>2. Moves(w) /\ Forward(w)
  BY <1>1, WatcherMoves, StepForward
<1>3. IInv'
  BY <1>1, <1>2, MovesInv
<1>4. /\ UNCHANGED <<shell, cur, pid, status, exitFile>>
      /\ pc[w] # "none" /\ pc'[w] # "none"
      /\ \A v \in Cmd \ {w} : pc'[v] = pc[v] /\ sig'[v] = sig[v]
      /\ sig'[w] \in {sig[w], "none"}
  BY <1>1, <1>2 DEF Moves, TypeOK, shellVars
<1>5. \A v \in Cmd : Settled(v) => Settled(v)'
  BY <1>2, <1>4 DEF Forward, Settled
<1>6. HookInv' /\ SettledInv'
  <2>1. \A v \in Cmd : (pc'[v] = "none" <=> pc[v] = "none") /\ sig'[v] \in {sig[v], "none"}
    BY <1>4
  <2>2. shell \in {"running", "ended", "write", "signal"} => cur \in Cmd
    BY <1>1 DEF IInv, ShellInv
  <2>3. HookInv'
    BY <1>1, <1>4, <2>1, <2>2 DEF HookInv
  <2>4. SettledInv'
    BY <1>1, <1>4, <1>5, <2>1 DEF SettledInv
  <2> QED
    BY <2>3, <2>4
<1>7. TruthInv'
  <2>1. Spoken'
    BY StepTruth
  <2>2. ASSUME NEW v \in Cmd, ~Settled(v)', sig'[v] = "USR1"
        PROVE  status'[v] # "none" /\ exitFile' \in {"unknown", status'[v]}
    BY <1>1, <1>4, <1>5, <2>2 DEF TruthInv
  <2>3. ASSUME NEW v \in Cmd, pc'[v] \in FinishPc
        PROVE  status'[v] # "none" /\ outcome'[v] \in {"unknown", status'[v]}
    <3>1. CASE Finish(w)
      <4>1. status[w] # "none" /\ exitFile \in {"unknown", status[w]}
        BY <1>1, <3>1 DEF Finish, Settled, TailPc, GonePc, TruthInv
      <4>2. outcome' = [outcome EXCEPT ![w] = exitFile]
        BY <3>1 DEF Finish, ReadExit
      <4> QED
        BY <1>1, <1>4, <2>3, <4>1, <4>2 DEF TruthInv, TypeOK
    <3>2. CASE ~Finish(w)
      <4>1. outcome' = outcome /\ pc[v] \in FinishPc
        BY <1>2, <1>4, <2>3, <3>2 DEF Forward
      <4> QED
        BY <1>1, <1>4, <4>1 DEF TruthInv
    <3> QED
      BY <3>1, <3>2
  <2> QED
    BY <2>1, <2>2, <2>3 DEF TruthInv, Spoken
<1> QED
  BY <1>3, <1>6, <1>7 DEF EndedInv

(* A signal settles the watcher it kills and moves no other; what it puts  *)
(* in a channel is that signal.                                            *)
LEMMA SignalHeard ==
  ASSUME TypeOK, NEW s \in {"USR1", "TERM"}, Signal(pid, s)
  PROVE  \A v \in Cmd :
            /\ pc'[v] = pc[v] \/ (pc[v] = "boot" /\ pc'[v] = "killed")
            /\ pc'[v] = "none" <=> pc[v] = "none"
            /\ Settled(v) => Settled(v)'
            /\ pc'[v] \in FinishPc => pc[v] \in FinishPc
            /\ sig'[v] = sig[v] \/ (v = pid /\ sig'[v] = s)
<1>1. \A v \in Cmd : pc'[v] = pc[v] \/ (pc[v] = "boot" /\ pc'[v] = "killed")
  BY SignalEffect
<1>2. \A v \in Cmd : sig'[v] = sig[v] \/ (v = pid /\ sig'[v] = s)
  BY DEF Signal, TypeOK
<1> QED
  BY <1>1, <1>2 DEF Settled, TailPc, GonePc, FinishPc

(* The hooks, the user and Herdr keep the layer.                           *)
LEMMA ShellEnded ==
  ASSUME EndedInv, "settle" \in Timing,
         \/ PreexecStart \/ CommandEnds \/ HookStep \/ ShellDies
         \/ Expire \/ ApplyLate \/ PaneCloses
  PROVE  EndedInv'
<1> USE ConstantsAssumption DEF EndedInv
<1>0. TypeOK /\ ShellInv /\ FreshInv /\ IInv'
  BY ShellInductive DEF IInv
<1>1. CASE PreexecStart
  <2>1. /\ shell = "prompt" /\ shell' = "spawn" /\ cur' = cur + 1 /\ cur' \in Cmd
        /\ cur \in Nat /\ Signal(pid, "TERM")
        /\ UNCHANGED <<status, exitFile, label, late, outcome>>
    BY <1>0, <1>1 DEF PreexecStart, TypeOK, Cmd, paneVars
  <2>2. HookInv'
    BY <1>0, <2>1 DEF HookInv, Cmd
  <2>3. SettledInv'
    BY <1>0, <2>1, SignalHeard DEF SettledInv, Cmd
  <2>4. TruthInv'
    BY <1>0, <2>1, SignalHeard DEF TruthInv, Truthful
  <2> QED
    BY <1>0, <2>2, <2>3, <2>4
<1>2. CASE PreexecSpawn
  <2>1. /\ shell = "spawn" /\ shell' = "running" /\ pid' = cur /\ cur \in Cmd
        /\ pc[cur] = "none" /\ sig[cur] = "none" /\ pc' = [pc EXCEPT ![cur] = "boot"]
        /\ \A v \in 1..(cur - 1) : Settled(v)
        /\ UNCHANGED <<cur, status, exitFile, sig, label, late, outcome>>
    BY <1>0, <1>2 DEF PreexecSpawn, ShellInv, FreshInv, paneVars
  <2>2. /\ pc'[cur] = "boot" /\ \A v \in Cmd \ {cur} : pc'[v] = pc[v]
    BY <1>0, <2>1 DEF TypeOK
  <2>3. HookInv'
    BY <2>1, <2>2 DEF HookInv
  <2>4. SettledInv'
    <3>1. \A v \in Cmd : v < cur => v \in 1..(cur - 1)
      BY <2>1 DEF Cmd
    <3>2. \A v \in Cmd : v > cur => pc[v] = "none"
      BY <1>0 DEF FreshInv
    <3>3. \A v \in Cmd : v # cur => (Settled(v)' <=> Settled(v))
      BY <2>2 DEF Settled
    <3> QED
      BY <2>1, <2>2, <3>1, <3>2, <3>3 DEF SettledInv, Cmd
  <2>5. TruthInv'
    <3>1. \A v \in Cmd : v # cur => (Settled(v)' <=> Settled(v))
      BY <2>2 DEF Settled
    <3> QED
      BY <2>1, <2>2, <3>1 DEF TruthInv, Truthful, FinishPc
  <2> QED
    BY <1>0, <2>3, <2>4, <2>5
<1>3. CASE CommandEnds
  <2>1. /\ shell = "running" /\ shell' \in {"ended", "prompt"} /\ cur \in Cmd
        /\ status[cur] = "none" /\ pid = cur /\ pc[cur] # "none" /\ sig[cur] = "none"
        /\ status' = [status EXCEPT ![cur] = status'[cur]]
        /\ UNCHANGED <<cur, pid, exitFile, label, late, outcome, pc, sig>>
    BY <1>0, <1>3 DEF CommandEnds, HookInv, ShellInv, TypeOK, paneVars, watchVars
  <2>2. \A v \in Cmd : v # cur => status'[v] = status[v]
    BY <1>0, <2>1 DEF TypeOK
  <2>3. HookInv' /\ SettledInv'
    BY <1>0, <2>1, <2>2 DEF HookInv, SettledInv, Settled, TypeOK
  <2>4. \A l \in Label : Truthful(l) => Truthful(l)'
    <3>1. \A b \in 0..N : b # 0 => b \in Cmd
      BY DEF Cmd
    <3>2. \A l \in Label : l.by \in 0..N
      BY DEF Label
    <3> QED
      BY <2>1, <2>2, <3>1, <3>2 DEF Truthful, Outcome
  <2>5. label \in Label /\ \A r \in late : r.kind = "metadata" => r.label \in Label
    BY <1>0 DEF TypeOK, Request
  <2>6. TruthInv'
    BY <2>1, <2>2, <2>4, <2>5 DEF TruthInv, Truthful, Settled
  <2> QED
    BY <1>0, <2>3, <2>6
<1>4. CASE PrecmdTruncate \/ PrecmdWrite
  <2>1. /\ shell \in {"ended", "write"} /\ shell' \in {"write", "signal"} /\ cur \in Cmd
        /\ shell' = "write" => exitFile' = "unknown"
        /\ shell' = "signal" => exitFile' \in {exitFile, status[cur]} /\ shell = "write"
        /\ UNCHANGED <<cur, pid, status, label, late, outcome, pc, sig>>
    BY <1>0, <1>4 DEF PrecmdTruncate, PrecmdWrite, ShellInv, paneVars, watchVars
  <2>2. HookInv' /\ SettledInv'
    BY <2>1 DEF HookInv, SettledInv, Settled
  <2>3. \A v \in Cmd : sig[v] = "USR1" => Settled(v)
    BY <1>0, <2>1 DEF TypeOK, HookInv, SettledInv, FreshInv, Settled, Cmd
  <2>4. TruthInv'
    BY <2>1, <2>3 DEF TruthInv, Truthful, Settled
  <2> QED
    BY <1>0, <2>2, <2>4
<1>5. CASE PrecmdSignal
  <2>1. /\ shell = "signal" /\ shell' = "prompt" /\ Signal(pid, "USR1") /\ cur \in Cmd
        /\ pid = cur /\ pc[cur] # "none" /\ status[cur] # "none"
        /\ exitFile \in {"unknown", status[cur]}
        /\ UNCHANGED <<cur, status, exitFile, label, late, outcome>>
    BY <1>0, <1>5 DEF PrecmdSignal, HookInv, ShellInv, paneVars
  <2>2. HookInv'
    BY <2>1 DEF HookInv
  <2>3. SettledInv'
    BY <1>0, <2>1, SignalHeard DEF SettledInv
  <2>4. TruthInv'
    BY <1>0, <2>1, SignalHeard DEF TruthInv, Truthful
  <2> QED
    BY <1>0, <2>2, <2>3, <2>4
<1>6. CASE ShellDies
  <2>1. /\ shell' = "dead" /\ UNCHANGED <<cur, status, exitFile, label, late, outcome>>
        /\ Signal(pid, "TERM") \/ UNCHANGED <<pc, sig>>
    BY <1>6 DEF ShellDies, paneVars
  <2>2. \A v \in Cmd :
            /\ pc'[v] = "none" <=> pc[v] = "none"
            /\ Settled(v) => Settled(v)'
            /\ pc'[v] \in FinishPc => pc[v] \in FinishPc
            /\ sig'[v] \in {sig[v], "TERM"}
    <3>1. CASE Signal(pid, "TERM")
      BY <1>0, <3>1, SignalHeard
    <3>2. CASE UNCHANGED <<pc, sig>>
      BY <3>2 DEF Settled
    <3> QED
      BY <2>1, <3>1, <3>2
  <2>3. HookInv' /\ SettledInv'
    <3>1. \A w \in Cmd : w < cur => pc[w] # "none"
      BY DEF SettledInv
    <3> QED
      BY <2>1, <2>2, <3>1 DEF HookInv, SettledInv
  <2>4. TruthInv'
    BY <2>1, <2>2 DEF TruthInv, Truthful
  <2> QED
    BY <1>0, <2>3, <2>4
<1>7. CASE Expire \/ ApplyLate \/ PaneCloses
  <2>1. UNCHANGED <<shell, cur, pid, status, exitFile, outcome, pc, sig>>
    BY <1>7 DEF Expire, ApplyLate, PaneCloses, shellVars, watchVars
  <2>2. HookInv' /\ SettledInv'
    BY <2>1 DEF HookInv, SettledInv, Settled
  <2>3. /\ label' \in {label, NoLabel} \cup {r.label : r \in {q \in late : q.kind = "metadata"}}
        /\ late' \subseteq late
    BY <1>0, <1>7 DEF Expire, ApplyLate, PaneCloses, Apply, TypeOK, Request
  <2>4. TruthInv'
    BY <2>1, <2>3 DEF TruthInv, Truthful, NoLabel, Settled
  <2> QED
    BY <1>0, <2>2, <2>4
<1> QED
  BY <1>1, <1>2, <1>3, <1>4, <1>5, <1>6, <1>7 DEF HookStep

(* Every step keeps the layer.                                             *)
LEMMA NextEnded == "settle" \in Timing /\ EndedInv /\ [Next]_vars => EndedInv'
<1> SUFFICES ASSUME "settle" \in Timing, EndedInv, [Next]_vars PROVE EndedInv'
  OBVIOUS
<1>1. CASE \E w \in Cmd : WatcherStep(w) \/ Crash(w)
  BY <1>1, MovesEnded
<1>2. CASE \/ PreexecStart \/ CommandEnds \/ HookStep \/ ShellDies
           \/ Expire \/ ApplyLate \/ PaneCloses
  BY <1>2, ShellEnded
<1>3. CASE UNCHANGED vars
  <2>1. IInv'
    BY <1>3, NextIInv DEF EndedInv
  <2> QED
    BY <1>3, <2>1
    DEF EndedInv, HookInv, SettledInv, TruthInv, Truthful, Settled, vars, shellVars,
        fileVars, paneVars, watchVars
<1> QED
  BY <1>1, <1>2, <1>3 DEF Next

(* No label says a command succeeded that did not: read_exit_code's "the   *)
(* one thing this plugin exists to prevent".  It holds with lost and late  *)
(* requests, killed watchers, and an `exit` that could not be written.     *)
THEOREM NeverFalseOkHolds ==
  ASSUME "settle" \in Timing
  PROVE  Spec => []NeverFalseOk
<1>1. EndedInv => NeverFalseOk
  BY DEF EndedInv, TruthInv, Truthful, NeverFalseOk, Outcome, Cmd
<1> QED
  BY <1>1, InitEnded, NextEnded, PTL DEF Spec

-----------------------------------------------------------------------------
(* The marker and the row, up to the first request that times out.         *)

(* A watcher has begun once it has opened the marker for its report.       *)
Begun(w) ==
    \/ pc[w] \in {"tWrite", "tReport", "tMeta", "linger"} \cup FinishPc \cup TailPc
    \/ pc[w] = "loop" /\ reported[w]

(* Machine.reported is set by the first tick past the threshold.           *)
Placed(w) ==
    /\ pc[w] \in {"none", "boot"} \cup ClearPc => ~reported[w]
    /\ pc[w] \in TickPc \cup FinishPc \cup TailPc \cup {"linger"} => reported[w]

(* What a watcher that has not settled can rely on about the marker: it is *)
(* gone before the threshold and its own after it.                         *)
MarkerSeen(w) ==
    /\ pc[w] = "boot" /\ ~clearFirst[w] => marker = "absent"
    /\ pc[w] = "cDrop" => marker # "named"
    /\ pc[w] \in {"cMeta", "cRelease", "cCheck", "cUnlink"} => marker # "empty"
    /\ pc[w] = "tOpen" \/ (pc[w] = "loop" /\ ~reported[w]) => marker = "absent"
    /\ pc[w] = "tWrite" => marker = "empty" /\ w \in opened
    /\ pc[w] \in {"tReport", "tMeta"} \cup FinishPc \/ (pc[w] = "loop" /\ reported[w]) =>
          marker = "named"

(* What it knows of the row: it is free until its report, and then its own *)
(* until it is released.                                                   *)
Showing(w, s) ==
    /\ row = [state |-> s, by |-> w]
    /\ label = [text |-> "working", by |-> w, ttl |-> FALSE]
RowSeen(w) ==
    /\ row.by = w => reported[w] /\ pc[w] \notin {"tOpen", "tWrite", "tReport"}
    /\ pc[w] \in {"tReport", "cCheck", "cUnlink", "check", "unlink"} => row.state = "none"
    /\ paneOpen =>
          /\ pc[w] = "tMeta" => row = [state |-> "working", by |-> w]
          /\ pc[w] \in {"sIdle", "fIdle"} \/ (pc[w] = "loop" /\ reported[w]) =>
                Showing(w, "working")
          /\ pc[w] \in {"sMeta", "fMeta"} => Showing(w, "idle")

(* No earlier watcher is cleaning up once a watcher has begun, nor as long *)
(* as its report is on the row.                                            *)
GapInv ==
    \A v, w \in Cmd : v < w /\ (Begun(w) \/ row.by = w) => ~Cleaning(v)

(* A label that stays is the last thing its watcher did.                   *)
StaysInv ==
    label.by # 0 /\ label.text \in Outcome /\ ~label.ttl => pc[label.by] \in GonePc

RowInv ==
    /\ late = {}
    /\ \A w \in Cmd : Placed(w) /\ MarkerSeen(w) /\ RowSeen(w)
    /\ GapInv /\ StaysInv /\ Recoverable

TimedInv == EndedInv /\ (io = 0 => RowInv)

(* While one watcher has not settled, every other one has.                 *)
LEMMA OneAtWork ==
  ASSUME EndedInv, NEW v \in Cmd, NEW w \in Cmd, v # w, ~Settled(w)
  PROVE  Settled(v) /\ (v > w => pc[v] = "none")
BY DEF EndedInv, SettledInv, Settled, Cmd

(* How far the steps of a watcher reach: a settled one leaves the marker   *)
(* and the row alone or takes down what nobody has begun again.            *)
Reach(w) ==
    /\ \A v \in Cmd \ {w} : reported'[v] = reported[v]
    /\ late' = late
    /\ Begun(w)' => Begun(w) \/ \A v \in Cmd : v < w => ~Cleaning(v)
    /\ \/ UNCHANGED <<marker, opened>>
       \/ marker' = "absent" /\ Cleaning(w)
       \/ ~Settled(w)
    /\ \/ row' = row
       \/ row' = NoRow /\ (Cleaning(w) \/ ~Settled(w))
       \/ row'.by = w /\ Begun(w) /\ ~Settled(w)
    /\ label' = label \/ ~Settled(w)
    /\ \/ label' = label \/ label'.by = 0 \/ label'.text \notin Outcome \/ label'.ttl
       \/ label'.by = w /\ pc'[w] \in GonePc
    /\ Recoverable'

(* Such a step keeps what all the other watchers know.                     *)
LEMMA ReachOthers ==
  ASSUME EndedInv, RowInv, NEW w \in Cmd, WatcherStep(w) \/ Crash(w), Reach(w),
         NEW v \in Cmd, v # w
  PROVE  Placed(v)' /\ MarkerSeen(v)' /\ RowSeen(v)'
<1>1. TypeOK /\ Moves(w)
  BY WatcherMoves DEF EndedInv, IInv
<1>2. /\ pc'[v] = pc[v] /\ reported'[v] = reported[v] /\ pc[w] # "none"
      /\ UNCHANGED <<clearFirst, paneOpen>>
  BY <1>1 DEF Moves, TypeOK, shellVars, Reach
<1>3. Placed(v) /\ MarkerSeen(v) /\ RowSeen(v)
  BY DEF RowInv
<1>4. row'.by = v => row.by = v
  BY DEF Reach, NoRow, Cmd
<1>5. CASE Settled(v)
  <2>1. Placed(v)' /\ MarkerSeen(v)'
    BY <1>2, <1>3, <1>5
    DEF Placed, MarkerSeen, Settled, TailPc, GonePc, ClearPc, FinishPc
  <2>2. pc[v] \in {"check", "unlink"} => row'.state = "none"
    <3>1. ASSUME row'.by = w, Begun(w), ~Settled(w)
          PROVE  pc[v] \notin {"check", "unlink"}
      BY <3>1, <1>5, OneAtWork DEF RowInv, GapInv, Cleaning, TailPc, Cmd
    <3> QED
      BY <1>3, <3>1 DEF Reach, RowSeen, NoRow
  <2>3. RowSeen(v)'
    BY <1>2, <1>3, <1>4, <1>5, <2>2
    DEF RowSeen, Settled, TailPc, GonePc, ClearPc, FinishPc
  <2> QED
    BY <2>1, <2>3
<1>6. CASE ~Settled(v)
  <2>1. Settled(w) /\ w < v
    BY <1>2, <1>6, OneAtWork DEF Cmd
  <2>2. Cleaning(w) => ~Begun(v) /\ row.by # v
    BY <2>1 DEF RowInv, GapInv
  <2>3. CASE Cleaning(w)
    BY <1>2, <1>3, <1>4, <1>6, <2>1, <2>2, <2>3
    DEF Placed, MarkerSeen, RowSeen, Begun, Reach, NoRow, FinishPc, TailPc, Settled
  <2>4. CASE ~Cleaning(w)
    BY <1>2, <1>3, <1>6, <2>1, <2>4
    DEF Placed, MarkerSeen, RowSeen, Showing, Reach
  <2> QED
    BY <2>3, <2>4
<1> QED
  BY <1>5, <1>6

(* If the watcher itself knows where it stands, the layer is kept.         *)
LEMMA ReachRow ==
  ASSUME EndedInv, RowInv, NEW w \in Cmd, WatcherStep(w) \/ Crash(w), Reach(w),
         Placed(w)', MarkerSeen(w)', RowSeen(w)'
  PROVE  RowInv'
<1>1. TypeOK /\ Moves(w) /\ Forward(w)
  BY WatcherMoves, StepForward DEF EndedInv, IInv
<1>2. \A v \in Cmd \ {w} : pc'[v] = pc[v] /\ reported'[v] = reported[v]
  BY <1>1 DEF Moves, TypeOK, Reach
<1>3. \A v \in Cmd : Placed(v)' /\ MarkerSeen(v)' /\ RowSeen(v)'
  BY ReachOthers
<1>4. GapInv'
  <2> SUFFICES ASSUME NEW v \in Cmd, NEW x \in Cmd, v < x, Begun(x)' \/ row'.by = x
               PROVE  ~Cleaning(v)'
    BY DEF GapInv
  <2>1. row'.by = x => row.by = x \/ (x = w /\ Begun(w))
    BY DEF Reach, NoRow, Cmd
  <2>2. CASE x = w
    <3>1. v # w
      BY <2>2 DEF Cmd
    <3>2. ~Cleaning(v)
      BY <2>1, <2>2 DEF Reach, RowInv, GapInv
    <3> QED
      BY <1>2, <3>1, <3>2 DEF Cleaning
  <2>3. CASE x # w
    <3>1. Begun(x) \/ row.by = x
      BY <1>2, <2>1, <2>3 DEF Begun
    <3>2. ~Cleaning(v)
      BY <3>1 DEF RowInv, GapInv
    <3>3. CASE v # w
      BY <1>2, <3>2, <3>3 DEF Cleaning
    <3>4. CASE v = w /\ Settled(w)
      BY <1>1, <3>2, <3>4 DEF Forward, Cleaning, TailPc, GonePc
    <3>5. CASE v = w /\ ~Settled(w)
      <4>1. pc[x] = "none"
        BY <2>3, <3>5, OneAtWork DEF Cmd
      <4> QED
        BY <3>1, <4>1 DEF Begun, FinishPc, TailPc, RowInv, RowSeen, Placed
    <3> QED
      BY <3>3, <3>4, <3>5
  <2> QED
    BY <2>2, <2>3
<1>5. StaysInv'
  <2>1. ASSUME NEW v \in Cmd, pc[v] \in GonePc
        PROVE  pc'[v] \in GonePc
    BY <1>1, <1>2, <2>1 DEF Moves
  <2>2. label.by = 0 \/ label.by \in Cmd
    BY <1>1, ConstantsAssumption DEF TypeOK, Label, Cmd
  <2> QED
    BY <2>1, <2>2 DEF Reach, RowInv, StaysInv
<1> QED
  BY <1>3, <1>4, <1>5 DEF RowInv, Reach

(* A request that does not time out is applied, or stops the watcher.      *)
LEMMA SendRow ==
  ASSUME TypeOK, io = 0, io' = 0, NEW w \in Cmd, NEW at, NEW r, NEW next,
         SendAt(w, at, r, next)
  PROVE  /\ pc[w] = at /\ UNCHANGED <<marker, opened, late, paneOpen, clearFirst, reported>>
         /\ \/ paneOpen /\ Apply(r) /\ pc'[w] = next
            \/ /\ ~paneOpen /\ UNCHANGED <<row, label>>
               /\ pc'[w] = IF at \in ClearPc \cup TickPc THEN "park" ELSE "exited"
BY DEF SendAt, Send, Goto, StopAt, TypeOK, fileVars, shellVars

(* When a watcher opens the marker, no earlier one is cleaning up: the     *)
(* marker is gone, which a lingering watcher has noticed in the gap.       *)
LEMMA GapCloses ==
  ASSUME RowInv, "gap" \in Timing, NEW w \in Cmd, OpenMarker(w)
  PROVE  \A v \in Cmd : v < w => ~Cleaning(v)
<1>1. marker = "absent"
  BY DEF RowInv, MarkerSeen, OpenMarker
<1>2. \A v \in 1..(w - 1) : ~Cleaning(v)
  BY <1>1 DEF OpenMarker, GapRespected, Superseded, Cleaning
<1> QED
  BY <1>2, ConstantsAssumption DEF Cmd

(* The steps that leave the marker and the row alone.                      *)
LEMMA SilentRow ==
  ASSUME EndedInv, RowInv, NEW w \in Cmd,
         \/ Boot(w) \/ ClearRead(w) \/ Tick(w) \/ Finish(w) \/ ShellGone(w)
         \/ LingerDone(w) \/ LingerSuperseded(w) \/ Unpark(w) \/ Crash(w)
         \/ RemoveCheck(w, "cCheck", "cUnlink", Dispatch(prog[w]))
         \/ RemoveCheck(w, "check", "unlink", "exited")
  PROVE  Reach(w) /\ Placed(w)' /\ MarkerSeen(w)' /\ RowSeen(w)'
<1>1. TypeOK /\ Placed(w) /\ MarkerSeen(w) /\ RowSeen(w) /\ Recoverable
  BY DEF EndedInv, IInv, RowInv
<1>2. UNCHANGED <<marker, opened, row, label, late, clearFirst, paneOpen>>
  BY DEF Boot, ClearRead, Tick, Finish, ShellGone, LingerDone, LingerSuperseded, Unpark,
     Crash, RemoveCheck, OnlyFiles, OnlyPc, shellVars, fileVars, paneVars
<1>3. /\ \A v \in Cmd \ {w} : reported'[v] = reported[v]
      /\ reported'[w] = (reported[w] \/ Tick(w))
  BY <1>1
  DEF Boot, ClearRead, Tick, Finish, ShellGone, LingerDone, LingerSuperseded, Unpark,
      Crash, RemoveCheck, OnlyFiles, OnlyPc, shellVars, fileVars, paneVars, TypeOK
<1> USE DEF Placed, MarkerSeen, RowSeen, Begun, Showing, ClearPc, TickPc, FinishPc, TailPc,
            GonePc
<1>4. ASSUME Placed(w)', MarkerSeen(w)', RowSeen(w)', Begun(w)' => Begun(w)
      PROVE  Reach(w) /\ Placed(w)' /\ MarkerSeen(w)' /\ RowSeen(w)'
  <2>1. Recoverable'
    BY <1>1, <1>2 DEF Recoverable
  <2> QED
    BY <1>2, <1>3, <1>4, <2>1 DEF Reach
<1>5. CASE Boot(w)
  <2>1. /\ pc[w] = "boot" /\ ~Tick(w)
        /\ pc'[w] \in {"cRead", "park", "loop"}
        /\ ~clearFirst[w] <=> pc'[w] # "cRead"
    BY <1>1, <1>5, DispatchHolds DEF Boot, Goto, Tick, TypeOK
  <2> QED
    BY <1>1, <1>2, <1>3, <1>4, <2>1
<1>6. CASE ClearRead(w)
  <2>1. /\ pc[w] = "cRead" /\ ~Tick(w)
        /\ \/ marker = "named" /\ pc'[w] = "cMeta"
           \/ marker = "empty" /\ pc'[w] = "cDrop"
           \/ marker = "absent" /\ pc'[w] \in {"park", "loop"}
    BY <1>1, <1>6, DispatchHolds DEF ClearRead, Goto, Tick, TypeOK
  <2> QED
    BY <1>1, <1>2, <1>3, <1>4, <2>1
<1>7. CASE Tick(w)
  <2>1. /\ pc[w] = "loop"
        /\ pc'[w] = IF reported[w] THEN "tMeta" ELSE "tOpen"
    BY <1>1, <1>7 DEF Tick, Goto, TypeOK
  <2> QED
    BY <1>1, <1>2, <1>3, <1>4, <1>7, <2>1
<1>8. CASE Finish(w)
  <2>1. /\ pc[w] = "loop" /\ ~Tick(w)
        /\ pc'[w] \in {"exited", "sIdle", "release", "fIdle"}
        /\ ~reported[w] => pc'[w] = "exited"
    BY <1>1, <1>8 DEF Finish, FinishAt, Goto, Tick, TypeOK
  <2> QED
    BY <1>1, <1>2, <1>3, <1>4, <2>1
<1>9. CASE ShellGone(w)
  <2>1. /\ pc[w] = "loop" /\ ~Tick(w)
        /\ pc'[w] = IF reported[w] THEN "release" ELSE "exited"
    BY <1>1, <1>9 DEF ShellGone, ShellAlive, Goto, Tick, TypeOK
  <2> QED
    BY <1>1, <1>2, <1>3, <1>4, <2>1
<1>10. CASE LingerDone(w) \/ LingerSuperseded(w) \/ Unpark(w) \/ Crash(w)
  <2>1. /\ pc[w] \notin {"none"} \cup GonePc
        /\ pc'[w] \in GonePc \/ (pc[w] = "linger" /\ pc'[w] = "release")
    BY <1>1, <1>10 DEF LingerDone, LingerSuperseded, Unpark, Crash, Goto, TypeOK
  <2>2. ~Tick(w)
    BY <1>1, <2>1 DEF Tick, Goto, TypeOK
  <2> QED
    BY <1>1, <1>2, <1>3, <1>4, <2>1, <2>2
<1>11. CASE RemoveCheck(w, "cCheck", "cUnlink", Dispatch(prog[w]))
  <2>1. /\ pc[w] = "cCheck" /\ ~Tick(w)
        /\ \/ marker = "named" /\ pc'[w] = "cUnlink"
           \/ marker = "absent" /\ pc'[w] \in {"park", "loop"}
    BY <1>1, <1>11, DispatchHolds DEF RemoveCheck, Goto, Tick, TypeOK
  <2> QED
    BY <1>1, <1>2, <1>3, <1>4, <2>1
<1>12. CASE RemoveCheck(w, "check", "unlink", "exited")
  <2>1. /\ pc[w] = "check" /\ ~Tick(w) /\ pc'[w] \in {"unlink", "exited"}
    BY <1>1, <1>12 DEF RemoveCheck, Goto, Tick, TypeOK
  <2> QED
    BY <1>1, <1>2, <1>3, <1>4, <2>1
<1> QED
  BY <1>5, <1>6, <1>7, <1>8, <1>9, <1>10, <1>11, <1>12

(* The steps that open, write or unlink the marker.                        *)
LEMMA FilesRow ==
  ASSUME EndedInv, RowInv, "gap" \in Timing, NEW w \in Cmd,
         \/ ClearDrop(w) \/ OpenMarker(w) \/ WriteMarker(w)
         \/ RemoveUnlink(w, "cUnlink", Dispatch(prog[w]))
         \/ RemoveUnlink(w, "unlink", "exited")
  PROVE  Reach(w) /\ Placed(w)' /\ MarkerSeen(w)' /\ RowSeen(w)'
<1>1. TypeOK /\ Placed(w) /\ MarkerSeen(w) /\ RowSeen(w) /\ Recoverable
  BY DEF EndedInv, IInv, RowInv
<1>2. UNCHANGED <<row, label, late, clearFirst, paneOpen, reported>>
  BY DEF ClearDrop, OpenMarker, WriteMarker, RemoveUnlink, OnlyFiles, shellVars, paneVars
<1> USE DEF Placed, MarkerSeen, RowSeen, Begun, Showing, ClearPc, TickPc, FinishPc, TailPc,
            GonePc, Recoverable
<1>3. CASE ClearDrop(w) \/ RemoveUnlink(w, "cUnlink", Dispatch(prog[w]))
  <2>1. /\ pc[w] \in {"cDrop", "cUnlink"} /\ pc'[w] \in {"park", "loop"}
        /\ marker' = "absent"
    BY <1>1, <1>3, DispatchHolds DEF ClearDrop, RemoveUnlink, Unlink, Goto, TypeOK
  <2>2. row.state = "none"
    BY <1>1, <2>1
  <2> QED
    BY <1>1, <1>2, <2>1, <2>2 DEF Reach, Settled
<1>4. CASE RemoveUnlink(w, "unlink", "exited")
  <2>1. pc[w] = "unlink" /\ pc'[w] = "exited" /\ marker' = "absent"
    BY <1>1, <1>4 DEF RemoveUnlink, Unlink, Goto, TypeOK
  <2> QED
    BY <1>1, <1>2, <2>1 DEF Reach, Cleaning
<1>5. CASE OpenMarker(w)
  <2>1. /\ pc[w] = "tOpen" /\ pc'[w] = "tWrite" /\ marker = "absent" /\ marker' = "empty"
        /\ w \in opened'
    BY <1>1, <1>5 DEF OpenMarker, Goto, TypeOK
  <2>2. \A v \in Cmd : v < w => ~Cleaning(v)
    BY <1>5, GapCloses
  <2> QED
    BY <1>1, <1>2, <2>1, <2>2 DEF Reach, Settled
<1>6. CASE WriteMarker(w)
  <2>1. /\ pc[w] = "tWrite" /\ pc'[w] = "tReport" /\ marker = "empty" /\ marker' = "named"
    BY <1>1, <1>6 DEF WriteMarker, Goto, TypeOK
  <2> QED
    BY <1>1, <1>2, <2>1 DEF Reach, Settled
<1> QED
  BY <1>3, <1>4, <1>5, <1>6

(* The requests, as long as none times out.                                *)
LEMMA SendsRow ==
  ASSUME EndedInv, RowInv, io = 0, io' = 0, NEW w \in Cmd,
         \/ SendAt(w, "cMeta", ClearMetadata, "cRelease")
         \/ SendAt(w, "cRelease", Release, "cCheck")
         \/ SendAt(w, "tReport", Agent(w, "working"), "tMeta")
         \/ SendAt(w, "tMeta", Metadata(w, "working", FALSE), "loop")
         \/ SendAt(w, "sIdle", Agent(w, "idle"), "sMeta")
         \/ SendAt(w, "sMeta", Metadata(w, outcome[w], FALSE), "exited")
         \/ SendAt(w, "fIdle", Agent(w, "idle"), "fMeta")
         \/ SendAt(w, "fMeta", Metadata(w, outcome[w], TRUE), "linger")
         \/ SendAt(w, "release", Release, "check")
  PROVE  Reach(w) /\ Placed(w)' /\ MarkerSeen(w)' /\ RowSeen(w)'
<1>1. TypeOK /\ Placed(w) /\ MarkerSeen(w) /\ RowSeen(w) /\ Recoverable
  BY DEF EndedInv, IInv, RowInv
<1> USE DEF Placed, MarkerSeen, RowSeen, Begun, Showing, ClearPc, TickPc, FinishPc, TailPc,
            GonePc
<1>2. UNCHANGED <<marker, opened, late, paneOpen, clearFirst, reported>>
  BY <1>1, SendRow
<1>3. ASSUME pc'[w] \in {"park", "exited"}, UNCHANGED <<row, label>>
      PROVE  Reach(w) /\ Placed(w)' /\ MarkerSeen(w)' /\ RowSeen(w)'
  BY <1>1, <1>2, <1>3 DEF Reach, Recoverable
<1>4. CASE SendAt(w, "cMeta", ClearMetadata, "cRelease")
  <2>1. CASE pc'[w] = "cRelease" /\ label' = NoLabel /\ row' = row /\ pc[w] = "cMeta"
    BY <1>1, <1>2, <2>1 DEF Reach, Recoverable, NoLabel, Settled
  <2> QED
    BY <1>1, <1>3, <1>4, <2>1, SendRow DEF Apply, ClearMetadata
<1>5. CASE SendAt(w, "cRelease", Release, "cCheck")
  <2>1. CASE pc'[w] = "cCheck" /\ row' = NoRow /\ label' = label /\ pc[w] = "cRelease"
    BY <1>1, <1>2, <2>1 DEF Reach, Recoverable, NoRow, Settled, Cmd
  <2> QED
    BY <1>1, <1>3, <1>5, <2>1, SendRow DEF Apply, Release
<1>6. CASE SendAt(w, "tReport", Agent(w, "working"), "tMeta")
  <2>1. CASE /\ pc'[w] = "tMeta" /\ row' = [state |-> "working", by |-> w]
             /\ label' = label /\ pc[w] = "tReport"
    BY <1>1, <1>2, <2>1 DEF Reach, Recoverable, Settled
  <2> QED
    BY <1>1, <1>3, <1>6, <2>1, SendRow DEF Apply, Agent
<1>7. CASE SendAt(w, "tMeta", Metadata(w, "working", FALSE), "loop")
  <2>1. CASE /\ paneOpen /\ pc'[w] = "loop" /\ row' = row /\ pc[w] = "tMeta"
             /\ label' = [text |-> "working", by |-> w, ttl |-> FALSE]
    BY <1>1, <1>2, <2>1 DEF Reach, Recoverable, Settled, Outcome
  <2> QED
    BY <1>1, <1>3, <1>7, <2>1, SendRow DEF Apply, Metadata
<1>8. CASE \/ SendAt(w, "sIdle", Agent(w, "idle"), "sMeta")
           \/ SendAt(w, "fIdle", Agent(w, "idle"), "fMeta")
  <2>1. CASE /\ paneOpen /\ pc'[w] \in {"sMeta", "fMeta"} /\ pc[w] \in {"sIdle", "fIdle"}
             /\ row' = [state |-> "idle", by |-> w] /\ label' = label
    BY <1>1, <1>2, <2>1 DEF Reach, Recoverable, Settled
  <2> QED
    BY <1>1, <1>3, <1>8, <2>1, SendRow DEF Apply, Agent
<1>9. CASE SendAt(w, "sMeta", Metadata(w, outcome[w], FALSE), "exited")
  <2>1. CASE /\ pc'[w] = "exited" /\ row' = row /\ pc[w] = "sMeta"
             /\ label' = [text |-> outcome[w], by |-> w, ttl |-> FALSE]
    BY <1>1, <1>2, <2>1 DEF Reach, Recoverable, Settled
  <2> QED
    BY <1>1, <1>3, <1>9, <2>1, SendRow DEF Apply, Metadata
<1>10. CASE SendAt(w, "fMeta", Metadata(w, outcome[w], TRUE), "linger")
  <2>1. CASE /\ pc'[w] = "linger" /\ row' = row /\ pc[w] = "fMeta"
             /\ label' = [text |-> outcome[w], by |-> w, ttl |-> TRUE]
    BY <1>1, <1>2, <2>1 DEF Reach, Recoverable, Settled
  <2> QED
    BY <1>1, <1>3, <1>10, <2>1, SendRow DEF Apply, Metadata
<1>11. CASE SendAt(w, "release", Release, "check")
  <2>1. CASE pc'[w] = "check" /\ row' = NoRow /\ label' = label /\ pc[w] = "release"
    BY <1>1, <1>2, <2>1 DEF Reach, Recoverable, NoRow, Cleaning, Cmd
  <2> QED
    BY <1>1, <1>3, <1>11, <2>1, SendRow DEF Apply, Release
<1> QED
  BY <1>4, <1>5, <1>6, <1>7, <1>8, <1>9, <1>10, <1>11

(* A step of a watcher reaches no further, and never past a failed call.   *)
LEMMA StepRow ==
  ASSUME EndedInv, RowInv, io = 0, io' = 0, "gap" \in Timing, NEW w \in Cmd,
         WatcherStep(w) \/ Crash(w)
  PROVE  Reach(w) /\ Placed(w)' /\ MarkerSeen(w)' /\ RowSeen(w)'
BY SilentRow, FilesRow, SendsRow DEF WatcherStep, Clear, Report, Conclude

LEMMA FailuresStay ==
  ASSUME TypeOK, [Next]_vars
  PROVE  io' \in {io, io + 1} /\ (io' = 0 => io = 0)
<1>1. \A w \in Cmd : WatcherStep(w) \/ Crash(w) => io' \in {io, io + 1}
  BY DEF WatcherStep, Crash, Boot, Clear, ClearRead, ClearDrop, SendAt, Send, RemoveCheck,
     RemoveUnlink, Tick, Report, OpenMarker, WriteMarker, Finish, ShellGone, Conclude,
     LingerDone, LingerSuperseded, Unpark, OnlyPc, OnlyFiles, paneVars
<1>2. io' \in {io, io + 1}
  BY <1>1
  DEF Next, PreexecStart, CommandEnds, HookStep, PreexecSpawn, PrecmdTruncate, PrecmdWrite,
      PrecmdSignal, ShellDies, Expire, ApplyLate, PaneCloses, vars, paneVars
<1> QED
  BY <1>2, ConstantsAssumption DEF TypeOK

(* A step of a watcher keeps the layer.                                    *)
LEMMA MovesTimed ==
  ASSUME TimedInv, "gap" \in Timing, NEW w \in Cmd, WatcherStep(w) \/ Crash(w)
  PROVE  TimedInv'
<1>1. EndedInv /\ EndedInv' /\ TypeOK
  BY MovesEnded DEF TimedInv, EndedInv, IInv
<1> SUFFICES ASSUME io' = 0 PROVE RowInv'
  BY <1>1 DEF TimedInv
<1>2. io = 0 /\ RowInv
  BY <1>1, FailuresStay DEF TimedInv, Next
<1>3. Reach(w) /\ Placed(w)' /\ MarkerSeen(w)' /\ RowSeen(w)'
  BY <1>1, <1>2, StepRow
<1> QED
  BY <1>1, <1>2, <1>3, ReachRow

(* A signal keeps the layer: it only kills a watcher that is starting up.  *)
LEMMA SignalRow ==
  ASSUME TypeOK, RowInv, NEW s \in {"USR1", "TERM"}, Signal(pid, s),
         UNCHANGED <<clearFirst, reported, marker, opened, paneOpen, row, label, late>>
  PROVE  RowInv'
<1>1. \A v \in Cmd : pc'[v] = pc[v] \/ (pc[v] = "boot" /\ pc'[v] = "killed")
  BY SignalHeard
<1> USE DEF ClearPc, TickPc, FinishPc, TailPc, GonePc
<1>2. \A v \in Cmd : Placed(v)' /\ MarkerSeen(v)' /\ RowSeen(v)'
  BY <1>1 DEF RowInv, Placed, MarkerSeen, RowSeen, Showing
<1>3. GapInv'
  BY <1>1 DEF RowInv, GapInv, Begun, Cleaning
<1>4. StaysInv' /\ Recoverable'
  <2>1. label.by = 0 \/ label.by \in Cmd
    BY ConstantsAssumption DEF TypeOK, Label, Cmd
  <2> QED
    BY <1>1, <2>1 DEF RowInv, StaysInv, Recoverable
<1> QED
  BY <1>2, <1>3, <1>4 DEF RowInv

(* The hooks, the user and Herdr keep the layer.                           *)
LEMMA ShellTimed ==
  ASSUME TimedInv, "settle" \in Timing,
         \/ PreexecStart \/ CommandEnds \/ HookStep \/ ShellDies
         \/ Expire \/ ApplyLate \/ PaneCloses
  PROVE  TimedInv'
<1>1. EndedInv /\ EndedInv' /\ TypeOK /\ ShellInv /\ FreshInv
  BY ShellEnded DEF TimedInv, EndedInv, IInv
<1>2. io' = io
  BY DEF PreexecStart, CommandEnds, HookStep, PreexecSpawn, PrecmdTruncate, PrecmdWrite,
     PrecmdSignal, ShellDies, Expire, ApplyLate, PaneCloses, paneVars
<1> SUFFICES ASSUME io = 0 PROVE RowInv'
  BY <1>1, <1>2 DEF TimedInv
<1>3. RowInv
  BY DEF TimedInv
<1>4. CASE PreexecStart \/ PrecmdSignal
  BY <1>1, <1>3, <1>4, SignalRow
  DEF PreexecStart, PrecmdSignal, fileVars, paneVars
<1>5. CASE UNCHANGED <<clearFirst, reported, pc, marker, opened, paneOpen, row, label, late>>
  BY <1>3, <1>5
  DEF RowInv, Placed, MarkerSeen, RowSeen, Showing, GapInv, Begun, Cleaning, StaysInv,
      Recoverable
<1>6. CASE ShellDies
  BY <1>1, <1>3, <1>5, <1>6, SignalRow DEF ShellDies, fileVars, paneVars
<1>7. CASE CommandEnds \/ PrecmdTruncate \/ PrecmdWrite
  BY <1>5, <1>7 DEF CommandEnds, PrecmdTruncate, PrecmdWrite, fileVars, paneVars, watchVars
<1>8. CASE PreexecSpawn
  <2>1. /\ cur \in Cmd /\ pc[cur] = "none" /\ pc'[cur] = "boot"
        /\ clearFirst'[cur] = (marker # "absent")
        /\ \A v \in Cmd \ {cur} : pc'[v] = pc[v] /\ clearFirst'[v] = clearFirst[v]
        /\ UNCHANGED <<reported, marker, opened, paneOpen, row, label, late>>
    BY <1>1, <1>8
    DEF PreexecSpawn, MarkerTest, ShellInv, FreshInv, TypeOK, fileVars, paneVars
  <2>2. \A v \in Cmd : Placed(v)' /\ MarkerSeen(v)' /\ RowSeen(v)'
    BY <1>3, <2>1
    DEF RowInv, Placed, MarkerSeen, RowSeen, Showing, ClearPc, TickPc, FinishPc, TailPc
  <2>3. GapInv'
    BY <1>3, <2>1
    DEF RowInv, GapInv, Begun, Cleaning, FinishPc, TailPc
  <2>4. StaysInv' /\ Recoverable'
    <3>1. label.by = 0 \/ label.by \in Cmd
      BY <1>1, ConstantsAssumption DEF TypeOK, Label, Cmd
    <3> QED
      BY <1>3, <2>1, <3>1 DEF RowInv, StaysInv, Recoverable, GonePc
  <2> QED
    BY <1>3, <2>1, <2>2, <2>3, <2>4 DEF RowInv
<1>9. CASE Expire \/ PaneCloses
  <2>1. /\ UNCHANGED <<clearFirst, reported, pc, marker, opened, late>>
        /\ label' = NoLabel
        /\ \/ row' = row /\ paneOpen' = paneOpen /\ label.ttl
           \/ row' = NoRow /\ ~paneOpen'
    BY <1>9 DEF Expire, PaneCloses, shellVars, fileVars, watchVars
  <2>2. \A v \in Cmd : Placed(v)' /\ MarkerSeen(v)' /\ RowSeen(v)'
    BY <1>3, <2>1
    DEF RowInv, Placed, MarkerSeen, RowSeen, Showing, NoRow, Cmd
  <2>3. GapInv'
    BY <1>3, <2>1 DEF RowInv, GapInv, Begun, Cleaning, NoRow, Cmd
  <2>4. StaysInv' /\ Recoverable'
    BY <1>3, <2>1 DEF RowInv, StaysInv, Recoverable, NoRow, NoLabel
  <2> QED
    BY <1>3, <2>1, <2>2, <2>3, <2>4 DEF RowInv
<1>10. CASE ApplyLate
  BY <1>3, <1>10 DEF ApplyLate, RowInv
<1> QED
  BY <1>4, <1>6, <1>7, <1>8, <1>9, <1>10 DEF HookStep

LEMMA InitTimed == Init => TimedInv
<1> SUFFICES ASSUME Init PROVE TimedInv
  OBVIOUS
<1>1. EndedInv
  BY InitEnded
<1>2. \A w \in Cmd : Placed(w) /\ MarkerSeen(w) /\ RowSeen(w)
  BY DEF Init, Placed, MarkerSeen, RowSeen, TickPc, FinishPc, TailPc, NoRow, Cmd
<1>3. GapInv /\ StaysInv /\ Recoverable
  BY DEF Init, GapInv, Cleaning, TailPc, StaysInv, Recoverable, NoRow, NoLabel
<1> QED
  BY <1>1, <1>2, <1>3 DEF Init, TimedInv, RowInv

(* Every step keeps the layer.                                             *)
LEMMA NextTimed ==
  {"settle", "gap"} \subseteq Timing /\ TimedInv /\ [Next]_vars => TimedInv'
<1> SUFFICES ASSUME {"settle", "gap"} \subseteq Timing, TimedInv, [Next]_vars
             PROVE  TimedInv'
  OBVIOUS
<1>1. CASE \E w \in Cmd : WatcherStep(w) \/ Crash(w)
  BY <1>1, MovesTimed
<1>2. CASE \/ PreexecStart \/ CommandEnds \/ HookStep \/ ShellDies
           \/ Expire \/ ApplyLate \/ PaneCloses
  BY <1>2, ShellTimed
<1>3. CASE UNCHANGED vars
  <2>1. EndedInv'
    BY <1>3, NextEnded DEF TimedInv
  <2> QED
    BY <1>3, <2>1
    DEF TimedInv, RowInv, Placed, MarkerSeen, RowSeen, Showing, GapInv, Begun, Cleaning,
        StaysInv, Recoverable, vars, shellVars, fileVars, paneVars, watchVars
<1> QED
  BY <1>1, <1>2, <1>3 DEF Next

(* Up to the first request that times out, a reserved pane has a marker    *)
(* with a name in it: whichever watcher is killed, the next preexec passes *)
(* --clear-first and takes the row back.                                   *)
THEOREM RecoverableHolds ==
  ASSUME {"settle", "gap"} \subseteq Timing
  PROVE  Spec => [](io = 0 => Recoverable)
<1>1. TimedInv => (io = 0 => Recoverable)
  BY DEF TimedInv, RowInv
<1> QED
  BY <1>1, InitTimed, NextTimed, PTL DEF Spec

(* Up to then, what the watcher of the running command has reported is     *)
(* what the row shows, and the marker names it, whatever older watchers do.*)
THEOREM RunningRowHolds ==
  ASSUME {"settle", "gap"} \subseteq Timing
  PROVE  Spec => [](io = 0 => RunningRowStands)
<1>1. TimedInv => (io = 0 => RunningRowStands)
  BY DEF TimedInv, RowInv, MarkerSeen, RowSeen, Showing, RunningRowStands
<1> QED
  BY <1>1, InitTimed, NextTimed, PTL DEF Spec

-----------------------------------------------------------------------------
(* A sticky failure, and what the row means.                               *)

(* A command's watcher is one of those started.                            *)
LEMMA StartedTyped ==
  ASSUME EndedInv, NEW w \in Cmd, pc[w] # "none"
  PROVE  w <= Typed /\ w <= cur /\ (~Settled(w) => Typed = w) /\ Typed \in 0..N
<1>1. TypeOK /\ FreshInv /\ SettledInv /\ cur \in 0..N /\ w \in Nat /\ w > 0
  BY ConstantsAssumption DEF EndedInv, IInv, TypeOK, Cmd
<1>2. w <= cur /\ cur \in Cmd
  BY <1>1, ConstantsAssumption DEF FreshInv, Cmd
<1>3. CASE w = cur
  BY <1>1, <1>3, ConstantsAssumption DEF Typed
<1>4. CASE w < cur
  <2>1. w <= Typed /\ Typed \in 0..N
    BY <1>1, <1>2, <1>4, ConstantsAssumption DEF Typed
  <2>2. ASSUME ~Settled(w)
        PROVE  Typed = w
    <3>1. \A v \in Cmd : v > w => pc[v] = "none"
      BY <1>1, <2>2 DEF SettledInv
    <3>2. \A v \in Cmd : v < cur => pc[v] # "none"
      BY <1>1 DEF SettledInv
    <3>3. w = cur - 1
      <4>1. w + 1 \in Cmd /\ w + 1 <= cur
        BY <1>1, <1>4, ConstantsAssumption DEF Cmd
      <4>2. ~(w + 1 < cur)
        BY <1>1, <3>1, <3>2, <4>1
      <4> QED
        BY <1>1, <4>1, <4>2
    <3> QED
      BY <1>1, <1>2, <1>4, <3>1, <3>3 DEF Typed
  <2> QED
    BY <1>2, <2>1, <2>2
<1> QED
  BY <1>1, <1>2, <1>3, <1>4

(* A watcher that is not over takes down a label that stays only if a      *)
(* later command than its own has been started.                            *)
LEMMA StaysUntilLater ==
  ASSUME EndedInv, RowInv, NEW w \in Cmd, ~Settled(w) \/ Cleaning(w),
         label.by = row.by, label.text \in Outcome, ~label.ttl
  PROVE  row.by < w
<1>1. TypeOK /\ (row.by = 0 \/ row.by \in Cmd) /\ w \in Nat /\ w > 0
  BY ConstantsAssumption DEF EndedInv, IInv, TypeOK, Row, Cmd
<1>2. CASE row.by = 0
  BY <1>1, <1>2
<1>3. CASE row.by \in Cmd
  <2>1. pc[row.by] \in GonePc /\ row.by # w
    <3>1. row.by # 0
      BY <1>3 DEF Cmd
    <3> QED
      BY <3>1 DEF RowInv, StaysInv, Cleaning, Settled, TailPc, GonePc
  <2>2. ~(w < row.by)
    <3>1. w < row.by => ~Cleaning(w)
      BY <1>3 DEF RowInv, GapInv
    <3>2. ~Settled(w) => ~(row.by > w)
      BY <1>3, <2>1, OneAtWork DEF GonePc
    <3> QED
      BY <1>1, <1>3, <3>1, <3>2 DEF Cmd
  <2> QED
    BY <1>1, <1>3, <2>1, <2>2 DEF Cmd
<1> QED
  BY <1>1, <1>2, <1>3

(* Nothing but the next command takes a failure's label down.              *)
LEMMA StickyStays ==
  ASSUME EndedInv, RowInv, io = 0, io' = 0, "gap" \in Timing, [Next]_vars,
         NEW w \in 0..N, StickyUp(w), cur' = w, paneOpen'
  PROVE  UNCHANGED <<row, label>>
<1>1. TypeOK /\ label.by = row.by /\ row.by = w /\ label.text \in Outcome /\ ~label.ttl
  BY DEF EndedInv, IInv, StickyUp, Outcome
<1>2. ASSUME NEW v \in Cmd, WatcherStep(v) \/ Crash(v)
      PROVE  UNCHANGED <<row, label>>
  <2>1. pc[v] # "none" /\ cur' = cur
    BY <1>1, <1>2, WatcherMoves DEF EndedInv, Moves, shellVars
  <2>2. v <= w
    BY <2>1, StartedTyped
  <2>3. ~(~Settled(v) \/ Cleaning(v))
    BY <1>1, <2>2, StaysUntilLater, ConstantsAssumption DEF Cmd
  <2>4. Reach(v)
    BY <1>2, StepRow
  <2> QED
    BY <2>3, <2>4 DEF Reach
<1>3. CASE Expire \/ ApplyLate \/ PaneCloses
  BY <1>1, <1>3 DEF Expire, ApplyLate, PaneCloses, RowInv
<1>4. CASE PreexecStart \/ CommandEnds \/ HookStep \/ ShellDies \/ UNCHANGED vars
  BY <1>4
  DEF PreexecStart, CommandEnds, HookStep, PreexecSpawn, PrecmdTruncate, PrecmdWrite,
      PrecmdSignal, ShellDies, vars, paneVars
<1> QED
  BY <1>2, <1>3, <1>4 DEF Next

(* With no request timing out, the socket never fails in this model.       *)
LEMMA NoFailures == MaxIo = 0 /\ TypeOK => io = 0
BY DEF TypeOK

(* The label of a failure stands, with the row under it, until the user    *)
(* types another line (README.md:22, [finish] failure_sticky): no watcher  *)
(* that is still about, no expiry and no exit of the shell touches it.     *)
THEOREM FailureSticksHolds ==
  ASSUME {"settle", "gap"} \subseteq Timing, MaxIo = 0
  PROVE  Spec => FailureSticks
<1>1. TimedInv /\ TimedInv' /\ [Next]_vars =>
        [\A w \in 0..N :
           StickyUp(w) /\ cur' = w /\ paneOpen' => UNCHANGED <<row, label>>]_vars
  <2> SUFFICES ASSUME TimedInv, TimedInv', [Next]_vars, NEW w \in 0..N,
                      StickyUp(w), cur' = w, paneOpen'
               PROVE  UNCHANGED <<row, label>>
    OBVIOUS
  <2>1. io = 0 /\ io' = 0
    BY NoFailures DEF TimedInv, EndedInv, IInv, TypeOK
  <2> QED
    BY <2>1, StickyStays DEF TimedInv
<1> QED
  BY <1>1, InitTimed, NextTimed, PTL DEF Spec, FailureSticks

(* What the row and its label mean before and after a step.                *)
LEMMA ShownSame == UNCHANGED <<row, label>> => Shown' = Shown
BY DEF Shown, ShowsFinal, ShowsWorking, LabelOfRow

LEMMA ShownNone ==
  /\ row.state = "none" => Shown = Nothing
  /\ row'.state = "none" => Shown' = Nothing
BY DEF Shown, ShowsFinal, ShowsWorking

LEMMA ShownByGuard ==
  /\ ShowsWorking /\ ~ShowsFinal => Shown = Status!Working(row.by)
  /\ (ShowsWorking /\ ~ShowsFinal)' => Shown' = Status!Working(row'.by)
  /\ ShowsFinal /\ ~ShowsWorking =>
        Shown = Status!Final(row.by, label.text, ~label.ttl)
  /\ (ShowsFinal /\ ~ShowsWorking)' =>
        Shown' = Status!Final(row'.by, label'.text, ~label'.ttl)
BY DEF Shown, Status!Working, Status!Final

LEMMA ShownWorking ==
  ASSUME NEW w
  PROVE  /\ row = [state |-> "working", by |-> w] => Shown = Status!Working(w)
         /\ row' = [state |-> "working", by |-> w] => Shown' = Status!Working(w)
BY ShownByGuard DEF ShowsFinal, ShowsWorking

LEMMA ShownEnding ==
  ASSUME NEW w
  PROVE  /\ Showing(w, "idle") => Shown = Status!Working(w)
         /\ Showing(w, "idle")' => Shown' = Status!Working(w)
BY ShownByGuard DEF ShowsFinal, ShowsWorking, LabelOfRow, Showing, Outcome

LEMMA ShownNothing ==
  /\ ~ShowsFinal /\ ~ShowsWorking => Shown = Status!Nothing
  /\ (~ShowsFinal /\ ~ShowsWorking)' => Shown' = Status!Nothing
BY DEF Shown, Nothing, Status!Nothing

(* Without its label an idle row means nothing.                            *)
LEMMA ClearedLabel ==
  ASSUME row' = row, label' = NoLabel
  PROVE  Shown' = Status!Nothing \/ Shown' = Shown
<1>1. CASE row.state = "working"
  BY <1>1, ShownByGuard DEF ShowsFinal, ShowsWorking
<1>2. CASE row.state # "working"
  BY <1>2, ShownNothing DEF ShowsFinal, ShowsWorking, NoLabel, Outcome
<1> QED
  BY <1>1, <1>2

LEMMA InitStatus == Init => Status!Init
<1> SUFFICES ASSUME Init PROVE Status!Init
  OBVIOUS
<1>1. Typed = 0 /\ status = [w \in 1..N |-> "none"]
  BY DEF Init, Typed, Cmd
<1>2. Shown \in {Status!Nothing, Status!Final(0, "fail", TRUE)}
  <2>1. CASE row = NoRow
    BY <2>1, ShownNothing DEF ShowsFinal, ShowsWorking, NoRow
  <2>2. CASE /\ row = [state |-> "idle", by |-> 0]
             /\ label = [text |-> "fail", by |-> 0, ttl |-> FALSE]
    BY <2>2, ShownByGuard DEF ShowsFinal, ShowsWorking, LabelOfRow, Outcome
  <2> QED
    BY <2>1, <2>2 DEF Init
<1> QED
  BY <1>1, <1>2 DEF Status!Init

(* What a watcher takes down was no sticky label of the last command.      *)
LEMMA TakesDown ==
  ASSUME EndedInv, RowInv, NEW w \in Cmd, ~Settled(w) \/ Cleaning(w),
         UNCHANGED <<Typed, status>>, Shown' \in {Shown, Status!Nothing}
  PROVE  [Status!Next]_<<Typed, status, Shown>>
<1>1. TypeOK /\ row.by \in Nat /\ w \in Nat
  BY ConstantsAssumption DEF EndedInv, IInv, TypeOK, Row, Cmd
<1>2. CASE Shown = Status!Nothing \/ Shown' = Shown
  BY <1>2
<1>3. CASE Shown # Status!Nothing /\ Shown' = Status!Nothing
  <2>1. Shown.sticky => Typed > Shown.by
    <3>1. CASE ShowsFinal
      <4>1. /\ ~ShowsWorking /\ label.by = row.by /\ label.text \in Outcome
        BY <3>1 DEF ShowsFinal, ShowsWorking, LabelOfRow, Outcome
      <4>2. Shown = Status!Final(row.by, label.text, ~label.ttl)
        BY <3>1, <4>1, ShownByGuard
      <4>3. Shown.by = row.by /\ (Shown.sticky => ~label.ttl)
        <5>1. Shown.by = row.by /\ Shown.sticky = ~label.ttl
          BY <4>2 DEF Status!Final
        <5> QED
          BY <5>1, Zenon
      <4>4. ~label.ttl => row.by < w
        BY <4>1, StaysUntilLater
      <4>5. w <= Typed /\ Typed \in 0..N
        BY StartedTyped DEF Settled, Cleaning, TailPc
      <4> QED
        BY <1>1, <4>3, <4>4, <4>5, ConstantsAssumption
    <3>2. CASE ~ShowsFinal
      <4>1. Shown = Status!Working(row.by)
        BY <1>3, <3>2, ShownByGuard, ShownNothing
      <4> QED
        BY <4>1 DEF Status!Working
    <3> QED
      BY <3>1, <3>2
  <2> QED
    BY <1>3, <2>1 DEF Status!Next, Status!TakeDown
<1> QED
  BY <1>2, <1>3

(* In an open pane a request that does not time out is applied.            *)
LEMMA SendApplied ==
  ASSUME TypeOK, io = 0, io' = 0, paneOpen, NEW w \in Cmd, NEW at, NEW r, NEW next,
         SendAt(w, at, r, next)
  PROVE  pc[w] = at /\ Apply(r) /\ pc'[w] = next
BY SendRow, Zenon

(* A watcher's request shows what CommandStatus allows.                    *)
LEMMA SendStatus ==
  ASSUME EndedInv, RowInv, io = 0, io' = 0, paneOpen, NEW w \in Cmd,
         UNCHANGED <<Typed, status>>,
         \/ SendAt(w, "cMeta", ClearMetadata, "cRelease")
         \/ SendAt(w, "cRelease", Release, "cCheck")
         \/ SendAt(w, "tReport", Agent(w, "working"), "tMeta")
         \/ SendAt(w, "tMeta", Metadata(w, "working", FALSE), "loop")
         \/ SendAt(w, "sIdle", Agent(w, "idle"), "sMeta")
         \/ SendAt(w, "sMeta", Metadata(w, outcome[w], FALSE), "exited")
         \/ SendAt(w, "fIdle", Agent(w, "idle"), "fMeta")
         \/ SendAt(w, "fMeta", Metadata(w, outcome[w], TRUE), "linger")
         \/ SendAt(w, "release", Release, "check")
  PROVE  [Status!Next]_<<Typed, status, Shown>>
<1>1. TypeOK /\ RowSeen(w) /\ TruthInv
  BY DEF EndedInv, IInv, RowInv
<1>2. ~Settled(w) => Typed = w /\ Typed > 0
  BY StartedTyped, ConstantsAssumption DEF Settled, Cmd
<1>3. CASE SendAt(w, "cMeta", ClearMetadata, "cRelease")
  <2>1. row' = row /\ label' = NoLabel /\ ~Settled(w)
    BY <1>1, <1>3, SendApplied DEF Apply, ClearMetadata, Settled, TailPc, GonePc
  <2> QED
    BY <2>1, ClearedLabel, TakesDown
<1>4. CASE SendAt(w, "cRelease", Release, "cCheck") \/ SendAt(w, "release", Release, "check")
  <2>1. row' = NoRow /\ (~Settled(w) \/ Cleaning(w))
    BY <1>1, <1>4, SendApplied DEF Apply, Release, Settled, Cleaning, TailPc, GonePc
  <2>2. Shown' = Status!Nothing
    BY <2>1, ShownNothing DEF NoRow, ShowsFinal, ShowsWorking
  <2> QED
    BY <2>1, <2>2, TakesDown
<1>5. CASE SendAt(w, "tReport", Agent(w, "working"), "tMeta")
  <2>1. /\ pc[w] = "tReport" /\ row.state = "none"
        /\ row' = [state |-> "working", by |-> w]
    BY <1>1, <1>5, SendApplied DEF Apply, Agent, RowSeen
  <2>2. Shown = Status!Nothing /\ Shown' = Status!Working(w)
    BY <2>1, ShownNothing, ShownWorking DEF ShowsFinal, ShowsWorking
  <2>3. Typed = w /\ Typed > 0
    BY <1>2, <2>1 DEF Settled, TailPc, GonePc
  <2> QED
    BY <2>2, <2>3 DEF Status!Next, Status!ShowWorking
<1>6. CASE SendAt(w, "tMeta", Metadata(w, "working", FALSE), "loop")
  <2>1. row = [state |-> "working", by |-> w] /\ row' = row
    BY <1>1, <1>6, SendApplied DEF Apply, Metadata, RowSeen
  <2> QED
    BY <2>1, ShownWorking
<1>7. CASE \/ SendAt(w, "sIdle", Agent(w, "idle"), "sMeta")
           \/ SendAt(w, "fIdle", Agent(w, "idle"), "fMeta")
  <2>1. Showing(w, "working") /\ Showing(w, "idle")'
    BY <1>1, <1>7, SendApplied DEF Apply, Agent, RowSeen, Showing
  <2>2. Shown = Status!Working(w)
    BY <2>1, ShownWorking DEF Showing
  <2> QED
    BY <2>1, <2>2, ShownEnding
<1>8. ASSUME NEW ttl, NEW s \in BOOLEAN, (~ttl) = s, pc[w] \in {"sMeta", "fMeta"},
             row' = row, label' = [text |-> outcome[w], by |-> w, ttl |-> ttl]
      PROVE  [Status!Next]_<<Typed, status, Shown>>
  <2>1. Showing(w, "idle") /\ outcome[w] \in Outcome
    BY <1>1, <1>8 DEF RowSeen, TypeOK
  <2>2. Shown = Status!Working(w)
    BY <2>1, ShownEnding
  <2>3. Shown' = Status!Final(w, outcome[w], s)
    <3>1. (ShowsFinal /\ ~ShowsWorking)'
      BY <1>8, <2>1 DEF ShowsFinal, ShowsWorking, LabelOfRow, Showing, Outcome
    <3>2. row'.by = w /\ label'.text = outcome[w] /\ label'.ttl = ttl
      BY <1>8, <2>1 DEF Showing
    <3>3. Shown' = Status!Final(row'.by, label'.text, ~label'.ttl)
      BY <3>1, ShownByGuard
    <3>4. (~label'.ttl) = s
      BY <1>8, <3>2, Zenon
    <3> QED
      BY <3>2, <3>3, <3>4, Zenon
  <2>4. Typed = w /\ Typed > 0
    BY <1>2, <1>8 DEF Settled, TailPc, GonePc
  <2>5. /\ status[w] # "none" /\ Status!Honest(outcome[w], w)
        /\ outcome[w] \in Status!Ending \cup {"unknown"}
    BY <1>1, <1>8, <2>1 DEF TruthInv, FinishPc, Status!Honest, Status!Ending, Outcome
  <2> QED
    BY <1>8, <2>2, <2>3, <2>4, <2>5 DEF Status!Next, Status!ShowFinal
<1>9. CASE SendAt(w, "sMeta", Metadata(w, outcome[w], FALSE), "exited")
  <2>1. /\ pc[w] = "sMeta" /\ row' = row
        /\ label' = [text |-> outcome[w], by |-> w, ttl |-> FALSE]
    BY <1>1, <1>9, SendApplied DEF Apply, Metadata
  <2> QED
    BY <1>8, <2>1
<1>10. CASE SendAt(w, "fMeta", Metadata(w, outcome[w], TRUE), "linger")
  <2>1. /\ pc[w] = "fMeta" /\ row' = row
        /\ label' = [text |-> outcome[w], by |-> w, ttl |-> TRUE]
    BY <1>1, <1>10, SendApplied DEF Apply, Metadata
  <2> QED
    BY <1>8, <2>1
<1> QED
  BY <1>3, <1>4, <1>5, <1>6, <1>7, <1>9, <1>10

(* So does every other step.                                               *)
LEMMA StepStatus ==
  ASSUME EndedInv, RowInv, io = 0, io' = 0, paneOpen, "paneCloses" \notin Faults,
         [Next]_vars
  PROVE  [Status!Next]_<<Typed, status, Shown>>
<1>1. TypeOK /\ ShellInv /\ FreshInv /\ HookInv /\ cur \in 0..N /\ 0 \notin Cmd
  BY ConstantsAssumption DEF EndedInv, IInv, TypeOK, Cmd
<1>2. cur # 0 => cur \in Cmd
  BY <1>1, ConstantsAssumption DEF Cmd
<1>3. CASE UNCHANGED <<Typed, status, row, label>>
  BY <1>3, ShownSame
<1>4. ASSUME NEW w \in Cmd, WatcherStep(w) \/ Crash(w)
      PROVE  [Status!Next]_<<Typed, status, Shown>>
  <2>1. Moves(w)
    BY <1>4, WatcherMoves DEF EndedInv
  <2>2. UNCHANGED <<Typed, status>>
    <3>1. cur' = cur /\ status' = status /\ (cur # 0 => (pc'[cur] = "none" <=> pc[cur] = "none"))
      BY <1>1, <1>2, <2>1 DEF Moves, shellVars, TypeOK
    <3> QED
      BY <3>1 DEF Typed
  <2>3. CASE \/ Boot(w) \/ Tick(w) \/ Finish(w) \/ ShellGone(w) \/ Unpark(w) \/ Crash(w)
             \/ LingerDone(w) \/ LingerSuperseded(w)
    BY <1>3, <2>2, <2>3
    DEF Boot, Tick, Finish, ShellGone, Unpark, Crash, LingerDone, LingerSuperseded, OnlyPc,
        paneVars
  <2>4. CASE \/ ClearRead(w) \/ ClearDrop(w) \/ OpenMarker(w) \/ WriteMarker(w)
             \/ RemoveCheck(w, "cCheck", "cUnlink", Dispatch(prog[w]))
             \/ RemoveUnlink(w, "cUnlink", Dispatch(prog[w]))
             \/ RemoveCheck(w, "check", "unlink", "exited")
             \/ RemoveUnlink(w, "unlink", "exited")
    BY <1>3, <2>2, <2>4
    DEF ClearRead, ClearDrop, OpenMarker, WriteMarker, RemoveCheck, RemoveUnlink, OnlyFiles,
        paneVars
  <2> QED
    BY <1>4, <2>2, <2>3, <2>4, SendStatus DEF WatcherStep, Clear, Report, Conclude
<1>5. CASE PreexecStart
  <2>1. /\ cur' = cur + 1 /\ cur' \in Cmd /\ UNCHANGED <<status, row, label>>
        /\ Signal(pid, "TERM") /\ shell = "prompt"
    BY <1>1, <1>5, ConstantsAssumption DEF PreexecStart, TypeOK, Cmd, paneVars
  <2>2. pc'[cur'] = "none"
    <3>1. pc[cur'] = "none"
      BY <1>1, <2>1 DEF FreshInv
    <3> QED
      BY <1>1, <2>1, <3>1, SignalHeard
  <2>3. cur # 0 => pc[cur] # "none"
    BY <1>2, <2>1 DEF EndedInv, SettledInv
  <2>4. Typed' = Typed
    BY <1>1, <2>1, <2>2, <2>3 DEF Typed
  <2> QED
    BY <1>3, <2>1, <2>4
<1>6. CASE PreexecSpawn
  <2>1. /\ cur \in Cmd /\ pc[cur] = "none" /\ pc'[cur] = "boot" /\ cur' = cur
        /\ UNCHANGED <<status, row, label>>
    BY <1>1, <1>6 DEF PreexecSpawn, ShellInv, FreshInv, TypeOK, paneVars
  <2>2. Typed < N /\ Typed' = Typed + 1
    BY <1>1, <2>1, ConstantsAssumption DEF Typed, Cmd
  <2> QED
    BY <2>1, <2>2, ShownSame DEF Status!Next, Status!Type
<1>7. CASE CommandEnds
  <2>1. /\ cur \in Cmd /\ status[cur] = "none" /\ pc[cur] # "none"
        /\ UNCHANGED <<cur, pc, row, label>>
        /\ \E s \in {"ok", "fail", "signal"} : status' = [status EXCEPT ![cur] = s]
    BY <1>1, <1>7 DEF CommandEnds, HookInv, ShellInv, paneVars, watchVars
  <2>2. Typed = cur /\ Typed' = Typed /\ Typed > 0
    BY <1>1, <2>1, ConstantsAssumption DEF Typed, Cmd
  <2> QED
    BY <2>1, <2>2, ShownSame DEF Status!Next, Status!End, Status!Ending
<1>8. CASE PrecmdTruncate \/ PrecmdWrite \/ UNCHANGED vars
  BY <1>3, <1>8
  DEF PrecmdTruncate, PrecmdWrite, Typed, vars, shellVars, paneVars, watchVars
<1>9. CASE PrecmdSignal \/ ShellDies
  <2>1. /\ UNCHANGED <<cur, status, row, label>>
        /\ Signal(pid, "USR1") \/ Signal(pid, "TERM") \/ pc' = pc
    BY <1>9 DEF PrecmdSignal, ShellDies, paneVars
  <2>2. cur # 0 => (pc'[cur] = "none" <=> pc[cur] = "none")
    BY <1>1, <1>2, <2>1, SignalHeard
  <2>3. Typed' = Typed
    BY <2>1, <2>2 DEF Typed
  <2> QED
    BY <1>3, <2>1, <2>3
<1>10. CASE Expire
  <2>1. /\ UNCHANGED <<cur, pc, status, row>> /\ label.ttl /\ label' = NoLabel
    BY <1>10 DEF Expire, shellVars, watchVars
  <2>2. UNCHANGED <<Typed, status>>
    BY <2>1 DEF Typed
  <2>3. CASE Shown' = Shown
    BY <2>2, <2>3
  <2>4. CASE Shown # Status!Nothing /\ Shown' = Status!Nothing
    <3>1. ~Shown.sticky
      <4>1. ShowsFinal /\ ~ShowsWorking => ~Shown.sticky
        <5>1. ShowsFinal /\ ~ShowsWorking => Shown.sticky = ~label.ttl
          BY ShownByGuard DEF Status!Final
        <5> QED
          BY <2>1, <5>1, Zenon
      <4>2. ShowsWorking /\ ~ShowsFinal => Shown.sticky = FALSE
        BY ShownByGuard DEF Status!Working
      <4>3. ~(ShowsFinal /\ ShowsWorking)
        BY DEF ShowsFinal, ShowsWorking, Outcome
      <4> QED
        BY <2>4, <4>1, <4>2, <4>3, ShownNothing
    <3> QED
      BY <2>2, <2>4, <3>1 DEF Status!Next, Status!TakeDown
  <2> QED
    BY <2>1, <2>3, <2>4, ClearedLabel
<1>11. CASE ApplyLate \/ PaneCloses
  BY <1>11 DEF ApplyLate, PaneCloses, RowInv
<1> QED
  BY <1>4, <1>5, <1>6, <1>7, <1>8, <1>9, <1>10, <1>11 DEF Next, HookStep

(* The pane stays open when nobody closes it.                              *)
LEMMA PaneStaysOpen ==
  ASSUME "paneCloses" \notin Faults
  PROVE  /\ Init => paneOpen
         /\ IInv /\ paneOpen /\ [Next]_vars => paneOpen'
<1>1. Init => paneOpen
  BY DEF Init
<1>2. ASSUME IInv, paneOpen, NEW w \in Cmd, WatcherStep(w) \/ Crash(w)
      PROVE  paneOpen'
  BY <1>2, WatcherMoves DEF Moves
<1>3. IInv /\ paneOpen /\ [Next]_vars => paneOpen'
  BY <1>2
  DEF Next, PreexecStart, CommandEnds, HookStep, PreexecSpawn, PrecmdTruncate, PrecmdWrite,
      PrecmdSignal, ShellDies, Expire, ApplyLate, PaneCloses, vars, paneVars
<1> QED
  BY <1>1, <1>3

(* The row goes only through the states of CommandStatus: one command at a *)
(* time, working before its end, the end told truthfully, nothing put up   *)
(* over what is still there, and a sticky failure taken down by the next   *)
(* command alone (module comment of state.rs).                             *)
THEOREM PaneImplementsStatus ==
  ASSUME {"settle", "gap"} \subseteq Timing, MaxIo = 0, "paneCloses" \notin Faults
  PROVE  Spec => ImplementsStatus
<1>1. TimedInv /\ TimedInv' /\ paneOpen /\ [Next]_vars =>
        [Status!Next]_<<Typed, status, Shown>>
  <2> SUFFICES ASSUME TimedInv, TimedInv', paneOpen, [Next]_vars
               PROVE  [Status!Next]_<<Typed, status, Shown>>
    OBVIOUS
  <2>1. io = 0 /\ io' = 0
    BY NoFailures DEF TimedInv, EndedInv, IInv, TypeOK
  <2> QED
    BY <2>1, StepStatus DEF TimedInv
<1>2. Init => TimedInv /\ paneOpen
  BY InitTimed, PaneStaysOpen
<1>3. TimedInv /\ paneOpen /\ [Next]_vars => TimedInv' /\ paneOpen'
  BY NextTimed, PaneStaysOpen DEF TimedInv, EndedInv
<1> QED
  BY <1>1, <1>2, <1>3, InitStatus, PTL DEF Spec, ImplementsStatus, Status!Spec, Status!statusVars
=============================================================================
