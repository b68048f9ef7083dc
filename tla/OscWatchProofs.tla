--------------------------- MODULE OscWatchProofs ---------------------------
(***************************************************************************)
(* The invariants of OscWatch, for any number of commands, any ignore list *)
(* and any settings, with watchers that may be killed, a shell that may    *)
(* die, pre-prompt hooks that may be skipped and files that may fail.  The *)
(* invariant comes in layers; each names the assumptions it needs.         *)
(***************************************************************************)
EXTENDS OscStatus, TLAPS

(* The command whose watcher may be at work, and the places in a watcher   *)
(* and in `finish` where the lock is held.                                 *)
Active == IF shell = "clear" THEN cur - 1 ELSE cur
LockedPc == {"open", "write", "look", "giveBack", "show", "tty"}
Finishing == FinishState \ {"fLock"}
Over == {"park"} \cup GonePc

(* What the hooks know at each point of their work.                        *)
HookInv ==
    /\ shell \notin {"prompt", "dead"} => cur \in Cmd
    /\ shell \in {"running", "ended", "signal"} => pid = cur
    /\ shell \in PreexecState \cup {"look", "dead"} \cup FinishState => pid = 0
    /\ shell = "prompt" => pid \in {0, cur}
    /\ shell \in {"ended", "signal", "look"} \cup FinishState => status[cur] # "none"
    /\ shell = "running" => status[cur] = "none"
    /\ shell \in {"fShow", "fReport"} =>
          /\ final # "clear"
          /\ TextOf[final] \in {"unknown", status[cur]}

(* A command that has not been started has no watcher and no status.       *)
FreshInv ==
    \A w \in Cmd :
        w > cur \/ (w = cur /\ shell \in PreexecState) =>
            pc[w] = "none" /\ status[w] = "none"

BaseInv == TypeOK /\ HookInv /\ FreshInv

(* Only the last command's watcher is at work: what `settle` means between *)
(* one pre-command hook and the next.                                      *)
SettledInv == \A w \in Cmd : w # Active => Settled(w)

(* Whoever is in report_working or in `finish` past its first step has the *)
(* lock, and nobody else has it.                                           *)
LockInv ==
    /\ \A w \in Cmd : lock = w <=> pc[w] \in LockedPc
    /\ lock = Finisher <=> shell \in Finishing

(* osc-start is written before it is relied on, holds the last command's   *)
(* start or nothing, and is there only for a watcher that reported.        *)
StartInv ==
    /\ \A w \in Cmd : pc[w] = "write" => w \in opened
    /\ \A w \in Cmd : pc[w] \in {"look", "giveBack", "show", "tty"} => startFile = w
    /\ startFile # 0 =>
          /\ pc[startFile] \in {"look", "giveBack", "show", "tty"} \cup Over
          /\ startFile \in reported
          /\ shell \notin {"unshow", "exit", "start"} => startFile = Active

(* A final record is about a watcher that has done its part.               *)
FinalInv ==
    /\ term.state \in Final /\ term.by # 0 => pc[term.by] \in Over /\ term.by \in reported
    /\ shell \in {"fShow", "fReport", "fClear", "fUnshow"} =>
          pc[cur] \in Over /\ cur \in reported

LockedInv == SettledInv /\ LockInv /\ StartInv /\ FinalInv

(* osc-shown is written before a record and removed after it.  From the    *)
(* pre-command hook's clear to the final report there is nothing but the   *)
(* working record of the command, nor is there while its watcher has not   *)
(* done its part.                                                          *)
OwnRecord(w) == term \in {NoRecord, [state |-> "working", by |-> w]}
ShownInv ==
    /\ term # NoRecord => shown
    /\ \A w \in Cmd : pc[w] = "tty" => shown
    /\ shell = "fReport" => shown
    /\ shell \in {"unshow", "exit", "start", "spawn", "fUnshow"} => term = NoRecord
    /\ shell \in {"running", "ended", "signal", "look"} \cup FinishState => OwnRecord(cur)
    /\ \A w \in Cmd : pc[w] \in {"boot", "wait", "lock"} \cup LockedPc => OwnRecord(w)

(* The pre-prompt hook is done with the last command.                      *)
Done == shell = "prompt" /\ pid = 0 /\ cur # 0

(* A working record has its osc-start until `finish` takes both, and once  *)
(* `exit` is written no watcher goes past the look at it.                  *)
WorkingInv ==
    /\ shell \in {"signal", "look"} \cup FinishState => exitFile # "none"
    /\ Done => exitFile # "none" /\ (pc[cur] \notin {"show", "tty"}) /\ term.state # "working"
    /\ term.state = "working" =>
          /\ term.by # 0 /\ pc[term.by] \in Over
          /\ shell \notin {"fShow", "fReport", "fClear"} => startFile = term.by

IInv == BaseInv /\ LockedInv /\ ShownInv /\ WorkingInv
-----------------------------------------------------------------------------
(* Steps of a watcher and of the shell.                                    *)

(* After a step of report_working comes another, or the end of it.         *)
LEMMA AfterHolds ==
  \A p \in {"lock", "open", "write", "look", "show", "tty"} :
      /\ After(p) \in {"open", "write", "look", "show", "tty", "park"}
      /\ After(p) = "park" <=> p = "tty"
      /\ After(p) = "tty" <=> p = "show"
      /\ After(p) = "show" <=> p = "look"
      /\ After(p) = "look" <=> p = "write"
      /\ After(p) = "write" <=> p = "open"
BY DEF After

(* A step of a watcher moves that watcher alone, and forwards; what the    *)
(* hooks know stays as it is.                                              *)
Moves(w) ==
    /\ UNCHANGED <<hookVars, final>>
    /\ pc[w] \notin {"none"} \cup GonePc
    /\ pc' = [pc EXCEPT ![w] = pc'[w]]
    /\ pc'[w] \in Pc \ {"none", "boot"}
    /\ pc[w] \in Over => pc'[w] \in Over
    /\ sig' \in [Cmd -> {"none", "USR1", "TERM"}]

LEMMA WatcherMoves ==
  ASSUME TypeOK, NEW w \in Cmd, WatcherStep(w) \/ Crash(w)
  PROVE  Moves(w)
<1> USE DEF TypeOK, Moves, Passes, Goto, Exits, Over, GonePc, Pc, ReportPc
<1>1. CASE Boot(w) \/ Threshold(w) \/ Early(w) \/ Unpark(w)
  BY <1>1 DEF Boot, Threshold, Early, Unpark, hookVars
<1>2. CASE ReportWorking(w)
  BY <1>2, AfterHolds
  DEF ReportWorking, Lock, OpenStart, WriteStart, WriteStartFails, LookAtExit, GiveBack,
      Show, Tell, hookVars
<1>3. CASE Crash(w)
  BY <1>3 DEF Crash, hookVars
<1> QED
  BY <1>1, <1>2, <1>3 DEF WatcherStep

(* The signal kills a watcher that is starting up and waits in the channel *)
(* of any other.                                                           *)
LEMMA SignalEffect ==
  ASSUME TypeOK, NEW s \in {"USR1", "TERM"}, Signal(pid, s)
  PROVE  /\ pc' \in [Cmd -> Pc] /\ sig' \in [Cmd -> {"none", "USR1", "TERM"}]
         /\ \A w \in Cmd : pc'[w] = pc[w] \/ (w = pid /\ pc[w] = "boot" /\ pc'[w] = "killed")
<1>1. pid \in Cmd \/ pid = 0
  BY ConstantsAssumption DEF TypeOK, Cmd
<1>2. "killed" \in Pc
  BY DEF Pc, GonePc
<1>3. CASE pid = 0
  BY <1>3 DEF Signal, TypeOK
<1>4. CASE pid \in Cmd
  <2>1. pid # 0
    BY <1>4, ConstantsAssumption DEF Cmd
  <2> QED
    BY <1>2, <1>4, <2>1 DEF Signal, TypeOK
<1> QED
  BY <1>1, <1>3, <1>4

(* The steps of the hooks and the shell that leave the watchers alone, and *)
(* those that signal one.                                                  *)
QuietStep ==
    \/ CommandEnds \/ PreexecClear \/ PreexecUnshow \/ PreexecExit \/ PreexecStartFile
    \/ PrecmdWrite \/ PrecmdLook \/ FinishLock \/ FinishRead \/ FinishShow
    \/ FinishReport \/ FinishClear \/ FinishUnshow
SignalStep == PreexecStart \/ PrecmdSignal \/ ShellDies

LEMMA NextCases ==
  ASSUME [Next]_vars
  PROVE  \/ \E w \in Cmd : WatcherStep(w) \/ Crash(w)
         \/ QuietStep \/ SignalStep \/ PreexecSpawn \/ UNCHANGED vars
BY DEF Next, HookStep, QuietStep, SignalStep

-----------------------------------------------------------------------------
(* Types, and what the hooks know: no assumption is needed.                *)

LEMMA InitBase == Init => BaseInv
<1> SUFFICES ASSUME Init PROVE BaseInv
  OBVIOUS
<1>1. 0 \in 0..N /\ 0 \in 0..Finisher
  BY ConstantsAssumption DEF Finisher
<1>2. term \in Record
  BY <1>1 DEF Init, Record, NoRecord, Final
<1>3. TypeOK
  BY <1>1, <1>2 DEF Init, TypeOK, ShellState, Pc
<1>4. HookInv /\ FreshInv
  BY DEF Init, HookInv, FreshInv, PreexecState, FinishState
<1> QED
  BY <1>3, <1>4 DEF BaseInv

LEMMA MovesBase ==
  ASSUME BaseInv, NEW w \in Cmd, WatcherStep(w) \/ Crash(w)
  PROVE  BaseInv'
<1>1. TypeOK /\ HookInv /\ FreshInv
  BY DEF BaseInv
<1>2. Moves(w)
  BY <1>1, WatcherMoves
<1>3. /\ UNCHANGED <<shell, cur, pid, status, exitFile, final>>
      /\ pc' \in [Cmd -> Pc] /\ sig' \in [Cmd -> {"none", "USR1", "TERM"}]
      /\ pc[w] # "none"
      /\ \A v \in Cmd \ {w} : pc'[v] = pc[v]
  BY <1>1, <1>2 DEF Moves, TypeOK, hookVars
<1>4. w \in 0..N /\ w \in 0..Finisher /\ 0 \in 0..N /\ 0 \in 0..Finisher
  BY ConstantsAssumption DEF Cmd, Finisher
<1>5. /\ startFile' \in 0..N /\ opened' \subseteq Cmd /\ shown' \in BOOLEAN
      /\ lock' \in 0..Finisher /\ reported' \subseteq Cmd /\ term' \in Record
  <2> USE <1>1, <1>4 DEF TypeOK, Leave
  <2>1. CASE Boot(w) \/ Threshold(w) \/ Early(w) \/ Unpark(w)
    BY <2>1 DEF Boot, Threshold, Early, Unpark, Passes, Exits, fileVars
  <2>2. CASE Lock(w) \/ OpenStart(w) \/ WriteStart(w) \/ WriteStartFails(w) \/ GiveBack(w)
    BY <2>2
    DEF Lock, Enter, OpenStart, WriteStart, WriteStartFails, GiveBack, Passes
  <2>3. CASE LookAtExit(w) \/ Show(w)
    BY <2>3 DEF LookAtExit, Show, Passes, fileVars
  <2>4. CASE Tell(w)
    <3>1. [state |-> "working", by |-> w] \in Record
      BY DEF Record
    <3> QED
      BY <2>4, <3>1 DEF Tell, Write
  <2>5. CASE Crash(w)
    BY <2>5 DEF Crash
  <2> QED
    BY <2>1, <2>2, <2>3, <2>4, <2>5 DEF WatcherStep, ReportWorking
<1>6. TypeOK'
  BY <1>1, <1>3, <1>5 DEF TypeOK
<1>7. HookInv' /\ FreshInv'
  BY <1>1, <1>3 DEF HookInv, FreshInv
<1> QED
  BY <1>6, <1>7 DEF BaseInv

(* What `finish` reports is a state of the protocol or the clear, and says *)
(* of the command how it ended or leaves that open.                        *)
LEMMA FinishAsHolds ==
  \A o \in Outcome, c \in Configs :
      /\ FinishAs(o, c) \in Final \cup {"clear"}
      /\ FinishAs(o, c) # "clear" => TextOf[FinishAs(o, c)] \in {"unknown", o}
<1> SUFFICES ASSUME NEW o \in Outcome, NEW c \in Configs
             PROVE  FinishAs(o, c) \in {"clear", "idle"}
                      \/ (o = "ok" /\ FinishAs(o, c) = "done")
                      \/ (o = "fail" /\ FinishAs(o, c) = "error")
  BY DEF Final, TextOf
<1>1. CASE o = "fail" /\ c.failureSticky
  BY <1>1 DEF FinishAs
<1>2. CASE o = "fail" /\ ~c.failureSticky
  BY <1>2 DEF FinishAs, AutoClearing
<1>3. CASE o = "ok"
  BY <1>3 DEF FinishAs, AutoClearing
<1>4. CASE o = "signal"
  BY <1>4 DEF FinishAs, AutoClearing
<1> QED
  BY <1>1, <1>2, <1>3, <1>4 DEF Outcome

LEMMA QuietBase ==
  ASSUME BaseInv, QuietStep
  PROVE  BaseInv'
<1>1. TypeOK /\ HookInv /\ FreshInv
  BY DEF BaseInv
<1>2. UNCHANGED <<cur, pid, reported, pc, sig>>
  BY DEF QuietStep, CommandEnds, PreexecClear, PreexecUnshow, PreexecExit, PreexecStartFile,
     PrecmdWrite, PrecmdLook, FinishLock, FinishRead, FinishShow, FinishReport, FinishClear,
     FinishUnshow, fileVars
<1>3. 0 \in 0..N /\ 0 \in 0..Finisher /\ Finisher \in 0..Finisher /\ NoRecord \in Record
  BY ConstantsAssumption DEF Finisher, NoRecord, Record
<1>4. shell' \in ShellState
  BY <1>1
  DEF QuietStep, CommandEnds, PreexecClear, PreexecUnshow, PreexecExit, PreexecStartFile,
      PrecmdWrite, PrecmdLook, FinishLock, FinishRead, FinishShow, FinishReport, FinishClear,
      FinishUnshow, ShellState, PreexecState, FinishState
<1>5. /\ status' \in [Cmd -> {"none"} \cup Outcome]
      /\ exitFile' \in {"none"} \cup Outcome /\ startFile' \in 0..N /\ opened' \subseteq Cmd
      /\ shown' \in BOOLEAN /\ lock' \in 0..Finisher
  <2>1. CASE CommandEnds
    BY <1>1, <2>1 DEF CommandEnds, TypeOK, HookInv, fileVars
  <2>2. CASE PrecmdWrite
    BY <1>1, <2>2 DEF PrecmdWrite, TypeOK, HookInv, fileVars
  <2>3. CASE QuietStep /\ ~CommandEnds /\ ~PrecmdWrite
    BY <1>1, <1>3, <2>3
    DEF QuietStep, PreexecClear, PreexecUnshow, PreexecExit, PreexecStartFile,
        PrecmdLook, FinishLock, FinishRead, FinishShow, FinishReport, FinishClear,
        FinishUnshow, fileVars, TypeOK, Enter, Leave
  <2> QED
    BY <2>1, <2>2, <2>3
<1>6. final' \in Final \cup {"clear"} /\ term' \in Record
  <2>1. CASE FinishRead
    <3>1. status[cur] \in Outcome
      BY <1>1, <2>1 DEF FinishRead, HookInv, TypeOK, FinishState
    <3> QED
      BY <1>1, <2>1, <3>1, FinishAsHolds DEF FinishRead, TypeOK
  <2>2. CASE FinishReport
    <3>1. final \in Final
      BY <1>1, <2>2 DEF FinishReport, TypeOK, HookInv
    <3>2. [state |-> final, by |-> cur] \in Record
      BY <1>1, <3>1 DEF Record, TypeOK
    <3> QED
      BY <1>1, <2>2, <3>2 DEF FinishReport, Write, TypeOK
  <2>3. CASE QuietStep /\ ~FinishRead /\ ~FinishReport
    BY <1>1, <1>3, <2>3
    DEF QuietStep, CommandEnds, PreexecClear, PreexecUnshow, PreexecExit, PreexecStartFile,
        PrecmdWrite, PrecmdLook, FinishLock, FinishShow, FinishClear,
        FinishUnshow, TypeOK, Write
  <2> QED
    BY <2>1, <2>2, <2>3
<1>7. TypeOK'
  BY <1>1, <1>2, <1>4, <1>5, <1>6 DEF TypeOK
<1>8. HookInv'
  <2>1. CASE CommandEnds
    <3>1. cur \in Cmd /\ pid = cur /\ status' = [status EXCEPT ![cur] = status'[cur]]
             /\ status'[cur] \in Outcome /\ shell' \in {"ended", "prompt"}
      BY <1>1, <2>1 DEF CommandEnds, HookInv, TypeOK
    <3> QED
      BY <1>1, <1>2, <3>1 DEF HookInv, TypeOK, Outcome, PreexecState, FinishState
  <2>2. CASE FinishRead
    <3>1. /\ UNCHANGED status /\ status[cur] \in Outcome
          /\ shell = "fRead" /\ shell' \in {"prompt", "fShow", "fClear"}
          /\ shell' = "fShow" =>
                 /\ final' # "clear"
                 /\ TextOf[final'] \in {"unknown", status[cur]}
      BY <1>1, <2>2, FinishAsHolds DEF FinishRead, HookInv, TypeOK, FinishState
    <3> QED
      BY <1>1, <1>2, <3>1 DEF HookInv, FinishState, PreexecState
  <2>3. CASE QuietStep /\ ~CommandEnds /\ ~FinishRead
    <3>1. /\ UNCHANGED status
          /\ shell' \in {"fShow", "fReport"} =>
                 shell \in {"fShow", "fReport"} /\ final' = final
      BY <2>3
      DEF QuietStep, PreexecClear, PreexecUnshow, PreexecExit, PreexecStartFile,
          PrecmdWrite, PrecmdLook, FinishLock, FinishShow, FinishReport,
          FinishClear, FinishUnshow
    <3> QED
      BY <1>1, <1>2, <2>3, <3>1
      DEF QuietStep, PreexecClear, PreexecUnshow, PreexecExit, PreexecStartFile,
          PrecmdWrite, PrecmdLook, FinishLock, FinishShow, FinishReport,
          FinishClear, FinishUnshow, HookInv, PreexecState, FinishState
  <2> QED
    BY <2>1, <2>2, <2>3
<1>9. FreshInv'
  <2>1. shell \notin PreexecState => shell' \notin PreexecState
    BY DEF QuietStep, CommandEnds, PreexecClear, PreexecUnshow, PreexecExit,
       PreexecStartFile, PrecmdWrite, PrecmdLook, FinishLock, FinishRead, FinishShow,
       FinishReport, FinishClear, FinishUnshow, PreexecState, FinishState
  <2>2. \A w \in Cmd : status'[w] = status[w] \/ (w = cur /\ shell = "running")
    BY <1>1
    DEF QuietStep, CommandEnds, PreexecClear, PreexecUnshow, PreexecExit,
        PreexecStartFile, PrecmdWrite, PrecmdLook, FinishLock, FinishRead, FinishShow,
        FinishReport, FinishClear, FinishUnshow, TypeOK
  <2> QED
    BY <1>1, <1>2, <2>1, <2>2 DEF FreshInv, TypeOK, PreexecState
<1> QED
  BY <1>7, <1>8, <1>9 DEF BaseInv

LEMMA SignalBase ==
  ASSUME BaseInv, SignalStep
  PROVE  BaseInv'
<1>1. TypeOK /\ HookInv /\ FreshInv
  BY DEF BaseInv
<1>2. /\ pc' \in [Cmd -> Pc] /\ sig' \in [Cmd -> {"none", "USR1", "TERM"}]
      /\ \A w \in Cmd : pc[w] = "none" => pc'[w] = "none"
  BY <1>1, SignalEffect DEF SignalStep, PreexecStart, PrecmdSignal, ShellDies, TypeOK
<1>3. /\ pid' = 0 /\ UNCHANGED <<status, exitFile, fileVars, final, term, reported>>
      /\ \/ shell = "prompt" /\ cur < N /\ cur' = cur + 1 /\ shell' = "clear"
         \/ shell = "signal" /\ cur' = cur /\ shell' = "look"
         \/ cur' = cur /\ shell' = "dead"
  BY DEF SignalStep, PreexecStart, PrecmdSignal, ShellDies
<1>4. cur' \in 0..N /\ pid' \in 0..N
  BY <1>1, <1>3, ConstantsAssumption DEF TypeOK
<1>5. TypeOK'
  BY <1>1, <1>2, <1>3, <1>4 DEF TypeOK, ShellState, PreexecState, fileVars
<1>6. HookInv'
  BY <1>1, <1>3, ConstantsAssumption
  DEF HookInv, PreexecState, FinishState, TypeOK, Cmd
<1>7. FreshInv'
  BY <1>1, <1>2, <1>3, ConstantsAssumption DEF FreshInv, PreexecState, TypeOK, Cmd
<1> QED
  BY <1>5, <1>6, <1>7 DEF BaseInv

LEMMA SpawnBase ==
  ASSUME BaseInv, PreexecSpawn
  PROVE  BaseInv'
<1>1. TypeOK /\ HookInv /\ FreshInv
  BY DEF BaseInv
<1>2. cur \in Cmd /\ "boot" \in Pc
  BY <1>1 DEF PreexecSpawn, HookInv, Pc
<1>3. TypeOK'
  BY <1>1, <1>2 DEF PreexecSpawn, TypeOK, ShellState, fileVars
<1>4. HookInv' /\ FreshInv'
  BY <1>1, <1>2, ConstantsAssumption
  DEF PreexecSpawn, HookInv, FreshInv, TypeOK, PreexecState, FinishState, Cmd
<1> QED
  BY <1>3, <1>4 DEF BaseInv

LEMMA NextBase == BaseInv /\ [Next]_vars => BaseInv'
<1> SUFFICES ASSUME BaseInv, [Next]_vars PROVE BaseInv'
  OBVIOUS
<1>1. CASE UNCHANGED vars
  BY <1>1 DEF BaseInv, TypeOK, HookInv, FreshInv, vars, hookVars, fileVars
<1> QED
  BY <1>1, NextCases, MovesBase, QuietBase, SignalBase, SpawnBase

(* Every variable keeps to its type, whatever the timing and the faults:   *)
(* the lock, the terminal and the files hold only what the watchers and    *)
(* the hooks write (osc_watch.rs).                                         *)
THEOREM TypeCorrect == Spec => []TypeOK
<1>1. BaseInv => TypeOK
  BY DEF BaseInv
<1> QED
  BY <1>1, InitBase, NextBase, PTL DEF Spec

LEMMA BaseHolds == Spec => []BaseInv
BY InitBase, NextBase, PTL DEF Spec

-----------------------------------------------------------------------------
(* Who is at work, who has the lock and what osc-start says: when earlier  *)
(* watchers have settled and nobody goes ahead without the lock.           *)

LEMMA InitLocked == Init => LockedInv
<1> SUFFICES ASSUME Init PROVE LockedInv
  OBVIOUS
<1>1. SettledInv /\ StartInv /\ FinalInv
  BY DEF Init, SettledInv, Settled, StartInv, FinalInv, NoRecord
<1>2. LockInv
  BY ConstantsAssumption
  DEF Init, LockInv, LockedPc, Finishing, FinishState, Finisher, Cmd
<1> QED
  BY <1>1, <1>2 DEF LockedInv

LEMMA MovesLocked ==
  ASSUME "lockTimeout" \notin Faults,
         BaseInv, LockedInv, NEW w \in Cmd, WatcherStep(w) \/ Crash(w)
  PROVE  LockedInv'
<1>1. TypeOK /\ SettledInv /\ LockInv /\ StartInv /\ FinalInv
  BY DEF BaseInv, LockedInv
<1>2. Moves(w)
  BY <1>1, WatcherMoves
<1>3. /\ UNCHANGED <<shell, cur, pid, status, exitFile, final>>
      /\ Active' = Active
      /\ pc' \in [Cmd -> Pc] /\ pc[w] \notin {"none", "exited", "killed"}
      /\ pc'[w] \notin {"none", "boot"}
      /\ pc[w] \in Over => pc'[w] \in Over
      /\ \A v \in Cmd \ {w} : pc'[v] = pc[v]
  BY <1>1, <1>2 DEF Moves, TypeOK, hookVars, Active, GonePc
<1>4. w # 0 /\ w # Finisher /\ 0 # Finisher
  BY ConstantsAssumption DEF Cmd, Finisher
<1>5. SettledInv'
  BY <1>1, <1>3 DEF SettledInv, Settled, Over, GonePc
<1>6. w = Active
        \/ (pc[w] = "park" /\ pc'[w] \in GonePc
              /\ UNCHANGED <<startFile, opened, shown, lock, term, reported>>)
  <2>1. CASE w # Active
    <3>1. pc[w] = "park"
      BY <1>1, <1>3, <2>1 DEF SettledInv, Settled, GonePc
    <3>2. lock # w
      BY <1>1, <3>1 DEF LockInv, LockedPc
    <3> QED
      BY <1>1, <3>1, <3>2
      DEF WatcherStep, Crash, Boot, Threshold, Early, Unpark, ReportWorking, Lock,
          OpenStart, WriteStart, WriteStartFails, LookAtExit, GiveBack, Show, Tell, Passes,
          Exits, Goto, Leave, fileVars, TypeOK, GonePc
  <2> QED
    BY <2>1
<1>7. LockInv'
  <2>1. \/ lock' = lock /\ (pc[w] \in LockedPc <=> pc'[w] \in LockedPc)
        \/ lock = 0 /\ lock' = w /\ pc'[w] \in LockedPc
        \/ lock = w /\ lock' = 0 /\ pc'[w] \notin LockedPc
    <3> USE <1>1, AfterHolds DEF TypeOK, LockedPc, LockInv, Passes, Goto, Leave, GonePc
    <3>1. CASE Boot(w) \/ Threshold(w) \/ Early(w) \/ Unpark(w)
      BY <3>1 DEF Boot, Threshold, Early, Unpark, Exits, fileVars
    <3>2. CASE Lock(w)
      BY <3>2 DEF Lock, Enter, MayEnter
    <3>3. CASE OpenStart(w) \/ WriteStart(w) \/ LookAtExit(w) \/ Show(w)
      BY <3>3 DEF OpenStart, WriteStart, LookAtExit, Show, fileVars
    <3>4. CASE WriteStartFails(w) \/ GiveBack(w) \/ Tell(w)
      BY <3>4 DEF WriteStartFails, GiveBack, Tell
    <3>5. CASE Crash(w)
      BY <3>5 DEF Crash
    <3> QED
      BY <3>1, <3>2, <3>3, <3>4, <3>5 DEF WatcherStep, ReportWorking
  <2>2. lock' = Finisher <=> shell' \in Finishing'
    BY <1>1, <1>3, <1>4, <2>1 DEF LockInv, Finishing
  <2>3. ASSUME NEW v \in Cmd PROVE lock' = v <=> pc'[v] \in LockedPc
    <3>1. v # 0 /\ v # Finisher
      BY ConstantsAssumption DEF Cmd, Finisher
    <3>2. CASE v = w
      BY <1>1, <1>4, <2>1, <3>1, <3>2 DEF LockInv
    <3>3. CASE v # w
      BY <1>1, <1>3, <2>1, <3>1, <3>3 DEF LockInv
    <3> QED
      BY <3>2, <3>3
  <2> QED
    BY <2>2, <2>3 DEF LockInv
<1>8. StartInv'
  <2>1. CASE UNCHANGED <<startFile, opened, reported>> /\ pc'[w] \in Over
    BY <1>1, <1>3, <2>1, ConstantsAssumption
    DEF StartInv, Over, GonePc, TypeOK, Cmd
  <2>2. CASE w = Active /\ UNCHANGED fileVars /\ UNCHANGED reported
               /\ pc[w] \in {"boot", "wait"} /\ pc'[w] \in {"wait", "park", "lock", "exited"}
    BY <1>1, <1>3, <2>2, ConstantsAssumption
    DEF StartInv, Over, GonePc, TypeOK, Cmd, fileVars
  <2>3. CASE w = Active /\ ReportWorking(w)
    <3> USE <1>1, <1>3, <2>3, AfterHolds, ConstantsAssumption
        DEF StartInv, Over, GonePc, Passes, Goto, TypeOK, Cmd
    <3>a. \A v \in Cmd \ {w} : pc[v] \in {"none"} \cup Over
      BY DEF SettledInv, Settled
    <3>1. CASE Lock(w)
      BY <3>1 DEF Lock
    <3>2. CASE OpenStart(w)
      BY <3>a, <3>2 DEF OpenStart
    <3>3. CASE WriteStart(w)
      BY <3>a, <3>3 DEF WriteStart
    <3>4. CASE WriteStartFails(w)
      BY <3>4 DEF WriteStartFails
    <3>5. CASE LookAtExit(w)
      BY <3>5 DEF LookAtExit, fileVars
    <3>6. CASE GiveBack(w)
      BY <3>a, <3>6 DEF GiveBack
    <3>7. CASE Show(w)
      BY <3>7 DEF Show
    <3>8. CASE Tell(w)
      BY <3>8 DEF Tell
    <3> QED
      BY <3>1, <3>2, <3>3, <3>4, <3>5, <3>6, <3>7, <3>8 DEF ReportWorking
  <2>4. CASE Boot(w) \/ Threshold(w) \/ Early(w) \/ Unpark(w) \/ Crash(w)
    BY <1>1, <1>6, <2>1, <2>2, <2>4
    DEF Boot, Threshold, Early, Unpark, Crash, Exits, Passes, Goto, TypeOK, fileVars, Over,
        GonePc
  <2> QED
    BY <1>3, <1>6, <2>1, <2>3, <2>4 DEF WatcherStep, Over
<1>9. FinalInv'
  <2>1. /\ term' = term \/ term'.state = "working"
        /\ pc[w] \in Over => UNCHANGED <<term, reported>>
        /\ reported \ {w} \subseteq reported'
    BY <1>1
    DEF WatcherStep, ReportWorking, Crash, Boot, Threshold, Early, Unpark, Lock, OpenStart,
        WriteStart, WriteStartFails, LookAtExit, GiveBack, Show, Tell, Write, Passes, Exits,
        Over, GonePc
  <2>2. "working" \notin Final
    BY DEF Final
  <2> QED
    BY <1>1, <1>3, <2>1, <2>2 DEF FinalInv, TypeOK, Record, BaseInv, HookInv
<1> QED
  BY <1>5, <1>7, <1>8, <1>9 DEF LockedInv

LEMMA QuietLocked ==
  ASSUME "lockTimeout" \notin Faults, "settle" \in Timing,
         BaseInv, LockedInv, QuietStep
  PROVE  LockedInv'
<1>1. TypeOK /\ HookInv /\ FreshInv /\ SettledInv /\ LockInv /\ StartInv /\ FinalInv
  BY DEF BaseInv, LockedInv
<1>2. UNCHANGED <<cur, pid, reported, pc, sig>>
  BY DEF QuietStep, CommandEnds, PreexecClear, PreexecUnshow, PreexecExit, PreexecStartFile,
     PrecmdWrite, PrecmdLook, FinishLock, FinishRead, FinishShow, FinishReport, FinishClear,
     FinishUnshow, fileVars
<1>3. /\ ~PreexecClear => Active' = Active
      /\ PreexecClear => \A w \in Cmd : Settled(w)
  BY <1>2
  DEF QuietStep, CommandEnds, PreexecClear, PreexecUnshow, PreexecExit, PreexecStartFile,
      PrecmdWrite, PrecmdLook, FinishLock, FinishRead, FinishShow, FinishReport, FinishClear,
      FinishUnshow, Active
<1>4. SettledInv'
  BY <1>1, <1>2, <1>3 DEF SettledInv, Settled
<1>5. 0 # Finisher /\ \A w \in Cmd : w # 0 /\ w # Finisher
  BY ConstantsAssumption DEF Finisher, Cmd
<1>6. LockInv'
  <2>1. \/ lock' = lock /\ (shell \in Finishing <=> shell' \in Finishing')
        \/ lock = 0 /\ lock' = Finisher /\ shell' \in Finishing'
        \/ lock = Finisher /\ lock' = 0 /\ shell' \notin Finishing'
    BY <1>1
    DEF QuietStep, CommandEnds, PreexecClear, PreexecUnshow, PreexecExit, PreexecStartFile,
        PrecmdWrite, PrecmdLook, FinishLock, FinishRead, FinishShow, FinishReport,
        FinishClear, FinishUnshow, Finishing, FinishState, fileVars, LockInv, Enter,
        MayEnter, Leave
  <2> QED
    BY <1>1, <1>2, <1>5, <2>1 DEF LockInv
<1>7. StartInv'
  <2>1. CASE PreexecStartFile
    <3>1. \A w \in Cmd : pc[w] \in {"none"} \cup Over
      BY <1>1, <2>1
      DEF SettledInv, Settled, FreshInv, Active, PreexecStartFile, PreexecState, Over
    <3> QED
      BY <1>2, <2>1, <3>1 DEF PreexecStartFile, StartInv, Over, GonePc
  <2>2. CASE FinishRead
    <3>1. \A w \in Cmd : pc[w] \notin LockedPc
      BY <1>1, <1>5, <2>2 DEF LockInv, FinishRead, Finishing, FinishState
    <3> QED
      BY <1>2, <2>2, <3>1 DEF FinishRead, StartInv, LockedPc
  <2>3. CASE QuietStep /\ ~PreexecStartFile /\ ~FinishRead
    <3>1. /\ UNCHANGED <<startFile, opened>>
          /\ shell' \in {"unshow", "exit", "start"}
               \/ (shell \notin {"unshow", "exit", "start"} /\ ~PreexecClear)
      BY <2>3
      DEF QuietStep, CommandEnds, PreexecClear, PreexecUnshow, PreexecExit, PrecmdWrite,
          PrecmdLook, FinishLock, FinishShow, FinishReport, FinishClear, FinishUnshow,
          fileVars
    <3> QED
      BY <1>1, <1>2, <1>3, <3>1 DEF StartInv
  <2> QED
    BY <2>1, <2>2, <2>3
<1>8. FinalInv'
  <2>1. CASE FinishRead
    <3>1. pc[cur] \notin LockedPc /\ cur \in Cmd
      BY <1>1, <1>5, <2>1 DEF LockInv, FinishRead, Finishing, FinishState, HookInv
    <3>2. startFile # 0 => pc[cur] \in Over /\ cur \in reported
      BY <1>1, <2>1, <3>1 DEF StartInv, FinishRead, Active, LockedPc
    <3> QED
      BY <1>1, <1>2, <2>1, <3>2 DEF FinishRead, FinalInv
  <2>2. CASE FinishReport
    BY <1>1, <1>2, <2>2 DEF FinishReport, Write, FinalInv
  <2>3. CASE QuietStep /\ ~FinishRead /\ ~FinishReport
    <3>1. /\ term' = term \/ term' = NoRecord
          /\ shell' \in {"fShow", "fReport", "fClear", "fUnshow"} =>
               shell \in {"fShow", "fReport", "fClear", "fUnshow"}
      BY <2>3
      DEF QuietStep, CommandEnds, PreexecClear, PreexecUnshow, PreexecExit,
          PreexecStartFile, PrecmdWrite, PrecmdLook, FinishLock, FinishShow,
          FinishClear, FinishUnshow, Write
    <3> QED
      BY <1>1, <1>2, <3>1 DEF FinalInv, NoRecord
  <2> QED
    BY <2>1, <2>2, <2>3
<1> QED
  BY <1>4, <1>6, <1>7, <1>8 DEF LockedInv

LEMMA SignalLocked ==
  ASSUME BaseInv, LockedInv, SignalStep
  PROVE  LockedInv'
<1>1. TypeOK /\ HookInv /\ FreshInv /\ SettledInv /\ LockInv /\ StartInv /\ FinalInv
  BY DEF BaseInv, LockedInv
<1>2. pc' \in [Cmd -> Pc]
      /\ \A w \in Cmd : pc'[w] = pc[w] \/ (pc[w] = "boot" /\ pc'[w] = "killed")
  BY <1>1, SignalEffect DEF SignalStep, PreexecStart, PrecmdSignal, ShellDies, TypeOK
<1>3. /\ UNCHANGED <<fileVars, term, reported>>
      /\ shell \notin PreexecState \cup FinishState
      /\ shell' \in {"clear", "look", "dead"}
      /\ \/ cur' = cur /\ shell' # "clear"
         \/ cur' = cur + 1 /\ shell' = "clear"
  BY DEF SignalStep, PreexecStart, PrecmdSignal, ShellDies, PreexecState, FinishState
<1>4. Active' = Active
  BY <1>1, <1>3 DEF Active, TypeOK, PreexecState
<1>5. SettledInv'
  BY <1>1, <1>2, <1>4 DEF SettledInv, Settled, GonePc
<1>6. LockInv'
  BY <1>1, <1>2, <1>3 DEF LockInv, LockedPc, Finishing, FinishState, fileVars
<1>7. StartInv'
  <2>1. startFile = 0 \/ startFile \in Cmd
    BY <1>1, ConstantsAssumption DEF TypeOK, Cmd
  <2> QED
    BY <1>1, <1>2, <1>3, <1>4, <2>1
    DEF StartInv, fileVars, Over, GonePc, PreexecState
<1>8. FinalInv'
  <2>1. term.by = 0 \/ term.by \in Cmd
    BY <1>1, ConstantsAssumption DEF TypeOK, Cmd, Record
  <2> QED
    BY <1>1, <1>2, <1>3, <2>1 DEF FinalInv, Over, GonePc
<1> QED
  BY <1>5, <1>6, <1>7, <1>8 DEF LockedInv

LEMMA SpawnLocked ==
  ASSUME BaseInv, LockedInv, PreexecSpawn
  PROVE  LockedInv'
<1>1. TypeOK /\ HookInv /\ FreshInv /\ SettledInv /\ LockInv /\ StartInv /\ FinalInv
  BY DEF BaseInv, LockedInv
<1>2. /\ UNCHANGED <<cur, fileVars, term, reported>>
      /\ shell = "spawn" /\ shell' = "running"
      /\ cur \in Cmd /\ pc[cur] = "none" /\ pc'[cur] = "boot"
      /\ \A w \in Cmd \ {cur} : pc'[w] = pc[w]
      /\ Active' = Active /\ Active = cur
  BY <1>1 DEF PreexecSpawn, HookInv, FreshInv, PreexecState, TypeOK, Active
<1>3. SettledInv'
  BY <1>1, <1>2 DEF SettledInv, Settled
<1>4. LockInv'
  BY <1>1, <1>2 DEF LockInv, LockedPc, Finishing, FinishState, fileVars
<1>5. StartInv'
  <2>1. startFile = 0 \/ startFile \in Cmd
    BY <1>1, ConstantsAssumption DEF TypeOK, Cmd
  <2> QED
    BY <1>1, <1>2, <2>1 DEF StartInv, fileVars, Over, GonePc
<1>6. FinalInv'
  <2>1. term.by = 0 \/ term.by \in Cmd
    BY <1>1, ConstantsAssumption DEF TypeOK, Cmd, Record
  <2> QED
    BY <1>1, <1>2, <2>1 DEF FinalInv, Over, GonePc
<1> QED
  BY <1>3, <1>4, <1>5, <1>6 DEF LockedInv

LEMMA NextLocked ==
  ASSUME "lockTimeout" \notin Faults, "settle" \in Timing
  PROVE  BaseInv /\ LockedInv /\ [Next]_vars => LockedInv'
<1> SUFFICES ASSUME BaseInv, LockedInv, [Next]_vars PROVE LockedInv'
  OBVIOUS
<1>1. CASE UNCHANGED vars
  BY <1>1
  DEF LockedInv, SettledInv, Settled, Active, LockInv, Finishing, StartInv, FinalInv, vars,
      hookVars, fileVars
<1> QED
  BY <1>1, NextCases, MovesLocked, QuietLocked, SignalLocked, SpawnLocked

LEMMA LockedHolds ==
  ASSUME "lockTimeout" \notin Faults, "settle" \in Timing
  PROVE  Spec => [](BaseInv /\ LockedInv)
<1>1. Init => BaseInv /\ LockedInv
  BY InitBase, InitLocked
<1>2. BaseInv /\ LockedInv /\ [Next]_vars => (BaseInv /\ LockedInv)'
  BY NextBase, NextLocked
<1> QED
  BY <1>1, <1>2, PTL DEF Spec

(* `finish` is silent unless the watcher reported this very command: a     *)
(* final record is of a command whose watcher wrote osc-start and kept it  *)
(* (osc_watch.rs, finish).  Watchers may be killed at any step, `exit` may *)
(* be lost, and the terminal may swallow reports.                          *)
THEOREM OnlyReportedHolds ==
  ASSUME "lockTimeout" \notin Faults, "settle" \in Timing
  PROVE  Spec => []OnlyReported
<1>1. BaseInv /\ LockedInv => OnlyReported
  BY DEF LockedInv, FinalInv, OnlyReported
<1> QED
  BY <1>1, LockedHolds, PTL

(* What the lock is for: once a command's final record is on the terminal  *)
(* its watcher does not put `working` back.                                *)
THEOREM DoneAfterWorkingHolds ==
  ASSUME "lockTimeout" \notin Faults, "settle" \in Timing
  PROVE  Spec => DoneAfterWorking
<1>1. ASSUME BaseInv, LockedInv, [Next]_vars, term.state \in Final,
             term' = [state |-> "working", by |-> term.by]
      PROVE  FALSE
  <2>1. term.state # "working" /\ term'.state = "working" /\ term'.by = term.by
    BY <1>1 DEF Final
  <2>2. \E w \in Cmd : Tell(w)
    <3>1. CASE UNCHANGED term
      BY <2>1, <3>1
    <3>2. CASE \E w \in Cmd : WatcherStep(w) \/ Crash(w)
      BY <2>1, <3>2
      DEF WatcherStep, Crash, Boot, Threshold, Early, Unpark, ReportWorking, Lock,
          OpenStart, WriteStart, WriteStartFails, LookAtExit, GiveBack, Show, Passes, Exits
    <3>3. CASE QuietStep
      <4>1. term' = NoRecord \/ (shell = "fReport" /\ term'.state = final) \/ term' = term
        BY <3>3
        DEF QuietStep, CommandEnds, PreexecClear, PreexecUnshow, PreexecExit,
            PreexecStartFile, PrecmdWrite, PrecmdLook, FinishLock, FinishRead, FinishShow,
            FinishReport, FinishClear, FinishUnshow, Write
      <4> QED
        BY <1>1, <2>1, <4>1 DEF NoRecord, BaseInv, TypeOK, Final
    <3>4. CASE SignalStep \/ PreexecSpawn \/ UNCHANGED vars
      BY <3>1, <3>4
      DEF SignalStep, PreexecStart, PrecmdSignal, ShellDies, PreexecSpawn, vars
    <3> QED
      BY <1>1, <3>2, <3>3, <3>4, NextCases
  <2>3. PICK w \in Cmd : Tell(w)
    BY <2>2
  <2>4. w = term.by
    BY <1>1, <2>1, <2>3 DEF Tell, Write
  <2>5. w # 0 /\ pc[w] = "tty"
    BY <2>3, ConstantsAssumption DEF Tell, Cmd
  <2> QED
    BY <1>1, <2>4, <2>5 DEF LockedInv, FinalInv, Over, GonePc
<1>2. BaseInv /\ LockedInv /\ [Next]_vars =>
        [term.state \in Final => term' # [state |-> "working", by |-> term.by]]_vars
  BY <1>1
<1> QED
  BY <1>2, LockedHolds, PTL DEF Spec, DoneAfterWorking

-----------------------------------------------------------------------------
(* What is on the terminal, when also no report is dropped.                *)

(* The watcher of the command being started is not at work yet, and during *)
(* `finish` no watcher has the lock.                                       *)
LEMMA NobodyReports ==
  ASSUME BaseInv, LockedInv,
         shell \in {"unshow", "exit", "start", "spawn"} \cup Finishing
  PROVE  \A w \in Cmd : pc[w] \notin LockedPc
<1>1. TypeOK /\ FreshInv /\ SettledInv /\ LockInv
  BY DEF BaseInv, LockedInv
<1>2. CASE shell \in {"unshow", "exit", "start", "spawn"}
  BY <1>1, <1>2
  DEF FreshInv, SettledInv, Settled, Active, PreexecState, LockedPc, GonePc
<1>3. CASE shell \in Finishing
  BY <1>1, <1>3, ConstantsAssumption DEF LockInv, Finisher, Cmd
<1> QED
  BY <1>2, <1>3

(* Only a watcher that has the lock writes `working`, and it is the last   *)
(* command's.                                                              *)
LEMMA MovesTerm ==
  ASSUME "ttyDrops" \notin Faults,
         BaseInv, LockedInv, NEW w \in Cmd, WatcherStep(w) \/ Crash(w)
  PROVE  \/ UNCHANGED term
         \/ /\ w = Active /\ Tell(w)
            /\ term' = [state |-> "working", by |-> w]
<1>1. TypeOK /\ SettledInv
  BY DEF BaseInv, LockedInv
<1>2. CASE Tell(w)
  BY <1>1, <1>2 DEF Tell, Write, SettledInv, Settled, GonePc
<1> QED
  BY <1>2
  DEF WatcherStep, Crash, Boot, Threshold, Early, Unpark, ReportWorking, Lock, OpenStart,
      WriteStart, WriteStartFails, LookAtExit, GiveBack, Show, Passes, Exits

LEMMA InitShown == Init => ShownInv
BY DEF Init, ShownInv, NoRecord, FinishState, LockedPc

LEMMA MovesShown ==
  ASSUME "ttyDrops" \notin Faults,
         BaseInv, LockedInv, ShownInv, NEW w \in Cmd, WatcherStep(w) \/ Crash(w)
  PROVE  ShownInv'
<1>1. TypeOK
  BY DEF BaseInv
<1>2. Moves(w)
  BY <1>1, WatcherMoves
<1>3. /\ UNCHANGED <<shell, cur>>
      /\ \A v \in Cmd \ {w} : pc'[v] = pc[v]
  BY <1>1, <1>2 DEF Moves, TypeOK, hookVars
<1>a. /\ pc[w] \notin {"boot", "wait", "lock"} \cup LockedPc =>
            pc'[w] \notin {"boot", "wait", "lock"} \cup LockedPc
      /\ NoRecord' = NoRecord
  BY <1>1, <1>2
  DEF Moves, TypeOK, Pc, ReportPc, Over, GonePc, LockedPc, NoRecord
<1>4. shown' = shown \/ (Show(w) /\ shown' = TRUE)
  BY DEF WatcherStep, Crash, Boot, Threshold, Early, Unpark, ReportWorking, Lock, OpenStart,
         WriteStart, WriteStartFails, LookAtExit, GiveBack, Show, Tell, Passes, Exits,
         fileVars
<1>5. pc'[w] = "tty" => shown'
  BY <1>1, AfterHolds
  DEF WatcherStep, Crash, Boot, Threshold, Early, Unpark, ReportWorking, Lock, OpenStart,
      WriteStart, WriteStartFails, LookAtExit, GiveBack, Show, Tell, Passes, Exits,
      Goto, TypeOK
<1>6. CASE UNCHANGED term
  BY <1>3, <1>a, <1>4, <1>5, <1>6 DEF ShownInv, OwnRecord
<1>7. CASE w = Active /\ Tell(w) /\ term' = [state |-> "working", by |-> w]
  <2>1. shell \notin {"unshow", "exit", "start", "spawn", "fUnshow"}
    BY <1>7, NobodyReports DEF Tell, LockedPc, Finishing, FinishState
  <2>2. shell # "clear" => w = cur
    BY <1>7 DEF Active
  <2>3. shown
    BY <1>7 DEF Tell, ShownInv
  <2>4. \A v \in Cmd : pc'[v] \in {"boot", "wait", "lock"} \cup LockedPc => v = w
    BY <1>3, <1>7 DEF LockedInv, SettledInv, Settled, LockedPc, GonePc
  <2> QED
    BY <1>3, <1>4, <1>5, <1>7, <2>1, <2>2, <2>3, <2>4
    DEF ShownInv, OwnRecord, FinishState
<1> QED
  BY <1>6, <1>7, MovesTerm

LEMMA QuietShown ==
  ASSUME "ttyDrops" \notin Faults, BaseInv, LockedInv, ShownInv, QuietStep
  PROVE  ShownInv'
<1>1. UNCHANGED pc
  BY DEF QuietStep, CommandEnds, PreexecClear, PreexecUnshow, PreexecExit, PreexecStartFile,
     PrecmdWrite, PrecmdLook, FinishLock, FinishRead, FinishShow, FinishReport, FinishClear,
     FinishUnshow
<1>2. CASE PreexecUnshow \/ FinishUnshow
  <2>1. \A w \in Cmd : pc[w] # "tty"
    BY <1>2, NobodyReports
    DEF PreexecUnshow, FinishUnshow, LockedPc, Finishing, FinishState
  <2> QED
    BY <1>1, <1>2, <2>1
    DEF PreexecUnshow, FinishUnshow, ShownInv, OwnRecord, FinishState
<1>3. CASE PreexecClear \/ FinishClear
  BY <1>1, <1>3
  DEF PreexecClear, FinishClear, Write, ShownInv, OwnRecord, fileVars, FinishState
<1>4. CASE FinishReport
  <2>1. \A w \in Cmd : pc[w] \in {"none"} \cup Over
    BY <1>4
    DEF FinishReport, LockedInv, SettledInv, Settled, FinalInv, Active, Over
  <2> QED
    BY <1>1, <1>4, <2>1
    DEF FinishReport, ShownInv, OwnRecord, Over, GonePc, LockedPc, FinishState
<1>5. CASE QuietStep /\ UNCHANGED term /\ ~PreexecClear /\ ~PreexecUnshow /\ ~FinishUnshow
  <2>1. /\ shown' = shown \/ shown' = TRUE
        /\ UNCHANGED cur
        /\ shell' \in {"ended", "signal", "look"} \cup FinishState =>
              shell \in {"running", "ended", "signal", "look"} \cup FinishState
        /\ shell' # "running"
        /\ shell' = "fReport" => shown'
        /\ shell' \in {"unshow", "exit", "start", "spawn", "fUnshow"} =>
              shell \in {"unshow", "exit", "start", "spawn", "fUnshow"} \/ FinishClear
    BY <1>5
    DEF QuietStep, CommandEnds, PreexecExit, PreexecStartFile, PrecmdWrite, PrecmdLook,
        FinishLock, FinishRead, FinishShow, FinishReport, FinishClear, fileVars, FinishState
  <2> QED
    BY <1>1, <1>3, <1>5, <2>1 DEF ShownInv, OwnRecord
<1> QED
  BY <1>2, <1>3, <1>4, <1>5
  DEF QuietStep, CommandEnds, PreexecExit, PreexecStartFile, PrecmdWrite, PrecmdLook,
      FinishLock, FinishRead, FinishShow

LEMMA NextShown ==
  ASSUME "ttyDrops" \notin Faults
  PROVE  BaseInv /\ LockedInv /\ ShownInv /\ [Next]_vars => ShownInv'
<1> SUFFICES ASSUME BaseInv, LockedInv, ShownInv, [Next]_vars PROVE ShownInv'
  OBVIOUS
<1>1. CASE UNCHANGED vars
  BY <1>1 DEF ShownInv, OwnRecord, vars, hookVars, fileVars
<1>2. CASE SignalStep
  <2>1. /\ UNCHANGED <<shown, term>> /\ shell' \in {"clear", "look", "dead"}
        /\ shell' = "look" => shell = "signal" /\ UNCHANGED cur
        /\ \A w \in Cmd : pc'[w] = pc[w] \/ pc'[w] = "killed"
    BY <1>2, SignalEffect
    DEF SignalStep, PreexecStart, PrecmdSignal, ShellDies, fileVars, BaseInv
  <2> QED
    BY <2>1 DEF ShownInv, OwnRecord, LockedPc, FinishState
<1>3. CASE PreexecSpawn
  <2>1. /\ UNCHANGED <<shown, term, cur>> /\ shell = "spawn" /\ shell' = "running"
        /\ \A w \in Cmd : pc'[w] = pc[w] \/ pc'[w] = "boot"
    BY <1>3 DEF PreexecSpawn, fileVars, BaseInv, TypeOK
  <2> QED
    BY <2>1 DEF ShownInv, OwnRecord, FinishState
<1> QED
  BY <1>1, <1>2, <1>3, NextCases, MovesShown, QuietShown

LEMMA ShownHolds ==
  ASSUME "lockTimeout" \notin Faults, "ttyDrops" \notin Faults, "settle" \in Timing
  PROVE  Spec => [](BaseInv /\ LockedInv /\ ShownInv)
<1>1. Init => BaseInv /\ LockedInv /\ ShownInv
  BY InitBase, InitLocked, InitShown
<1>2. BaseInv /\ LockedInv /\ ShownInv /\ [Next]_vars => (BaseInv /\ LockedInv /\ ShownInv)'
  BY NextBase, NextLocked, NextShown
<1> QED
  BY <1>1, <1>2, PTL DEF Spec

(* Whatever is on the terminal, the next pre-command hook will clear it:   *)
(* osc-shown is there, even if the watcher was killed between the two.     *)
THEOREM ShownCoversHolds ==
  ASSUME "lockTimeout" \notin Faults, "ttyDrops" \notin Faults, "settle" \in Timing
  PROVE  Spec => []ShownCovers
<1>1. ShownInv => ShownCovers
  BY DEF ShownInv, ShownCovers
<1> QED
  BY <1>1, ShownHolds, PTL

(* While a command runs the terminal shows that command or nothing.        *)
THEOREM RunningRecordHolds ==
  ASSUME "lockTimeout" \notin Faults, "ttyDrops" \notin Faults, "settle" \in Timing
  PROVE  Spec => []RunningRecord
<1>1. ShownInv => RunningRecord
  BY DEF ShownInv, OwnRecord, RunningRecord
<1> QED
  BY <1>1, ShownHolds, PTL

-----------------------------------------------------------------------------
(* The working record goes away, when also `exit` is always written.       *)

LEMMA InitWorking == Init => WorkingInv
BY DEF Init, WorkingInv, Done, FinishState, NoRecord

LEMMA MovesWorking ==
  ASSUME "ttyDrops" \notin Faults,
         IInv, NEW w \in Cmd, WatcherStep(w) \/ Crash(w)
  PROVE  WorkingInv'
<1>1. TypeOK /\ HookInv /\ SettledInv /\ LockInv /\ StartInv /\ ShownInv /\ WorkingInv
  BY DEF IInv, BaseInv, LockedInv
<1>2. Moves(w)
  BY <1>1, WatcherMoves
<1>3. /\ UNCHANGED <<shell, cur, pid, exitFile>> /\ Done' = Done
      /\ pc[w] \in Over => pc'[w] \in Over
      /\ \A v \in Cmd \ {w} : pc'[v] = pc[v]
  BY <1>1, <1>2 DEF Moves, TypeOK, hookVars, Done
<1>4. term' = term \/ (w = Active /\ Tell(w) /\ term' = [state |-> "working", by |-> w])
  BY MovesTerm DEF IInv
<1>5. CASE Done
  <2>1. w = cur => pc[w] \notin {"show", "tty"} /\ pc'[w] \notin {"show", "tty"}
    BY <1>1, <1>5, AfterHolds
    DEF WorkingInv, Done, WatcherStep, Crash, Boot, Threshold, Early, Unpark,
        ReportWorking, Lock, OpenStart, WriteStart, WriteStartFails, LookAtExit,
        GiveBack, Show, Tell, Passes, Exits, Goto, TypeOK
  <2>2. pc'[cur] \notin {"show", "tty"}
    <3>1. cur \in Cmd
      BY <1>1, <1>5, ConstantsAssumption DEF Done, TypeOK, Cmd
    <3> QED
      BY <1>1, <1>3, <1>5, <2>1, <3>1 DEF WorkingInv
  <2>3. UNCHANGED term
    BY <1>4, <1>5, <2>1 DEF Done, Active, Tell
  <2> QED
    BY <1>1, <1>3, <1>5, <2>2, <2>3 DEF WorkingInv
<1>6. CASE ~Done /\ UNCHANGED term
  <2>1. CASE term.state = "working"
    <3>1. term.by \in Cmd /\ pc[term.by] \in Over
      BY <1>1, <2>1, ConstantsAssumption DEF WorkingInv, TypeOK, Record, Cmd
    <3>2. pc'[term.by] \in Over
      BY <1>3, <3>1
    <3>3. UNCHANGED startFile \/ (pc[w] \in LockedPc /\ startFile' \in {0, startFile, w})
      BY DEF WatcherStep, Crash, Boot, Threshold, Early, Unpark, ReportWorking, Lock,
             OpenStart, WriteStart, WriteStartFails, LookAtExit, GiveBack, Show, Tell,
             Passes, Exits, fileVars, LockedPc
    <3>4. CASE pc[w] \in LockedPc
      <4>1. w = Active /\ w # term.by
        BY <1>1, <3>1, <3>4 DEF SettledInv, Settled, Over, GonePc, LockedPc
      <4>2. shell \notin {"fShow", "fReport", "fClear"}
              /\ shell \notin {"unshow", "exit", "start"}
        BY <1>1, <3>4, NobodyReports DEF IInv, Finishing, FinishState
      <4> QED
        BY <1>1, <2>1, <3>1, <4>1, <4>2, ConstantsAssumption DEF WorkingInv, StartInv, Cmd
    <3> QED
      BY <1>1, <1>3, <1>6, <2>1, <3>1, <3>2, <3>3, <3>4 DEF WorkingInv
  <2> QED
    BY <1>1, <1>3, <1>6, <2>1 DEF WorkingInv
<1>7. CASE ~Done /\ Tell(w) /\ term' = [state |-> "working", by |-> w]
  <2>1. pc'[w] = "park" /\ UNCHANGED startFile /\ startFile = w /\ w # 0
    BY <1>1, <1>7, AfterHolds, ConstantsAssumption DEF Tell, Goto, TypeOK, StartInv, Cmd
  <2> QED
    BY <1>1, <1>3, <1>7, <2>1 DEF WorkingInv, Over
<1> QED
  BY <1>4, <1>5, <1>6, <1>7

LEMMA QuietWorking ==
  ASSUME "ttyDrops" \notin Faults, "exitLost" \notin Faults, IInv, QuietStep
  PROVE  WorkingInv'
<1>1. TypeOK /\ HookInv /\ LockInv /\ StartInv /\ FinalInv /\ ShownInv /\ WorkingInv
  BY DEF IInv, BaseInv, LockedInv
<1>2. UNCHANGED <<cur, pid, pc>>
  BY DEF QuietStep, CommandEnds, PreexecClear, PreexecUnshow, PreexecExit, PreexecStartFile,
     PrecmdWrite, PrecmdLook, FinishLock, FinishRead, FinishShow, FinishReport, FinishClear,
     FinishUnshow
<1>3. (shell' \in {"signal", "look"} \cup FinishState \/ Done') => exitFile' # "none"
  BY <1>1, <1>2
  DEF QuietStep, CommandEnds, PreexecClear, PreexecUnshow, PreexecExit, PreexecStartFile,
      PrecmdWrite, PrecmdLook, FinishLock, FinishRead, FinishShow, FinishReport, FinishClear,
      FinishUnshow, fileVars, FinishState, PreexecState, Done, WorkingInv, HookInv
<1>4. Done' => pc[cur] \notin {"show", "tty"} /\ term'.state # "working"
  <2> SUFFICES ASSUME Done' PROVE pc[cur] \notin {"show", "tty"} /\ term'.state # "working"
    OBVIOUS
  <2>1. PrecmdLook \/ FinishRead \/ FinishReport \/ FinishUnshow
    BY <1>1, <1>2
    DEF QuietStep, CommandEnds, PreexecClear, PreexecUnshow, PreexecExit, PreexecStartFile,
        PrecmdWrite, FinishLock, FinishShow, FinishClear, Done, HookInv
  <2>2. cur \in Cmd
    BY <1>1, <1>2, ConstantsAssumption DEF Done, TypeOK, Cmd
  <2>3. CASE PrecmdLook \/ FinishRead
    <3>1. startFile = 0 /\ UNCHANGED term /\ shell \in {"look", "fRead"}
      BY <2>3 DEF PrecmdLook, FinishRead, Done
    <3>2. pc[cur] \notin {"show", "tty"}
      BY <1>1, <2>2, <3>1, ConstantsAssumption DEF StartInv, Cmd
    <3> QED
      BY <1>1, <3>1, <3>2 DEF WorkingInv
  <2>4. CASE FinishReport
    BY <1>1, <2>4
    DEF FinishReport, Write, FinalInv, Over, GonePc, HookInv, TypeOK, Final
  <2>5. CASE FinishUnshow
    BY <1>1, <2>5
    DEF FinishUnshow, FinalInv, ShownInv, Over, GonePc, NoRecord
  <2> QED
    BY <2>1, <2>3, <2>4, <2>5
<1>5. term'.state = "working" =>
        /\ term' = term
        /\ shell' \notin {"fShow", "fReport", "fClear"} =>
              UNCHANGED startFile /\ shell \notin {"fShow", "fReport", "fClear"}
  BY <1>1
  DEF QuietStep, CommandEnds, PreexecClear, PreexecUnshow, PreexecExit, PreexecStartFile,
      PrecmdWrite, PrecmdLook, FinishLock, FinishRead, FinishShow, FinishReport, FinishClear,
      FinishUnshow, fileVars, Write, NoRecord, HookInv, TypeOK, Final, ShownInv
<1> QED
  BY <1>1, <1>2, <1>3, <1>4, <1>5 DEF WorkingInv

LEMMA NextWorking ==
  ASSUME "ttyDrops" \notin Faults, "exitLost" \notin Faults
  PROVE  IInv /\ [Next]_vars => WorkingInv'
<1> SUFFICES ASSUME IInv, [Next]_vars PROVE WorkingInv'
  OBVIOUS
<1>1. TypeOK /\ HookInv /\ WorkingInv
  BY DEF IInv, BaseInv
<1>2. CASE UNCHANGED vars
  BY <1>1, <1>2 DEF WorkingInv, Done, vars, hookVars, fileVars
<1>3. CASE SignalStep \/ PreexecSpawn
  <2>1. /\ UNCHANGED <<exitFile, term, startFile>>
        /\ shell' \in {"clear", "look", "dead", "running"}
        /\ shell' = "look" => shell = "signal"
        /\ shell \notin {"fShow", "fReport", "fClear"}
    BY <1>3
    DEF SignalStep, PreexecStart, PrecmdSignal, ShellDies, PreexecSpawn, fileVars
  <2>2. \A w \in Cmd : pc[w] \in Over => pc'[w] \in Over
    <3>1. CASE SignalStep
      BY <1>1, <3>1, SignalEffect
      DEF SignalStep, PreexecStart, PrecmdSignal, ShellDies, Over, GonePc
    <3>2. CASE PreexecSpawn
      BY <1>1, <3>2
      DEF IInv, BaseInv, FreshInv, HookInv, PreexecSpawn, PreexecState, TypeOK, Over, GonePc
    <3> QED
      BY <1>3, <3>1, <3>2
  <2>3. term.by # 0 => term.by \in Cmd
    BY <1>1, ConstantsAssumption DEF TypeOK, Record, Cmd
  <2> QED
    BY <1>1, <2>1, <2>2, <2>3 DEF WorkingInv, Done, FinishState
<1> QED
  BY <1>2, <1>3, NextCases, MovesWorking, QuietWorking

(* A prompt that the pre-prompt hook has seen to shows no `working`: the   *)
(* watcher writes osc-start before it looks at `exit`, the hook writes     *)
(* `exit` before it looks at osc-start, so one of them sees the other (the *)
(* module comment of osc_watch.rs).                                        *)
THEOREM WorkingEndsHolds ==
  ASSUME "lockTimeout" \notin Faults, "ttyDrops" \notin Faults,
         "exitLost" \notin Faults, "settle" \in Timing
  PROVE  Spec => []WorkingEnds
<1>1. Init => IInv
  BY InitBase, InitLocked, InitShown, InitWorking DEF IInv
<1>2. IInv /\ [Next]_vars => IInv'
  BY NextBase, NextLocked, NextShown, NextWorking DEF IInv
<1>3. IInv => WorkingEnds
  <2> SUFFICES ASSUME IInv, shell = "prompt", pid = 0, term.state = "working"
               PROVE  FALSE
    BY DEF WorkingEnds
  <2>1. cur = 0
    BY DEF IInv, WorkingInv, Done
  <2>2. term.by # 0 /\ startFile = term.by
    BY DEF IInv, WorkingInv
  <2> QED
    BY <2>1, <2>2 DEF IInv, LockedInv, StartInv, Active
<1> QED
  BY <1>1, <1>2, <1>3, PTL DEF Spec

-----------------------------------------------------------------------------
(* The refinement: every step is a step of CommandStatus or changes        *)
(* nothing that CommandStatus sees.                                        *)

(* What the records mean.                                                  *)
LEMMA ShownNothing == term = NoRecord => Shown = Nothing
BY DEF Shown, NoRecord

LEMMA ShownWorking ==
  ASSUME NEW w, term = [state |-> "working", by |-> w]
  PROVE  Shown = Status!Working(w)
BY DEF Shown, Nothing, Status!Working

LEMMA ShownFinal ==
  ASSUME NEW w, NEW s \in Final, term = [state |-> s, by |-> w]
  PROVE  Shown = Status!Final(w, TextOf[s], TRUE)
BY DEF Shown, Final, Status!Final

(* The same record means the same, and so it does after the step.          *)
LEMMA ShownStays == term' = term => Shown' = Shown
BY DEF Shown

LEMMA ShownNothingNext == term' = NoRecord => Shown' = Nothing
BY DEF Shown, NoRecord, Nothing

LEMMA ShownWorkingNext ==
  ASSUME NEW w, term' = [state |-> "working", by |-> w]
  PROVE  Shown' = Status!Working(w)
BY DEF Shown, Nothing, Status!Working

LEMMA ShownFinalNext ==
  ASSUME NEW w, NEW s \in Final, term' = [state |-> s, by |-> w]
  PROVE  Shown' = Status!Final(w, TextOf[s], TRUE)
BY DEF Shown, Final, Status!Final, TextOf

LEMMA InitStatus == Init => Status!Init
<1> SUFFICES ASSUME Init PROVE Status!Init
  OBVIOUS
<1>1. Typed = 0 /\ status = [w \in 1..N |-> "none"]
  BY DEF Init, Typed, Cmd
<1>2. Shown \in {Nothing, Status!Final(0, "fail", TRUE)}
  <2>1. CASE term = NoRecord
    BY <2>1, ShownNothing
  <2>2. CASE term = [state |-> "error", by |-> 0]
    BY <2>2, ShownFinal DEF Final, TextOf
  <2> QED
    BY <2>1, <2>2 DEF Init
<1> QED
  BY <1>1, <1>2 DEF Status!Init, Status!Nothing, Nothing

LEMMA StepStatus ==
  ASSUME "lockTimeout" \notin Faults, "ttyDrops" \notin Faults,
         BaseInv, LockedInv, ShownInv, [Next]_vars
  PROVE  [Status!Next]_<<Typed, status, Shown>>
<1>1. TypeOK /\ HookInv /\ FinalInv
  BY DEF BaseInv, LockedInv
<1>2. 0 \notin Cmd /\ cur \in 0..N
  BY <1>1, ConstantsAssumption DEF TypeOK, Cmd
<1>3. Nothing = Status!Nothing
  BY DEF Nothing, Status!Nothing
<1>4. CASE UNCHANGED <<Typed, status, term>>
  BY <1>4, ShownStays
<1>5. ASSUME NEW w \in Cmd, WatcherStep(w) \/ Crash(w)
      PROVE  [Status!Next]_<<Typed, status, Shown>>
  <2>1. Moves(w)
    BY <1>1, <1>5, WatcherMoves
  <2>2. UNCHANGED <<Typed, status>>
    BY <2>1 DEF Moves, hookVars, Typed
  <2>3. CASE w = Active /\ Tell(w) /\ term' = [state |-> "working", by |-> w]
    <3>1. Typed = w /\ Typed > 0
      BY <2>3, ConstantsAssumption DEF Active, Typed, Cmd
    <3>2. Shown' = Status!Working(w)
      BY <2>3, ShownWorkingNext
    <3>3. term = NoRecord \/ term = [state |-> "working", by |-> w]
      BY <2>3 DEF ShownInv, OwnRecord, Tell, LockedPc
    <3>4. CASE term = NoRecord
      BY <1>3, <2>2, <3>1, <3>2, <3>4, ShownNothing DEF Status!Next, Status!ShowWorking
    <3>5. CASE term = [state |-> "working", by |-> w]
      BY <2>2, <3>2, <3>5, ShownWorking
    <3> QED
      BY <3>3, <3>4, <3>5
  <2> QED
    BY <1>4, <1>5, <2>2, <2>3, MovesTerm
<1>6. CASE PreexecStart
  BY <1>1, <1>4, <1>6 DEF PreexecStart, Typed, TypeOK
<1>7. CASE PreexecClear
  <2>1. /\ Typed' = Typed + 1 /\ Typed < N /\ UNCHANGED status
        /\ term' = term \/ term' = NoRecord
    BY <1>1, <1>2, <1>7, ConstantsAssumption DEF PreexecClear, Typed, TypeOK
  <2> QED
    BY <1>3, <2>1, ShownStays, ShownNothingNext DEF Status!Next, Status!Type
<1>8. CASE CommandEnds
  <2>1. cur \in Cmd /\ Typed = cur /\ Typed' = cur /\ status[cur] = "none"
    BY <1>1, <1>8 DEF CommandEnds, HookInv, Typed
  <2>2. Typed > 0 /\ UNCHANGED Shown
    BY <1>2, <1>8, <2>1, ShownStays, ConstantsAssumption DEF CommandEnds, Cmd
  <2> QED
    BY <1>8, <2>1, <2>2 DEF CommandEnds, Outcome, Status!Next, Status!End, Status!Ending
<1>9. CASE FinishReport
  <2>1. /\ cur \in Cmd /\ Typed = cur /\ Typed' = cur /\ UNCHANGED status
        /\ status[cur] \in Outcome
        /\ final \in Final /\ TextOf[final] \in {"unknown", status[cur]}
        /\ term' = [state |-> final, by |-> cur]
    BY <1>1, <1>9 DEF FinishReport, HookInv, Typed, TypeOK, FinishState, Write
  <2>2. Shown' = Status!Final(cur, TextOf[final], TRUE)
    BY <2>1, ShownFinalNext
  <2>3. Shown \in {Status!Nothing, Status!Working(cur)}
    BY <1>3, <1>9, ShownNothing, ShownWorking
    DEF FinishReport, ShownInv, OwnRecord, FinishState
  <2>4. Typed > 0
    BY <2>1, ConstantsAssumption DEF Cmd
  <2>5. TextOf[final] \in Status!Ending \cup {"unknown"}
          /\ Status!Honest(TextOf[final], cur) /\ status[cur] # "none"
    BY <2>1 DEF Status!Ending, Status!Honest, Outcome
  <2> QED
    BY <2>1, <2>2, <2>3, <2>4, <2>5 DEF Status!Next, Status!ShowFinal
<1>10. CASE FinishClear
  <2>1. UNCHANGED <<Typed, status>> /\ Shown' = Nothing
    BY <1>10, ShownNothingNext DEF FinishClear, Typed, Write
  <2>2. Shown = Nothing \/ Shown = Status!Working(cur)
    BY <1>10, ShownNothing, ShownWorking
    DEF FinishClear, ShownInv, OwnRecord, FinishState
  <2> QED
    BY <1>3, <2>1, <2>2 DEF Status!Next, Status!TakeDown, Status!Working
<1>11. CASE QuietStep /\ ~PreexecClear /\ ~CommandEnds /\ ~FinishReport /\ ~FinishClear
  BY <1>4, <1>11
  DEF QuietStep, PreexecUnshow, PreexecExit, PreexecStartFile, PrecmdWrite, PrecmdLook,
      FinishLock, FinishRead, FinishShow, FinishUnshow, Typed
<1>12. CASE PrecmdSignal \/ ShellDies \/ PreexecSpawn \/ UNCHANGED vars
  BY <1>4, <1>12
  DEF PrecmdSignal, ShellDies, PreexecSpawn, Typed, vars, hookVars
<1> QED
  BY <1>5, <1>6, <1>7, <1>8, <1>9, <1>10, <1>11, <1>12, NextCases DEF SignalStep

(* The record on the terminal goes only through the states of              *)
(* CommandStatus: one command at a time, working before its end, the end   *)
(* told truthfully, and nothing put up over what is still there.           *)
THEOREM OscImplementsStatus ==
  ASSUME "lockTimeout" \notin Faults, "ttyDrops" \notin Faults, "settle" \in Timing
  PROVE  Spec => ImplementsStatus
<1>1. BaseInv /\ LockedInv /\ ShownInv /\ [Next]_vars =>
        [Status!Next]_<<Typed, status, Shown>>
  BY StepStatus
<1> QED
  BY <1>1, InitStatus, ShownHolds, PTL
  DEF Spec, ImplementsStatus, Status!Spec, Status!statusVars

=============================================================================
