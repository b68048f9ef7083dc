------------------------------ MODULE OscWatch ------------------------------
(***************************************************************************)
(* The desktop-app backend (src/osc_watch.rs with src/osc.rs, and the OSC  *)
(* branches of the shell hooks): the watcher writes one `working` record   *)
(* into the terminal, the pre-prompt hook runs `finish` to replace it, and *)
(* the next pre-command hook clears what is left.  Four files and a lock   *)
(* in the state directory keep the three apart.                            *)
(*                                                                         *)
(* Commands and their watchers are numbered as in PaneWatch; 0 stands for  *)
(* whatever ran before, and for an absent or empty `osc-start`.  Timing    *)
(* holds "settle" when the watchers of earlier commands have run to an end *)
(* before the next pre-command hook touches the shared files.              *)
(***************************************************************************)
EXTENDS Naturals, FiniteSets

CONSTANTS
    N,         \* number of command lines typed
    Ignored,   \* the commands on the ignore list
    Configs,   \* the [finish] settings `finish` may find
    Faults,    \* what may go wrong
    Timing     \* the timing assumptions made

Cmd == 1..N
Finisher == N + 1        \* `finish`, as a holder of the lock
Outcome == {"ok", "fail", "signal"}

ASSUME ConstantsAssumption ==
    /\ N \in Nat
    /\ Ignored \subseteq Cmd
    /\ Configs \subseteq [failureSticky : BOOLEAN, successSticky : BOOLEAN]
    /\ Configs # {}
    /\ Faults \subseteq {"crash", "exitLost", "skipPrecmd", "shellDies",
                         "lockTimeout", "ttyDrops", "startLost", "leftover"}
    /\ Timing \subseteq {"settle"}

VARIABLES
    shell,     \* what the shell, or the `finish` it waits for, is doing
    cur,       \* the last command line typed
    pid,       \* $_HSP_PID, or 0
    status,    \* how each command really ended
    exitFile,  \* the file `exit`; "none" when empty
    startFile, \* the file `osc-start`: whose start it holds, or 0
    opened,    \* watchers writing through a handle to the linked osc-start
    shown,     \* the file `osc-shown` is non-empty
    lock,      \* who holds osc-lock, or 0
    final,     \* what `finish` is about to report; "clear" outside it
    term,      \* the record on the terminal, and whose command it shows
    reported,  \* the commands whose watcher wrote osc-start and kept it
    pc,        \* where each watcher is
    sig        \* the signal waiting in each watcher's channel

hookVars == <<shell, cur, pid, status, exitFile>>
fileVars == <<startFile, opened, shown, lock>>
vars == <<hookVars, fileVars, final, term, reported, pc, sig>>

Final == {"done", "error", "idle"}
Record == [state : {"none", "working"} \cup Final, by : 0..N]
NoRecord == [state |-> "none", by |-> 0]
PreexecState == {"clear", "unshow", "exit", "start", "spawn"}
FinishState == {"fLock", "fRead", "fShow", "fReport", "fClear", "fUnshow"}
ShellState == {"prompt", "running", "ended", "signal", "look", "dead"}
                \cup PreexecState \cup FinishState
GonePc == {"exited", "killed"}
ReportPc == {"lock", "open", "write", "look", "giveBack", "show", "tty"}
Pc == {"none", "boot", "wait", "park"} \cup ReportPc \cup GonePc

TypeOK ==
    /\ shell \in ShellState /\ cur \in 0..N /\ pid \in 0..N
    /\ status \in [Cmd -> {"none"} \cup Outcome]
    /\ exitFile \in {"none"} \cup Outcome
    /\ startFile \in 0..N /\ opened \subseteq Cmd
    /\ shown \in BOOLEAN /\ lock \in 0..Finisher
    /\ final \in Final \cup {"clear"}
    /\ term \in Record /\ reported \subseteq Cmd
    /\ pc \in [Cmd -> Pc]
    /\ sig \in [Cmd -> {"none", "USR1", "TERM"}]

(* A fresh state directory and terminal, or a record an earlier shell left.*)
Init ==
    /\ shell = "prompt" /\ cur = 0 /\ pid = 0
    /\ status = [w \in Cmd |-> "none"]
    /\ exitFile = "none" /\ startFile = 0 /\ opened = {} /\ lock = 0
    /\ \/ shown = FALSE /\ term = NoRecord
       \/ /\ "leftover" \in Faults
          /\ shown = TRUE /\ term = [state |-> "error", by |-> 0]
    /\ final = "clear" /\ reported = {}
    /\ pc = [w \in Cmd |-> "none"]
    /\ sig = [w \in Cmd |-> "none"]

-----------------------------------------------------------------------------
(* The pre-command hook.                                                   *)

ShellAlive == shell # "dead"
Live(w) == pc[w] \notin {"none", "boot"} \cup GonePc

(* kill, as in PaneWatch.                                                  *)
Signal(w, s) ==
    /\ pc' = IF w # 0 /\ pc[w] = "boot" THEN [pc EXCEPT ![w] = "killed"] ELSE pc
    /\ sig' = IF w # 0 /\ Live(w) THEN [sig EXCEPT ![w] = s] ELSE sig

PreexecStart ==
    /\ shell = "prompt" /\ cur < N
    /\ Signal(pid, "TERM")
    /\ pid' = 0 /\ cur' = cur + 1 /\ shell' = "clear"
    /\ UNCHANGED <<status, exitFile, fileVars, final, term, reported>>

Settled(w) == pc[w] \in {"none", "park"} \cup GonePc

(* Mutated: osc-shown is emptied but nothing is printed.                   *)
PreexecClearSilently ==
    /\ shell = "clear"
    /\ "settle" \in Timing => \A w \in Cmd : Settled(w)
    /\ shell' = IF shown THEN "unshow" ELSE "exit"
    /\ UNCHANGED <<cur, pid, status, exitFile, fileVars, final, term, reported, pc, sig>>

(* [[ -s osc-shown ]]: print the clear ...                                 *)
PreexecClear ==
    /\ shell = "clear"
    /\ "settle" \in Timing => \A w \in Cmd : Settled(w)
    /\ IF shown THEN shell' = "unshow" /\ term' = NoRecord
                ELSE shell' = "exit" /\ UNCHANGED term
    /\ UNCHANGED <<cur, pid, status, exitFile, fileVars, final, reported, pc, sig>>

(* ... and truncate the file; then truncate `exit` and `osc-start`.        *)
PreexecUnshow ==
    /\ shell = "unshow"
    /\ shown' = FALSE /\ shell' = "exit"
    /\ UNCHANGED <<cur, pid, status, exitFile, startFile, opened, lock,
                   final, term, reported, pc, sig>>
PreexecExit ==
    /\ shell = "exit"
    /\ exitFile' = "none" /\ shell' = "start"
    /\ UNCHANGED <<cur, pid, status, fileVars, final, term, reported, pc, sig>>

(* Mutated: an earlier command's osc-start is left in place.               *)
PreexecStartKept ==
    /\ shell = "start"
    /\ shell' = "spawn"
    /\ UNCHANGED <<cur, pid, status, exitFile, fileVars, final, term, reported, pc, sig>>

PreexecStartFile ==
    /\ shell = "start"
    /\ startFile' = 0 /\ shell' = "spawn"
    /\ UNCHANGED <<cur, pid, status, exitFile, opened, shown, lock,
                   final, term, reported, pc, sig>>
PreexecSpawn ==
    /\ shell = "spawn"
    /\ pc' = [pc EXCEPT ![cur] = "boot"]
    /\ pid' = cur /\ shell' = "running"
    /\ UNCHANGED <<cur, status, exitFile, fileVars, final, term, reported, sig>>

CommandEnds ==
    /\ shell = "running"
    /\ \E s \in Outcome : status' = [status EXCEPT ![cur] = s]
    /\ \/ shell' = "ended"
       \/ "skipPrecmd" \in Faults /\ shell' = "prompt"
    /\ UNCHANGED <<cur, pid, exitFile, fileVars, final, term, reported, pc, sig>>

-----------------------------------------------------------------------------
(* The pre-prompt hook: write `exit`, signal, then look for `osc-start`.   *)

PrecmdWrite ==
    /\ shell = "ended"
    /\ \/ exitFile' = status[cur]
       \/ "exitLost" \in Faults /\ UNCHANGED exitFile
    /\ shell' = "signal"
    /\ UNCHANGED <<cur, pid, status, fileVars, final, term, reported, pc, sig>>
PrecmdSignal ==
    /\ shell = "signal"
    /\ Signal(pid, "USR1")
    /\ pid' = 0 /\ shell' = "look"
    /\ UNCHANGED <<cur, status, exitFile, fileVars, final, term, reported>>
PrecmdLook ==
    /\ shell = "look"
    /\ shell' = IF startFile # 0 THEN "fLock" ELSE "prompt"
    /\ UNCHANGED <<cur, pid, status, exitFile, fileVars, final, term, reported, pc, sig>>

-----------------------------------------------------------------------------
(* The lock and the terminal.                                              *)

(* Mutated: nobody waits for the lock.                                     *)
EnterAnyway(me) == TRUE

(* lock: taken when free; after 250 ms the caller goes ahead without it.   *)
MayEnter(me) == lock = 0 \/ "lockTimeout" \in Faults
Enter(me) == MayEnter(me) /\ lock' = IF lock = 0 THEN me ELSE lock
Leave(me) == lock' = IF lock = me THEN 0 ELSE lock

(* write_tty: all of the report, or nothing when the terminal does not     *)
(* read.                                                                   *)
Write(r) == term' = r \/ ("ttyDrops" \in Faults /\ UNCHANGED term)

-----------------------------------------------------------------------------
(* `finish`, run by the pre-prompt hook in the foreground.                 *)

FinishLock ==
    /\ shell = "fLock"
    /\ Enter(Finisher)
    /\ shell' = "fRead"
    /\ UNCHANGED <<cur, pid, status, exitFile, startFile, opened, shown,
                   final, term, reported, pc, sig>>

(* osc::finish_state, by how the command ended and the settings.           *)
AutoClearing(s, c) == IF c.successSticky THEN s ELSE "clear"
FinishAsDone(o, c) ==
    IF o = "fail" /\ c.failureSticky THEN "error" ELSE AutoClearing("done", c)
FinishAs(o, c) ==
    CASE o = "fail" /\ c.failureSticky -> "error"
      [] o = "fail" /\ ~c.failureSticky -> AutoClearing("idle", c)
      [] o = "ok" -> AutoClearing("done", c)
      [] o = "signal" -> AutoClearing("idle", c)

(* osc-start is consumed; nothing in it, no report.                        *)
FinishRead ==
    /\ shell = "fRead"
    /\ startFile' = 0 /\ opened' = {}
    /\ \/ /\ startFile = 0
          /\ shell' = "prompt"
          /\ Leave(Finisher)
          /\ UNCHANGED final
       \/ /\ startFile # 0
          /\ \E c \in Configs : final' = FinishAs(status[cur], c)
          /\ shell' = IF final' = "clear" THEN "fClear" ELSE "fShow"
          /\ UNCHANGED lock
    /\ UNCHANGED <<cur, pid, status, exitFile, shown, term, reported, pc, sig>>
FinishShow ==
    /\ shell = "fShow"
    /\ shown' = TRUE
    /\ shell' = "fReport"
    /\ UNCHANGED <<cur, pid, status, exitFile, startFile, opened, lock,
                   final, term, reported, pc, sig>>
FinishReport ==
    /\ shell = "fReport"
    /\ Write([state |-> final, by |-> cur])
    /\ Leave(Finisher)
    /\ shell' = "prompt" /\ final' = "clear"
    /\ UNCHANGED <<cur, pid, status, exitFile, startFile, opened, shown,
                   reported, pc, sig>>
FinishClear ==
    /\ shell = "fClear"
    /\ Write(NoRecord)
    /\ shell' = "fUnshow"
    /\ UNCHANGED <<cur, pid, status, exitFile, fileVars, final, reported, pc, sig>>
FinishUnshow ==
    /\ shell = "fUnshow"
    /\ shown' = FALSE
    /\ Leave(Finisher)
    /\ shell' = "prompt"
    /\ UNCHANGED <<cur, pid, status, exitFile, startFile, opened,
                   final, term, reported, pc, sig>>

(* The shell ends at its prompt or from within a command.                  *)
ShellDies ==
    /\ "shellDies" \in Faults
    /\ shell \in {"prompt", "running"}
    /\ shell' = "dead" /\ pid' = 0
    /\ Signal(pid, "TERM") \/ UNCHANGED <<pc, sig>>
    /\ UNCHANGED <<cur, status, exitFile, fileVars, final, term, reported>>

-----------------------------------------------------------------------------
(* The watcher.                                                            *)

Goto(w, l) == pc' = [pc EXCEPT ![w] = l]

(* A step of the watcher from at to next that leaves the files alone.      *)
Passes(w, at, next) ==
    /\ pc[w] = at
    /\ Goto(w, next)
    /\ UNCHANGED <<hookVars, final, term, sig>>

(* The process ends, and its channel with it.                              *)
Exits(w) ==
    /\ Goto(w, "exited")
    /\ sig' = [sig EXCEPT ![w] = "none"]
    /\ UNCHANGED <<hookVars, fileVars, final, term, reported>>

(* run_with up to the OSC branch.                                          *)
Boot(w) ==
    /\ Passes(w, "boot", IF w \in Ignored THEN "park" ELSE "wait")
    /\ UNCHANGED <<fileVars, reported>>

(* watch: a signal or the shell's death before the threshold ends it.  The *)
(* threshold is tested first, so a signal that is waiting already does not *)
(* keep a watcher from reporting.                                          *)
Threshold(w) ==
    /\ Passes(w, "wait", "lock")
    /\ UNCHANGED <<fileVars, reported>>
Early(w) ==
    /\ pc[w] = "wait" /\ (sig[w] # "none" \/ ~ShellAlive)
    /\ Exits(w)

(* Mutated: `exit` is looked at before osc-start is written.               *)
AfterLookingFirst(p) ==
    CASE p = "lock" -> "look" [] p = "look" -> "open" [] p = "open" -> "write"
      [] p = "write" -> "show" [] p = "show" -> "tty" [] p = "tty" -> "park"
(* Mutated: osc-shown is written after the report.                         *)
AfterReporting(p) ==
    CASE p = "lock" -> "open" [] p = "open" -> "write" [] p = "write" -> "look"
      [] p = "look" -> "tty" [] p = "tty" -> "show" [] p = "show" -> "park"

(* report_working: the order of its steps.                                 *)
After(p) ==
    CASE p = "lock" -> "open" [] p = "open" -> "write" [] p = "write" -> "look"
      [] p = "look" -> "show" [] p = "show" -> "tty" [] p = "tty" -> "park"

Lock(w) ==
    /\ Enter(w)
    /\ Passes(w, "lock", After("lock"))
    /\ UNCHANGED <<startFile, opened, shown, reported>>
(* fs::write of osc-start: truncate, then write through the handle.        *)
OpenStart(w) ==
    /\ Passes(w, "open", After("open"))
    /\ startFile' = 0 /\ opened' = opened \cup {w}
    /\ UNCHANGED <<shown, lock, reported>>
WriteStart(w) ==
    /\ Passes(w, "write", After("write"))
    /\ startFile' = IF w \in opened THEN w ELSE startFile
    /\ opened' = opened \ {w}
    /\ reported' = reported \cup {w}
    /\ UNCHANGED <<shown, lock>>
(* It fails before the truncation or after it.  Without the file there     *)
(* will be no `finish`, hence no report.                                   *)
WriteStartFails(w) ==
    /\ "startLost" \in Faults
    /\ \E p \in {"open", "write"} : Passes(w, p, "park")
    /\ opened' = opened \ {w}
    /\ Leave(w)
    /\ UNCHANGED <<startFile, shown, reported>>
(* A non-empty `exit`: the command is over.                                *)
LookAtExit(w) ==
    /\ Passes(w, "look", IF exitFile = "none" THEN After("look") ELSE "giveBack")
    /\ UNCHANGED <<fileVars, reported>>
(* Mutated: the watcher parks with the lock.                               *)
GiveBackLocked(w) ==
    /\ Passes(w, "giveBack", "park")
    /\ startFile' = 0 /\ opened' = {}
    /\ reported' = reported \ {w}
    /\ UNCHANGED <<shown, lock>>

GiveBack(w) ==
    /\ Passes(w, "giveBack", "park")
    /\ startFile' = 0 /\ opened' = {}
    /\ Leave(w)
    /\ reported' = reported \ {w}
    /\ UNCHANGED shown
Show(w) ==
    /\ Passes(w, "show", After("show"))
    /\ shown' = TRUE
    /\ UNCHANGED <<startFile, opened, lock, reported>>
(* The report is written, and the lock goes with the end of the function.  *)
Tell(w) ==
    /\ pc[w] = "tty"
    /\ Write([state |-> "working", by |-> w])
    /\ Leave(w)
    /\ Goto(w, After("tty"))
    /\ UNCHANGED <<hookVars, startFile, opened, shown, final, reported, sig>>

ReportWorking(w) ==
    \/ Lock(w) \/ OpenStart(w) \/ WriteStart(w) \/ WriteStartFails(w)
    \/ LookAtExit(w) \/ GiveBack(w) \/ Show(w) \/ Tell(w)

(* Mutated: only a signal ends a parked watcher.                           *)
UnparkOnSignal(w) ==
    /\ pc[w] = "park" /\ sig[w] # "none"
    /\ Exits(w)

Unpark(w) ==
    /\ pc[w] = "park" /\ (sig[w] # "none" \/ ~ShellAlive)
    /\ Exits(w)

(* A killed process closes its files, and with them drops the lock.        *)
Crash(w) ==
    /\ "crash" \in Faults
    /\ pc[w] \notin {"none"} \cup GonePc
    /\ Goto(w, "killed")
    /\ sig' = [sig EXCEPT ![w] = "none"]
    /\ Leave(w)
    /\ UNCHANGED <<hookVars, startFile, opened, shown, final, term, reported>>

WatcherStep(w) ==
    Boot(w) \/ Threshold(w) \/ Early(w) \/ ReportWorking(w) \/ Unpark(w)

HookStep ==
    \/ PreexecClear \/ PreexecUnshow \/ PreexecExit \/ PreexecStartFile
    \/ PreexecSpawn \/ PrecmdWrite \/ PrecmdSignal \/ PrecmdLook
    \/ FinishLock \/ FinishRead \/ FinishShow \/ FinishReport
    \/ FinishClear \/ FinishUnshow

Next ==
    \/ PreexecStart \/ CommandEnds \/ HookStep \/ ShellDies
    \/ \E w \in Cmd : WatcherStep(w) \/ Crash(w)

(* The hooks and `finish` run to their end; every watcher is scheduled.    *)
Fairness == WF_vars(HookStep) /\ \A w \in Cmd : WF_vars(WatcherStep(w))

Spec == Init /\ [][Next]_vars /\ Fairness

-----------------------------------------------------------------------------
(* Properties.                                                             *)

(* A prompt that precmd has seen to shows no `working`: watcher and hook   *)
(* each write before they read, so at least one sees the other (the module *)
(* comment of osc_watch.rs).                                               *)
WorkingEnds ==
    shell = "prompt" /\ pid = 0 => term.state # "working"

(* While a command runs the terminal shows that command or nothing.        *)
RunningRecord ==
    shell = "running" /\ term # NoRecord => term = [state |-> "working", by |-> cur]

(* A final record is never replaced by the `working` of the same command:  *)
(* what the lock is for.                                                   *)
DoneAfterWorking ==
    [][term.state \in Final => term' # [state |-> "working", by |-> term.by]]_vars

(* Whatever is on the terminal, the next pre-command hook will clear it,   *)
(* even if the watcher that put it there was killed half-way.              *)
ShownCovers ==
    term # NoRecord => shown

(* `finish` is silent unless the watcher reported this very command.       *)
OnlyReported ==
    term.state \in Final /\ term.by # 0 => term.by \in reported

(* No watcher outlives its shell, signalled or not (osc_watch.rs:217-223). *)
ShellGoneWatchersExit ==
    \A w \in Cmd : ~ShellAlive ~> pc[w] \in {"none"} \cup GonePc

(* The prompt comes back: `finish` gets the lock from a watcher that found *)
(* its command over, or was killed, in the middle of its report            *)
(* (osc_watch.rs:126-127).                                                 *)
PromptReturns ==
    shell \in FinishState ~> shell = "prompt"

(* The shell never holds the PID of a watcher that has exited.             *)
PidAlive ==
    pid # 0 => pc[pid] \notin {"none"} \cup GonePc
=============================================================================
