----------------------------- MODULE PaneWatch -----------------------------
(***************************************************************************)
(* The Herdr TUI backend: the shell hooks (shell/init.{zsh,bash,fish}),    *)
(* one watcher process per command line (src/watch.rs driving the pure     *)
(* machine of src/state.rs), the files they share in the pane's state      *)
(* directory, and the pane's row in Herdr's sidebar (external; modelled    *)
(* from the requests src/proto.rs builds).                                 *)
(*                                                                         *)
(* Command lines are numbered in the order they are typed; the watcher of  *)
(* command w is called w as well.  0 stands for whatever ran before.       *)
(*                                                                         *)
(* A step of a watcher is one access to something shared: a file, a        *)
(* request on the socket, or a signal.  Durations are left out: a timeout  *)
(* may expire at any moment.  The two places where the code relies on      *)
(* durations are named assumptions that Timing switches on:                *)
(*   "settle"  the watchers of earlier commands have finished reporting    *)
(*             by the time the next watcher starts;                        *)
(*   "gap"     a lingering watcher notices that it was replaced, and ends  *)
(*             a cleanup it has begun, before its replacement crosses the  *)
(*             threshold (the argument at LINGER_POLL_MS).                 *)
(***************************************************************************)
EXTENDS Naturals, FiniteSets

CONSTANTS
    N,             \* number of command lines typed
    Ignored,       \* the commands on the ignore list
    Configs,       \* the [finish] settings a watcher may find when it finishes
    MaxFailures,   \* MAX_CONSECUTIVE_FAILURES
    MaxIo,         \* bound: failed socket calls in a behaviour
    Faults,        \* what else may go wrong
    Timing         \* the timing assumptions made

Cmd == 1..N
Outcome == {"ok", "fail", "signal", "unknown"}

ASSUME ConstantsAssumption ==
    /\ N \in Nat
    /\ Ignored \subseteq Cmd
    /\ Configs \subseteq [failureSticky : BOOLEAN, successSticky : BOOLEAN]
    /\ Configs # {}
    /\ MaxFailures \in Nat \ {0}
    /\ MaxIo \in Nat
    /\ Faults \subseteq {"crash", "exitLost", "skipPrecmd", "shellDies",
                         "paneCloses", "leftover"}
    /\ Timing \subseteq {"settle", "gap"}

VARIABLES
    shell,      \* what the shell is doing
    cur,        \* the last command line typed
    pid,        \* $_HSP_PID: the watcher the shell would signal, or 0
    cmdFile,    \* whose command line the file `cmd` holds
    status,     \* how each command really ended
    exitFile,   \* the file `exit`; "unknown" when missing, empty, unparseable
    marker,     \* the file `marker`
    opened,     \* watchers writing through a handle to the linked marker
    paneOpen,   \* Herdr still has the pane
    row,        \* the pane's agent state in Herdr, and whose report that is
    label,      \* the text on the row, whose it is, and if it has a TTL
    late,       \* timed-out requests Herdr may still read and apply
    io,         \* failed socket calls so far
    pc,         \* where each watcher is
    prog,       \* the command line each watcher read
    clearFirst, \* started with --clear-first
    sig,        \* the signal waiting in each watcher's channel
    fails,      \* Driver.failures
    reported,   \* Machine.reported
    outcome     \* the outcome each watcher put in its label

shellVars == <<shell, cur, pid, cmdFile, status, exitFile, clearFirst>>
fileVars == <<marker, opened>>
paneVars == <<paneOpen, row, label, late, io>>
watchVars == <<pc, prog, sig, fails, reported, outcome>>
vars == <<shellVars, fileVars, paneVars, watchVars>>

ShellState == {"prompt", "spawn", "running", "ended", "write", "signal", "dead"}
ClearPc == {"cRead", "cDrop", "cMeta", "cRelease", "cCheck", "cUnlink"}
TickPc == {"tOpen", "tWrite", "tReport", "tMeta"}
FinishPc == {"sIdle", "sMeta", "fIdle", "fMeta"}
TailPc == {"release", "check", "unlink"}
GonePc == {"exited", "killed"}
Pc == {"none", "boot", "loop", "linger", "park"}
        \cup ClearPc \cup TickPc \cup FinishPc \cup TailPc \cup GonePc

Row == [state : {"none", "working", "idle"}, by : 0..N]
Label == [text : {"none", "working"} \cup Outcome, by : 0..N, ttl : BOOLEAN]
NoRow == [state |-> "none", by |-> 0]
NoLabel == [text |-> "none", by |-> 0, ttl |-> FALSE]
Request == [kind : {"agent"}, row : Row] \cup [kind : {"metadata"}, label : Label]

(* A live watcher has its handlers installed and is still running.         *)
Live(w) == pc[w] \notin {"none", "boot"} \cup GonePc
(* shell_alive: signal 0 to the shell that spawned us.                     *)
ShellAlive == shell # "dead"

TypeOK ==
    /\ shell \in ShellState
    /\ cur \in 0..N
    /\ pid \in 0..N
    /\ cmdFile \in 0..N
    /\ status \in [Cmd -> {"none"} \cup Outcome]
    /\ exitFile \in Outcome
    /\ marker \in {"absent", "empty", "named"}
    /\ opened \subseteq Cmd
    /\ paneOpen \in BOOLEAN
    /\ row \in Row
    /\ label \in Label
    /\ late \subseteq Request
    /\ io \in 0..MaxIo
    /\ pc \in [Cmd -> Pc]
    /\ prog \in [Cmd -> 0..N]
    /\ clearFirst \in [Cmd -> BOOLEAN]
    /\ sig \in [Cmd -> {"none", "USR1", "TERM"}]
    /\ fails \in [Cmd -> 0..MaxFailures]
    /\ reported \in [Cmd -> BOOLEAN]
    /\ outcome \in [Cmd -> Outcome]

(* A fresh state directory, or one that a shell left behind after a        *)
(* command failed: its sticky label is still on the row.                   *)
Init ==
    /\ shell = "prompt" /\ cur = 0 /\ pid = 0 /\ cmdFile = 0
    /\ status = [w \in Cmd |-> "none"]
    /\ opened = {} /\ paneOpen = TRUE /\ late = {} /\ io = 0
    /\ \/ /\ marker = "absent" /\ exitFile = "unknown"
          /\ row = NoRow /\ label = NoLabel
       \/ /\ "leftover" \in Faults
          /\ marker = "named" /\ exitFile = "fail"
          /\ row = [state |-> "idle", by |-> 0]
          /\ label = [text |-> "fail", by |-> 0, ttl |-> FALSE]
    /\ pc = [w \in Cmd |-> "none"]
    /\ prog = [w \in Cmd |-> 0]
    /\ clearFirst = [w \in Cmd |-> FALSE]
    /\ sig = [w \in Cmd |-> "none"]
    /\ fails = [w \in Cmd |-> 0]
    /\ reported = [w \in Cmd |-> FALSE]
    /\ outcome = [w \in Cmd |-> "unknown"]

-----------------------------------------------------------------------------
(* The shell hooks.                                                        *)

(* Mutated: USR1 and TERM are held back until the handlers are installed.  *)
SignalHeldBack(w, s) ==
    /\ UNCHANGED pc
    /\ sig' = IF w # 0 /\ pc[w] \notin GonePc THEN [sig EXCEPT ![w] = s] ELSE sig

(* kill: a watcher that has not installed its handlers dies of the signal, *)
(* a running one finds it in its channel, and nobody else hears it.        *)
Signal(w, s) ==
    /\ pc' = IF w # 0 /\ pc[w] = "boot" THEN [pc EXCEPT ![w] = "killed"] ELSE pc
    /\ sig' = IF w # 0 /\ Live(w) THEN [sig EXCEPT ![w] = s] ELSE sig

(* preexec, up to the marker test: TERM for a watcher precmd never reached,*)
(* then the command line for the watcher about to start.                   *)
PreexecStart ==
    /\ shell = "prompt" /\ cur < N
    /\ Signal(pid, "TERM")
    /\ pid' = 0
    /\ cur' = cur + 1
    /\ cmdFile' = cur + 1
    /\ shell' = "spawn"
    /\ UNCHANGED <<status, exitFile, clearFirst, fileVars, paneVars,
                   prog, fails, reported, outcome>>

Settled(w) == pc[w] \in {"none", "linger", "park"} \cup TailPc \cup GonePc

(* Mutated: the hook never asks for a clear.                               *)
MarkerTestNever == FALSE

(* [[ -f marker ]]: true of a zero-byte file, too.                         *)
MarkerTest == marker # "absent"

(* preexec, from the marker test to the spawn.                             *)
PreexecSpawn ==
    /\ shell = "spawn"
    /\ "settle" \in Timing => \A w \in 1..(cur - 1) : Settled(w)
    /\ clearFirst' = [clearFirst EXCEPT ![cur] = MarkerTest]
    /\ pc' = [pc EXCEPT ![cur] = "boot"]
    /\ pid' = cur
    /\ shell' = "running"
    /\ UNCHANGED <<cur, cmdFile, status, exitFile, fileVars, paneVars,
                   prog, sig, fails, reported, outcome>>

(* The command ends; in the odd case precmd does not run at all.           *)
CommandEnds ==
    /\ shell = "running"
    /\ \E s \in {"ok", "fail", "signal"} : status' = [status EXCEPT ![cur] = s]
    /\ \/ shell' = "ended"
       \/ "skipPrecmd" \in Faults /\ shell' = "prompt"
    /\ UNCHANGED <<cur, pid, cmdFile, exitFile, clearFirst,
                   fileVars, paneVars, watchVars>>

(* precmd: the redirection truncates `exit` ...                            *)
PrecmdTruncate ==
    /\ shell = "ended"
    /\ exitFile' = "unknown"
    /\ shell' = "write"
    /\ UNCHANGED <<cur, pid, cmdFile, status, clearFirst,
                   fileVars, paneVars, watchVars>>

(* ... the code is written (not on a full disk) ...                        *)
PrecmdWrite ==
    /\ shell = "write"
    /\ \/ exitFile' = status[cur]
       \/ "exitLost" \in Faults /\ UNCHANGED exitFile
    /\ shell' = "signal"
    /\ UNCHANGED <<cur, pid, cmdFile, status, clearFirst,
                   fileVars, paneVars, watchVars>>

(* ... and the watcher signalled and forgotten.                            *)
PrecmdSignal ==
    /\ shell = "signal"
    /\ Signal(pid, "USR1")
    /\ pid' = 0
    /\ shell' = "prompt"
    /\ UNCHANGED <<cur, cmdFile, status, exitFile, clearFirst,
                   fileVars, paneVars, prog, fails, reported, outcome>>

(* The shell ends, through its exit hook or without running it.            *)
ShellDies ==
    /\ "shellDies" \in Faults
    /\ ShellAlive
    /\ shell' = "dead"
    /\ pid' = 0
    /\ Signal(pid, "TERM") \/ UNCHANGED <<pc, sig>>
    /\ UNCHANGED <<cur, cmdFile, status, exitFile, clearFirst,
                   fileVars, paneVars, prog, fails, reported, outcome>>

-----------------------------------------------------------------------------
(* Herdr (external).                                                       *)

Agent(w, s) == [kind |-> "agent", row |-> [state |-> s, by |-> w]]
Release == [kind |-> "agent", row |-> NoRow]
Metadata(w, t, ttl) ==
    [kind |-> "metadata", label |-> [text |-> t, by |-> w, ttl |-> ttl]]
ClearMetadata == [kind |-> "metadata", label |-> NoLabel]

(* Herdr replaces a source's agent state, or its metadata, wholesale.      *)
Apply(r) ==
    IF r.kind = "agent" THEN row' = r.row /\ UNCHANGED label
                        ELSE label' = r.label /\ UNCHANGED row

(* The TTL takes the label and leaves the agent state behind.              *)
Expire ==
    /\ label.ttl
    /\ label' = NoLabel
    /\ UNCHANGED <<shellVars, fileVars, paneOpen, row, late, io, watchVars>>

(* A request whose caller gave up after two seconds is read at last.       *)
ApplyLate ==
    /\ paneOpen
    /\ \E r \in late : Apply(r) /\ late' = late \ {r}
    /\ UNCHANGED <<shellVars, fileVars, paneOpen, io, watchVars>>

PaneCloses ==
    /\ "paneCloses" \in Faults
    /\ paneOpen
    /\ paneOpen' = FALSE /\ row' = NoRow /\ label' = NoLabel
    /\ UNCHANGED <<shellVars, fileVars, late, io, watchVars>>

-----------------------------------------------------------------------------
(* The watcher.                                                            *)

Goto(w, l) == pc' = [pc EXCEPT ![w] = l]

(* Mutated: a watcher with nothing left to report returns.                 *)
StopAtOnce(w) == "exited"

(* Where a watcher goes that has to stop: while its shell holds its PID it *)
(* may not exit, so it parks; after the shell's last signal it exits.      *)
StopAt(w) == IF pc[w] \in ClearPc \cup TickPc THEN "park" ELSE "exited"

(* Past the clear, only a command that is not ignored is watched.          *)
Dispatch(p) == IF p \in Ignored THEN "park" ELSE "loop"

(* Mutated: the limit on failures is tested with > instead of >=.          *)
SendOneMore(w, r, next) ==
    \/ paneOpen /\ Apply(r) /\ fails' = [fails EXCEPT ![w] = 0]
       /\ Goto(w, next) /\ UNCHANGED <<late, io>>
    \/ ~paneOpen /\ Goto(w, StopAt(w)) /\ UNCHANGED <<row, label, fails, late, io>>
    \/ /\ io < MaxIo /\ io' = io + 1 /\ late' = late \cup {r}
       /\ fails' = [fails EXCEPT ![w] = @ + 1]
       /\ Goto(w, IF fails[w] + 1 > MaxFailures THEN StopAt(w) ELSE next)
       /\ UNCHANGED <<row, label>>

(* Driver::send and the test Driver::apply makes of its result.            *)
Send(w, r, next) ==
    \/ /\ paneOpen
       /\ Apply(r)
       /\ fails' = [fails EXCEPT ![w] = 0]
       /\ Goto(w, next)
       /\ UNCHANGED <<late, io>>
    \/ /\ ~paneOpen
       /\ Goto(w, StopAt(w))
       /\ UNCHANGED <<row, label, fails, late, io>>
    \/ /\ io < MaxIo
       /\ io' = io + 1
       /\ late' = late \cup {r}
       /\ fails' = [fails EXCEPT ![w] = @ + 1]
       /\ Goto(w, IF fails[w] + 1 >= MaxFailures THEN StopAt(w) ELSE next)
       /\ UNCHANGED <<row, label>>

SendAt(w, at, r, next) ==
    /\ pc[w] = at
    /\ Send(w, r, next)
    /\ UNCHANGED <<shellVars, fileVars, paneOpen, prog, sig, reported, outcome>>

(* The rest of a step that only moves the watcher.                         *)
OnlyPc == UNCHANGED <<shellVars, fileVars, paneVars,
                      prog, sig, fails, reported, outcome>>
OnlyFiles == UNCHANGED <<shellVars, paneVars, prog, sig, fails, reported, outcome>>

(* Mutated: an ignored command parks before it clears.                     *)
BootIgnoring(w) ==
    /\ pc[w] = "boot"
    /\ prog' = [prog EXCEPT ![w] = cmdFile]
    /\ Goto(w, IF clearFirst[w] /\ cmdFile \notin Ignored
                   THEN "cRead" ELSE Dispatch(cmdFile))
    /\ UNCHANGED <<shellVars, fileVars, paneVars, sig, fails, reported, outcome>>

(* run_with up to the installed signal handlers.                           *)
Boot(w) ==
    /\ pc[w] = "boot"
    /\ prog' = [prog EXCEPT ![w] = cmdFile]
    /\ Goto(w, IF clearFirst[w] THEN "cRead" ELSE Dispatch(cmdFile))
    /\ UNCHANGED <<shellVars, fileVars, paneVars, sig, fails, reported, outcome>>

(* Unlinking the marker leaves a writer with a handle to a nameless file.  *)
Unlink == marker' = "absent" /\ opened' = {}

(* read_marker: a name to release, nothing, or a zero-byte file to remove. *)
ClearRead(w) ==
    /\ pc[w] = "cRead"
    /\ Goto(w, CASE marker = "named" -> "cMeta"
                 [] marker = "empty" -> "cDrop"
                 [] marker = "absent" -> Dispatch(prog[w]))
    /\ UNCHANGED fileVars /\ OnlyFiles
ClearDrop(w) ==
    /\ pc[w] = "cDrop"
    /\ Unlink
    /\ Goto(w, Dispatch(prog[w]))
    /\ OnlyFiles

(* remove_marker_owned_by: test the name, then unlink.  The name is the    *)
(* constant "shell" in every marker, whoever wrote it.                     *)
RemoveCheck(w, at, unlink, done) ==
    /\ pc[w] = at
    /\ Goto(w, IF marker = "named" THEN unlink ELSE done)
    /\ UNCHANGED fileVars /\ OnlyFiles
RemoveUnlink(w, at, done) ==
    /\ pc[w] = at
    /\ Unlink
    /\ Goto(w, done)
    /\ OnlyFiles

(* clear_actions.                                                          *)
Clear(w) ==
    \/ ClearRead(w)
    \/ ClearDrop(w)
    \/ SendAt(w, "cMeta", ClearMetadata, "cRelease")
    \/ SendAt(w, "cRelease", Release, "cCheck")
    \/ RemoveCheck(w, "cCheck", "cUnlink", Dispatch(prog[w]))
    \/ RemoveUnlink(w, "cUnlink", Dispatch(prog[w]))

(* The receive in run_with's loop times out with the shell alive: on_tick. *)
(* Before the threshold it does nothing; the first tick past it reports.   *)
Tick(w) ==
    /\ pc[w] = "loop" /\ sig[w] = "none" /\ ShellAlive
    /\ Goto(w, IF reported[w] THEN "tMeta" ELSE "tOpen")
    /\ reported' = [reported EXCEPT ![w] = TRUE]
    /\ UNCHANGED <<shellVars, fileVars, paneVars, prog, sig, fails, outcome>>

(* Mutated: the linger sleeps through its window.                          *)
SupersededNever(w) == FALSE

(* still_ours is false, or a signal came in during the linger.             *)
Superseded(w) == marker # "named" \/ sig[w] # "none"

GapRespected(w) ==
    \A v \in 1..(w - 1) :
        /\ pc[v] \notin TailPc
        /\ pc[v] = "linger" => ~Superseded(v)

(* MarkerWrite is fs::write: create or truncate, then write.               *)
OpenMarker(w) ==
    /\ pc[w] = "tOpen"
    /\ "gap" \in Timing => GapRespected(w)
    /\ marker' = "empty"
    /\ opened' = opened \cup {w}
    /\ Goto(w, "tWrite")
    /\ OnlyFiles
WriteMarker(w) ==
    /\ pc[w] = "tWrite"
    /\ marker' = IF w \in opened THEN "named" ELSE marker
    /\ opened' = opened \ {w}
    /\ Goto(w, "tReport")
    /\ OnlyFiles

(* Mutated: the pane is reserved before the marker is written.             *)
ReportThenMark(w) ==
    \/ SendAt(w, "tOpen", Agent(w, "working"), "tWrite")
    \/ /\ pc[w] = "tWrite" /\ marker' = "named" /\ UNCHANGED opened
       /\ Goto(w, "tMeta") /\ OnlyFiles
    \/ SendAt(w, "tMeta", Metadata(w, "working", FALSE), "loop")

(* The action lists of on_tick.                                            *)
Report(w) ==
    \/ OpenMarker(w)
    \/ WriteMarker(w)
    \/ SendAt(w, "tReport", Agent(w, "working"), "tMeta")
    \/ SendAt(w, "tMeta", Metadata(w, "working", FALSE), "loop")

(* on_finish: what follows SIGUSR1, by what was reported and how it ended. *)
FinishAt(rep, o, c) ==
    CASE ~rep -> "exited"
      [] rep /\ o = "fail" /\ c.failureSticky -> "sIdle"
      [] rep /\ ~(o = "fail" /\ c.failureSticky) /\ ~c.successSticky -> "release"
      [] rep /\ ~(o = "fail" /\ c.failureSticky) /\ c.successSticky -> "fIdle"

(* Mutated: an exit code that cannot be read counts as 0.                  *)
ReadExitAsZero == IF exitFile = "unknown" THEN "ok" ELSE exitFile

(* read_exit_code and label::classify: the outcome the file stands for.    *)
ReadExit == exitFile

(* SIGUSR1: read_exit_code, then on_finish.                                *)
Finish(w) ==
    /\ pc[w] = "loop" /\ sig[w] = "USR1"
    /\ sig' = [sig EXCEPT ![w] = "none"]
    /\ outcome' = [outcome EXCEPT ![w] = ReadExit]
    /\ \E c \in Configs : Goto(w, FinishAt(reported[w], ReadExit, c))
    /\ UNCHANGED <<shellVars, fileVars, paneVars, prog, fails, reported>>

(* Mutated: the watcher exits and leaves its report behind.                *)
ShellGoneSilent(w) ==
    /\ pc[w] = "loop"
    /\ sig[w] = "TERM" \/ (sig[w] = "none" /\ ~ShellAlive)
    /\ sig' = [sig EXCEPT ![w] = "none"]
    /\ Goto(w, "exited")
    /\ UNCHANGED <<shellVars, fileVars, paneVars, prog, fails, reported, outcome>>

(* SIGTERM, or a timeout with the shell dead: on_shell_gone.               *)
ShellGone(w) ==
    /\ pc[w] = "loop"
    /\ sig[w] = "TERM" \/ (sig[w] = "none" /\ ~ShellAlive)
    /\ sig' = [sig EXCEPT ![w] = "none"]
    /\ Goto(w, IF reported[w] THEN "release" ELSE "exited")
    /\ UNCHANGED <<shellVars, fileVars, paneVars, prog, fails, reported, outcome>>

(* linger: the window ran out, or the shell is gone and nobody else would  *)
(* clean up; or a newer watcher has taken over and the rest is dropped.    *)
(* The deadline is tested at the top of the loop, with no look at the      *)
(* channel or the marker between the last wait and the release.            *)
LingerDone(w) ==
    /\ pc[w] = "linger"
    /\ Goto(w, "release")
    /\ OnlyPc
LingerSuperseded(w) ==
    /\ pc[w] = "linger" /\ Superseded(w)
    /\ Goto(w, "exited")
    /\ OnlyPc

(* The action lists of on_finish and on_shell_gone.                        *)
Conclude(w) ==
    \/ SendAt(w, "sIdle", Agent(w, "idle"), "sMeta")
    \/ SendAt(w, "sMeta", Metadata(w, outcome[w], FALSE), "exited")
    \/ SendAt(w, "fIdle", Agent(w, "idle"), "fMeta")
    \/ SendAt(w, "fMeta", Metadata(w, outcome[w], TRUE), "linger")
    \/ LingerDone(w)
    \/ LingerSuperseded(w)
    \/ SendAt(w, "release", Release, "check")
    \/ RemoveCheck(w, "check", "unlink", "exited")
    \/ RemoveUnlink(w, "unlink", "exited")

(* Mutated: a parked watcher waits for its signal only.                    *)
UnparkOnSignal(w) ==
    /\ pc[w] = "park" /\ sig[w] # "none"
    /\ Goto(w, "exited")
    /\ OnlyPc

(* park: until a signal or the shell's death.                              *)
Unpark(w) ==
    /\ pc[w] = "park" /\ (sig[w] # "none" \/ ~ShellAlive)
    /\ Goto(w, "exited")
    /\ OnlyPc

Crash(w) ==
    /\ "crash" \in Faults
    /\ pc[w] \notin {"none"} \cup GonePc
    /\ Goto(w, "killed")
    /\ OnlyPc

WatcherStep(w) ==
    \/ Boot(w) \/ Clear(w) \/ Tick(w) \/ Report(w)
    \/ Finish(w) \/ ShellGone(w) \/ Conclude(w) \/ Unpark(w)

HookStep == PreexecSpawn \/ PrecmdTruncate \/ PrecmdWrite \/ PrecmdSignal

Next ==
    \/ PreexecStart \/ CommandEnds \/ HookStep \/ ShellDies
    \/ Expire \/ ApplyLate \/ PaneCloses
    \/ \E w \in Cmd : WatcherStep(w) \/ Crash(w)

(* The hooks run to their end and every process keeps being scheduled;     *)
(* users, Herdr's backlog and faults owe nobody anything.                  *)
Fairness == WF_vars(HookStep) /\ \A w \in Cmd : WF_vars(WatcherStep(w))

Spec == Init /\ [][Next]_vars /\ Fairness
-----------------------------------------------------------------------------
(* Safety.                                                                 *)

(* The shell never holds the PID of a watcher that has exited: the process *)
(* a hook signals is always a watcher, never one that inherited its PID    *)
(* (park, and every early return of run_with).                             *)
PidAlive ==
    pid # 0 => pc[pid] \notin {"none"} \cup GonePc

(* A watcher past its start-up watches its own command line and no later   *)
(* one, although every preexec overwrites `cmd`; so what the ignore list   *)
(* is matched against is the command that runs.                            *)
OwnCommand ==
    \A w \in Cmd : Live(w) => prog[w] = w

(* A label that says a command succeeded tells the truth: what             *)
(* read_exit_code calls the one thing this plugin exists to prevent.       *)
NeverFalseOk ==
    label.by \in Cmd /\ label.text = "ok" => status[label.by] = "ok"

(* As long as the pane is reserved, the marker names the reservation, so   *)
(* that the next preexec passes --clear-first and can take it back, even   *)
(* when the watcher that made it was killed.                               *)
Recoverable ==
    row.state # "none" => marker = "named"

(* What a running command's watcher has reported stands: no older watcher  *)
(* releases its row, relabels it or unlinks its marker.                    *)
RunningRowStands ==
    \A w \in Cmd :
        pc[w] = "loop" /\ reported[w] /\ paneOpen =>
            /\ row = [state |-> "working", by |-> w]
            /\ label = [text |-> "working", by |-> w, ttl |-> FALSE]
            /\ marker = "named"

(* A failure's sticky label, and the row under it, stay as they are until  *)
(* the user types another command (or closes the pane).                    *)
StickyUp(w) ==
    /\ row = [state |-> "idle", by |-> w]
    /\ label = [text |-> "fail", by |-> w, ttl |-> FALSE]
FailureSticks ==
    [][\A w \in 0..N :
          StickyUp(w) /\ cur' = w /\ paneOpen' => UNCHANGED <<row, label>>]_vars

(* The first command after a sticky failure wipes it, however fast that    *)
(* command is (README.md:27): once its watcher is gone, so is the label.   *)
Wiped ==
    \A w \in Cmd : StickyUp(w - 1) => pc[w] \notin GonePc

-----------------------------------------------------------------------------
(* Liveness.                                                               *)

(* No watcher outlives its shell for good.                                 *)
ShellGoneWatchersExit ==
    shell = "dead" ~> \A w \in Cmd : pc[w] \in {"none"} \cup GonePc

(* A command the shell has forgotten does not keep its row at `working`,   *)
(* unless the socket failed.                                               *)
NoHangingWorking ==
    \A w \in Cmd :
        (cur >= w /\ pid # w /\ row = [state |-> "working", by |-> w])
            ~> (row # [state |-> "working", by |-> w] \/ io > 0)

(* A watcher that gets to run after a failure takes the sticky label down, *)
(* whether it is going to watch its own command or ignore it, unless the   *)
(* socket failed.                                                          *)
FailureCleared ==
    \A w \in Cmd :
        (StickyUp(w - 1) /\ clearFirst[w] /\ Live(w)) ~> (~StickyUp(w - 1) \/ io > 0)

=============================================================================
