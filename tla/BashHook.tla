------------------------------ MODULE BashHook ------------------------------
(***************************************************************************)
(* How a command line reaches its watcher (shell/init.bash, and ignore_name *)
(* in src/watch.rs).  bash has no pre-command hook: a DEBUG trap fires     *)
(* before every simple command, PROMPT_COMMAND's included, and only a fire *)
(* while armed starts a watcher.  The trap hands the program over in the   *)
(* file `name`, which zsh does not write; under bash-preexec the hook gets *)
(* the line once and removes the file.                                     *)
(*                                                                         *)
(* A second shell may be started in the first.  It has the same state      *)
(* directory, so the same `cmd`, `name`, `exit` and marker.  Watchers have *)
(* handled their signals, and have read their files, before the next line  *)
(* is typed; PaneWatch does without that.                                  *)
(***************************************************************************)
EXTENDS Naturals

CONSTANTS
    N,          \* command lines typed, in whichever shell
    MaxEmpty,   \* empty lines entered
    Empty,      \* the kinds of shell in which they are
    Shells,     \* the pairs <<outer, inner>> of kinds of shell
    Lines       \* subset of {"cmd", "pipe", "subshell", "shell"}

Kind == {"trap", "preexec", "zsh"}
Line == 1..N
Watcher == 1..(N + MaxEmpty)

ASSUME HookAssumption ==
    /\ N \in Nat /\ MaxEmpty \in Nat
    /\ Shells \subseteq Kind \X Kind /\ Empty \subseteq Kind
    /\ Lines \subseteq {"cmd", "pipe", "subshell", "shell"}

VARIABLES
    kinds,      \* the kinds of the two shells
    osc,        \* the pane is a desktop-app terminal
    level,      \* the shell that has the terminal
    armed,      \* $_HSP_ARMED of each shell
    pid,        \* $_HSP_PID of each shell: a watcher, or 0
    place,      \* what each shell is doing
    left,       \* simple commands its line has still to run
    running,    \* the line each shell is at
    cur,        \* lines typed so far
    empties,
    what,       \* what each line is
    result,     \* how it ended
    last,       \* $? as each shell would find it now, $_HSP_LAST_STATUS
    cmd, name, exitFile,    \* files; 0 and "none" when absent
    watchers,   \* place, line, --clear-first and signal of each watcher
    matched,    \* what it matches the ignore list against
    spawned,
    row         \* the pane's report and whose it is

vars == <<kinds, osc, level, armed, pid, place, left, running, cur, empties,
          what, result, last, cmd, name, exitFile, watchers, matched, spawned, row>>
shellVars == <<kinds, osc, level, armed, pid, place, left, running, cur,
               empties, what, result, last>>
fileVars == <<cmd, name, exitFile>>

Shell == {1, 2}
Hook == N + 1           \* a function of the hook, as the name of a program
NoRow == [state |-> "none", line |-> 0]
NoWatcher == [pc |-> "none", line |-> 0, clear |-> FALSE, sig |-> "none"]
kind == kinds[level]
at == place[level]

TypeOK ==
    /\ level \in Shell
    /\ armed \in [Shell -> BOOLEAN] /\ pid \in [Shell -> 0..(N + MaxEmpty)]
    /\ place \in [Shell -> {"off", "prompt", "start", "body", "inner", "capture",
                            "other", "precmd"}]
    /\ result \in [Line -> {"none", "ok", "fail"}]
    /\ last \in [Shell -> [now : {"ok", "fail"}, kept : {"ok", "fail"}]]
    /\ cmd \in 0..N /\ name \in 0..Hook /\ exitFile \in {"none", "ok", "fail"}
    /\ matched \in [Watcher -> 0..Hook]
    /\ row \in [state : {"none", "running", "failed", "done"}, line : 0..N]

Init ==
    /\ kinds \in Shells /\ osc \in BOOLEAN
    /\ level = 1
    /\ armed = [s \in Shell |-> FALSE]
    /\ pid = [s \in Shell |-> 0]
    /\ place = [s \in Shell |-> IF s = 1 THEN "capture" ELSE "off"]
    /\ left = [s \in Shell |-> 0]
    /\ running = [s \in Shell |-> 0]
    /\ cur = 0 /\ empties = 0
    /\ what = [l \in Line |-> "none"]
    /\ result = [l \in Line |-> "none"]
    /\ last = [s \in Shell |-> [now |-> "ok", kept |-> "ok"]]
    /\ cmd = 0 /\ name = 0 /\ exitFile = "none"
    /\ watchers = [w \in Watcher |-> NoWatcher]
    /\ matched = [w \in Watcher |-> 0]
    /\ spawned = 0
    /\ row = NoRow

(* The line `history 1` gives is the last one this shell has been given.   *)
HistoryLine == running[level]

(* A signal before the handlers are installed kills the watcher.           *)
Gone(watcher) == [pc |-> "gone", line |-> watcher.line, clear |-> FALSE, sig |-> "none"]
Signalled(ws, w, s) ==
    CASE w = 0 -> ws
      [] w # 0 /\ ws[w].pc = "boot" -> [ws EXCEPT ![w] = Gone(@)]
      [] w # 0 /\ ws[w].pc # "boot" -> [ws EXCEPT ![w].sig = s]

Mine(w) == row = [state |-> "running", line |-> watchers[w].line]

(* The marker is there whenever a report is; in the desktop app there is   *)
(* osc-shown instead, and the hook itself clears.                          *)
Marker == ~osc /\ row # NoRow

(* _hsp_preexec with the expanded leading command, or with none.           *)
NameStays(expanded) == IF expanded # 0 THEN expanded ELSE name
NameAfter(expanded) ==
    CASE expanded # 0 -> expanded
      [] expanded = 0 /\ kind = "preexec" -> 0
      [] expanded = 0 /\ kind # "preexec" -> name

Preexec(expanded) ==
    LET w == spawned + 1
        new == [pc |-> "boot", line |-> HistoryLine, clear |-> Marker, sig |-> "none"]
    IN  /\ cmd' = HistoryLine
        /\ name' = NameAfter(expanded)
        /\ watchers' = [Signalled(watchers, pid[level], "TERM") EXCEPT ![w] = new]
        /\ pid' = [pid EXCEPT ![level] = w]
        /\ spawned' = w
        /\ row' = IF osc THEN NoRow ELSE row
        /\ UNCHANGED exitFile

(* The DEBUG trap, before a simple command that runs a program.            *)
Trap(program) ==
    IF kind = "trap" /\ armed[level]
    THEN Preexec(program) /\ armed' = [armed EXCEPT ![level] = FALSE]
    ELSE UNCHANGED <<cmd, name, exitFile, watchers, pid, spawned, row, armed>>

Quiet == \A w \in Watcher : watchers[w].pc # "boot" /\ watchers[w].sig = "none"
Go(where) == place' = [place EXCEPT ![level] = where]

(* A line is typed.  bash-preexec and zsh call the hook for it at once.    *)
TypeLine ==
    /\ at = "prompt" /\ cur < N /\ Quiet
    /\ \E k \in Lines \cup (IF level = 2 THEN {"exit"} ELSE {}) :
          /\ k = "shell" => level = 1
          /\ what' = [what EXCEPT ![cur + 1] = k]
          /\ left' = [left EXCEPT ![level] =
                        CASE k = "pipe" -> 2 [] k = "subshell" -> 0 [] OTHER -> 1]
    /\ cur' = cur + 1
    /\ running' = [running EXCEPT ![level] = cur + 1]
    /\ Go(IF kind = "trap" THEN "body" ELSE "start")
    /\ UNCHANGED <<kinds, osc, level, armed, pid, empties, result, last, fileVars,
                   watchers, matched, spawned, row>>

Start ==
    /\ at = "start"
    /\ Preexec(0)
    /\ Go("body")
    /\ UNCHANGED <<kinds, osc, level, armed, left, running, cur, empties, what,
                   result, last, matched>>

(* The next simple command of the line.  One that is a shell gives the     *)
(* terminal away; `exit` gives it back, and the exit trap signals.         *)
SimpleCommand ==
    /\ at = "body" /\ left[level] > 0
    /\ Trap(running[level])
    /\ left' = [left EXCEPT ![level] = @ - 1]
    /\ place' = IF what[running[level]] = "shell"
                THEN [place EXCEPT ![1] = "inner"] ELSE place
    /\ UNCHANGED <<kinds, osc, level, running, cur, empties, what, result, last, matched>>

InnerBegins ==
    /\ place[1] = "inner" /\ place[2] = "off" /\ Quiet
    /\ level' = 2
    /\ place' = [place EXCEPT ![2] = "capture"]
    /\ armed' = [armed EXCEPT ![2] = FALSE]
    /\ pid' = [pid EXCEPT ![2] = 0]
    /\ UNCHANGED <<kinds, osc, left, running, cur, empties, what, result, last, fileVars,
                   watchers, matched, spawned, row>>

InnerExits ==
    /\ level = 2 /\ at = "body" /\ left[2] = 0 /\ what[running[2]] = "exit"
    /\ watchers' = Signalled(watchers, pid[2], "TERM")
    /\ result' = [result EXCEPT ![running[2]] = "ok"]
    /\ level' = 1
    /\ place' = [place EXCEPT ![1] = "body", ![2] = "off"]
    /\ UNCHANGED <<kinds, osc, armed, pid, left, running, cur, empties, what, last, fileVars,
                   matched, spawned, row>>

(* The line is over.                                                       *)
LineEnds ==
    /\ at = "body" /\ left[level] = 0 /\ what[running[level]] # "exit"
    /\ \E r \in {"ok", "fail"} :
          /\ result' = [result EXCEPT ![running[level]] = r]
          /\ last' = [last EXCEPT ![level].now = r]
    /\ Go("capture")
    /\ UNCHANGED <<kinds, osc, level, armed, pid, left, running, cur, empties, what,
                   fileVars, watchers, matched, spawned, row>>

EmptyLine ==
    /\ at = "prompt" /\ empties < MaxEmpty /\ kind \in Empty /\ Quiet
    /\ empties' = empties + 1
    /\ Go("capture")
    /\ UNCHANGED <<kinds, osc, level, armed, pid, left, running, cur, what, result, last,
                   fileVars, watchers, matched, spawned, row>>

(* PROMPT_COMMAND: _hsp_capture_status, whatever else is in it, and        *)
(* _hsp_precmd.  Each is a simple command.                                 *)
CaptureArming ==
    /\ at = "capture"
    /\ armed' = [armed EXCEPT ![level] = TRUE]
    /\ UNCHANGED <<cmd, name, exitFile, watchers, pid, spawned, row>>
    /\ last' = [last EXCEPT ![level].kept = last[level].now]
    /\ Go("other")
    /\ UNCHANGED <<kinds, osc, level, left, running, cur, empties, what, result, matched>>
Capture ==
    /\ at = "capture"
    /\ Trap(Hook)
    /\ last' = [last EXCEPT ![level].kept = last[level].now]
    /\ Go("other")
    /\ UNCHANGED <<kinds, osc, level, left, running, cur, empties, what, result, matched>>

Other ==
    /\ at = "other"
    /\ Trap(Hook)
    /\ \E r \in {"ok", "fail"} : last' = [last EXCEPT ![level].now = r]
    /\ Go("precmd")
    /\ UNCHANGED <<kinds, osc, level, left, running, cur, empties, what, result, matched>>

StatusNow == last[level].now
Status == last[level].kept
FinalState == IF Status = "fail" THEN "failed" ELSE "done"

(* _hsp_precmd.  The trap does not fire inside a function, and for the     *)
(* call itself it is not armed: the entries before have seen to that.  The *)
(* prompt has the line's status in $? again.  In the desktop app `finish`  *)
(* replaces the record from here.                                          *)
Precmd ==
    /\ at = "precmd"
    /\ IF pid[level] = 0
       THEN UNCHANGED <<exitFile, watchers, pid, row>>
       ELSE /\ exitFile' = Status
            /\ row' = IF osc /\ Mine(pid[level]) THEN [row EXCEPT !.state = FinalState]
                      ELSE row
            /\ watchers' = Signalled(watchers, pid[level], "USR1")
            /\ pid' = [pid EXCEPT ![level] = 0]
    /\ armed' = [armed EXCEPT ![level] = TRUE]
    /\ last' = [last EXCEPT ![level].now = last[level].kept]
    /\ Go("prompt")
    /\ UNCHANGED <<kinds, osc, level, left, running, cur, empties, what, result,
                   cmd, name, matched, spawned>>

ShellStep == TypeLine \/ Start \/ SimpleCommand \/ InnerBegins \/ InnerExits
                \/ LineEnds \/ EmptyLine \/ Capture \/ Other \/ Precmd
-----------------------------------------------------------------------------
(* The watcher.  It reads `cmd` and consumes `name`, installs its handlers *)
(* and clears; the ignore list has the shells.                             *)
IgnoreName == IF name # 0 THEN name ELSE cmd
IgnoredNone(p) == FALSE
Ignored(p) == p \in Line /\ what[p] = "shell"

Boot(w) ==
    /\ watchers[w].pc = "boot"
    /\ matched' = [matched EXCEPT ![w] = IgnoreName]
    /\ name' = 0
    /\ row' = IF watchers[w].clear THEN NoRow ELSE row
    /\ watchers' = [watchers EXCEPT ![w].clear = FALSE, ![w].pc =
                      IF Ignored(IgnoreName) THEN "parked" ELSE "up"]
    /\ UNCHANGED <<shellVars, cmd, exitFile, spawned>>

(* The threshold passes before a signal comes.                             *)
Report(w) ==
    /\ watchers[w].pc = "up" /\ watchers[w].sig = "none"
    /\ row' = [state |-> "running", line |-> watchers[w].line]
    /\ UNCHANGED <<shellVars, fileVars, watchers, matched, spawned>>

(* SIGUSR1 or SIGTERM.  A success is shown for a while, then released.     *)
Finish(w) ==
    /\ watchers[w].pc \in {"up", "parked"} /\ watchers[w].sig # "none"
    /\ row' = IF osc \/ watchers[w].pc = "parked" \/ ~Mine(w) THEN row
              ELSE IF watchers[w].sig = "USR1" /\ exitFile = "fail"
                   THEN [row EXCEPT !.state = "failed"] ELSE NoRow
    /\ watchers' = [watchers EXCEPT ![w] = Gone(@)]
    /\ matched' = [matched EXCEPT ![w] = 0]
    /\ UNCHANGED <<shellVars, fileVars, spawned>>

WatcherStep(w) == Boot(w) \/ Report(w) \/ Finish(w)

Next == ShellStep \/ \E w \in Watcher : WatcherStep(w)

Spec == Init /\ [][Next]_vars
-----------------------------------------------------------------------------
(* One watcher for a command line, whatever it consists of and whatever is *)
(* in PROMPT_COMMAND (init.bash:30-33; the tests in tests/hooks.rs).       *)
OnePerLine ==
    \A v, w \in Watcher :
        watchers[v].line = watchers[w].line /\ watchers[v].line # 0 => v = w

(* What is matched against the ignore list is never the program of another *)
(* line: neither one a killed watcher left in `name` nor one from the      *)
(* other shell (watch.rs:97-100).                                          *)
OwnProgram ==
    \A w \in Watcher :
        watchers[w].pc \in {"up", "parked"} => matched[w] \in {watchers[w].line, Hook}

(* A failure label is about a line that failed: the status is the line's,  *)
(* not that of an entry of PROMPT_COMMAND (init.bash:125-128).             *)
LabelTrue == row.state = "failed" /\ row.line # 0 => result[row.line] = "fail"

(* A failure label stays until the next command (README.md:22).            *)
LabelStands == [][row.state = "failed" /\ row' # row => cur > row.line]_vars

(* The report of a command stands while the command runs; the lines of a   *)
(* shell inside it do not clear it (config.rs:50-53).                      *)
ReservationStands ==
    [][row.state = "running" /\ row.line # 0 /\ row' # row
         => result'[row.line] # "none"]_vars
=============================================================================
