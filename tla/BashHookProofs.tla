--------------------------- MODULE BashHookProofs ---------------------------
(***************************************************************************)
(* The invariants of BashHook, for any number of lines of any kinds typed  *)
(* into any pair of shells.  An empty line under the plain DEBUG trap      *)
(* starts a watcher for no command, so the shells in which empty lines are *)
(* entered do not use it.  The second layer, from FitInv on, is about      *)
(* pairs of shells that agree on whether `name` is written.                *)
(***************************************************************************)
EXTENDS BashHook, TLAPS

(* The next simple command, or start itself, is about to start a watcher.  *)
About ==
    \/ at = "start"
    \/ kind = "trap" /\ armed[level] /\ at \in {"body", "capture"}

WatcherRecord == [pc : {"none", "boot", "up", "parked", "gone"}, line : 0..N,
                  clear : BOOLEAN, sig : {"none", "TERM", "USR1"}]
StatusRecord == [now : {"ok", "fail"}, kept : {"ok", "fail"}]
RowRecord == [state : {"none", "running", "failed", "done"}, line : 0..N]
Held == 0..(N + MaxEmpty)
Place == {"off", "prompt", "start", "body", "inner", "capture", "other", "precmd"}

Types ==
    /\ kinds \in Shells /\ osc \in BOOLEAN /\ level \in Shell
    /\ armed \in [Shell -> BOOLEAN] /\ pid \in [Shell -> Held] /\ place \in [Shell -> Place]
    /\ left \in [Shell -> Nat] /\ cur \in 0..N /\ running \in [Shell -> 0..cur]
    /\ what \in [Line -> {"none", "exit"} \cup Lines]
    /\ result \in [Line -> {"none", "ok", "fail"}]
    /\ last \in [Shell -> StatusRecord]
    /\ cmd \in 0..N /\ name \in 0..Hook /\ exitFile \in {"none", "ok", "fail"}
    /\ watchers \in [Watcher -> WatcherRecord] /\ matched \in [Watcher -> 0..Hook]
    /\ spawned \in 0..cur /\ row \in RowRecord

(* Where the two shells are, and what they are at.                         *)
PlaceInv ==
    /\ level = 1 => place[1] # "off" /\ place[2] = "off"
    /\ level = 2 => place[1] = "inner" /\ place[2] \notin {"off", "inner"}
    /\ place[1] = "inner" =>
          /\ running[1] \in Line /\ what[running[1]] = "shell" /\ result[running[1]] = "none"
          /\ kinds[1] = "trap" => ~armed[1]
    /\ level = 2 /\ at \in {"start", "body"} => running[1] < running[2]
    /\ at \in {"start", "body"} => running[level] \in Line /\ result[running[level]] = "none"
    /\ at = "start" => kind # "trap"
    /\ at = "other" /\ kind = "trap" => ~armed[level]
    /\ About => running[level] = cur /\ cur \in Line
    /\ About /\ (at = "capture" \/ (at = "body" /\ left[level] = 0)) => what[cur] # "shell"
    /\ \A l \in Line : l > cur => result[l] = "none"

(* Every line typed has at most one watcher, and none while one is about   *)
(* to be started for it.                                                   *)
SpawnInv ==
    /\ \A w \in Watcher :
          /\ w > spawned => watchers[w] = NoWatcher
          /\ w <= spawned => watchers[w].pc # "none" /\ watchers[w].line \in 1..cur
          /\ watchers[w].pc = "boot" => w = spawned /\ watchers[w].line = cur
    /\ OnePerLine
    /\ About => /\ spawned < cur /\ pid[level] = 0
                /\ \A w \in Watcher : watchers[w].line # cur /\ watchers[w].pc # "boot"

(* The watcher a shell will signal is that of its line, and alive.         *)
HeldInv ==
    /\ \A s \in Shell : place[s] # "off" /\ pid[s] # 0 =>
          /\ pid[s] <= spawned /\ watchers[pid[s]].line = running[s]
          /\ place[s] \notin {"prompt", "start"}
          /\ watchers[pid[s]].pc \in {"boot", "up", "parked"} /\ watchers[pid[s]].sig = "none"
    /\ level = 2 /\ pid[2] # 0 => pid[1] # pid[2]

(* The status on its way from the line to the label.                       *)
StatusInv ==
    /\ pid[level] # 0 \/ About => (at = "capture" => last[level].now = result[running[level]])
    /\ pid[level] # 0 /\ at \in {"other", "precmd"} => last[level].kept = result[running[level]]
    /\ \A w \in Watcher :
          /\ watchers[w].sig # "none" => watchers[w].pc \in {"up", "parked"}
          /\ watchers[w].sig = "USR1" => at = "prompt" /\ exitFile = result[watchers[w].line]
    /\ row.line \in 0..cur
    /\ LabelTrue

LineInv == Types /\ PlaceInv /\ SpawnInv /\ HeldInv /\ StatusInv

(* What is in `name` while a watcher has not read it.                      *)
NameInv ==
    /\ kinds[1] = "zsh" => name = 0
    /\ \A w \in Watcher :
         /\ watchers[w].pc = "up" => what[watchers[w].line] # "shell"
         /\ watchers[w].pc = "boot" => \/ name = 0 /\ cmd = watchers[w].line
                                       \/ name = watchers[w].line
                                       \/ name = Hook /\ what[watchers[w].line] # "shell"
    /\ OwnProgram

(* The only watcher that may report is that of the shell that has the      *)
(* terminal, and it is of the line typed last.                             *)
ReportInv ==
    /\ \A w \in Watcher :
          watchers[w].pc \in {"boot", "up"} /\ watchers[w].sig = "none" => pid[level] = w
    /\ pid[level] # 0 /\ running[level] # cur => what[running[level]] = "shell"

RowInv ==
    /\ row.line = 0 <=> row.state = "none"
    /\ row.line # 0 =>
        /\ \A w \in Watcher : watchers[w].line = row.line => watchers[w].pc # "boot"
        /\ About => row.line # cur
        /\ row.state = "running" /\ result[row.line] = "none" =>
              /\ pid[level] # 0 /\ watchers[pid[level]].line = row.line
              /\ watchers[pid[level]].pc = "up"
        /\ row.state # "running" =>
              \A w \in Watcher : watchers[w].line = row.line =>
                  watchers[w].pc = "gone" \/ watchers[w].sig # "none"

FitInv == NameInv /\ ReportInv /\ RowInv
-----------------------------------------------------------------------------
LEMMA Constants ==
  /\ N \in Nat /\ MaxEmpty \in Nat /\ Hook \in Nat /\ Hook \notin Line /\ Hook # 0
  /\ Line = 1..N /\ Watcher = 1..(N + MaxEmpty) /\ Shell = {1, 2}
BY HookAssumption DEF Hook, Line, Watcher, Shell

(* What a signal does: nothing but to the watcher it is sent to, and that  *)
(* one keeps its line.                                                     *)
LEMMA SignalledIs ==
  ASSUME NEW ws \in [Watcher -> WatcherRecord], NEW w \in {0} \cup Watcher,
         NEW s \in {"TERM", "USR1"}
  PROVE  /\ Signalled(ws, w, s) \in [Watcher -> WatcherRecord]
         /\ \A v \in Watcher : v # w => Signalled(ws, w, s)[v] = ws[v]
         /\ w # 0 => /\ Signalled(ws, w, s)[w].line = ws[w].line
                     /\ ws[w].pc = "boot" =>
                          /\ Signalled(ws, w, s)[w].pc = "gone"
                          /\ Signalled(ws, w, s)[w].sig = "none"
                     /\ ws[w].pc # "boot" =>
                          /\ Signalled(ws, w, s)[w].pc = ws[w].pc
                          /\ Signalled(ws, w, s)[w].sig = s
         /\ w = 0 => Signalled(ws, w, s) = ws
<1>1. CASE w = 0
  BY <1>1, Constants DEF Signalled
<1>2. CASE w # 0 /\ ws[w].pc = "boot"
  <2>1. Signalled(ws, w, s) =
          [ws EXCEPT ![w] = [pc |-> "gone", line |-> ws[w].line, clear |-> FALSE, sig |-> "none"]]
    BY <1>2 DEF Signalled, Gone
  <2> QED
    BY <1>2, <2>1 DEF WatcherRecord
<1>3. CASE w # 0 /\ ws[w].pc # "boot"
  <2>1. Signalled(ws, w, s) = [ws EXCEPT ![w].sig = s]
    BY <1>3 DEF Signalled
  <2> QED
    BY <1>3, <2>1 DEF WatcherRecord
<1> QED
  BY <1>1, <1>2, <1>3

(* A watcher is started: for the line typed last, and nobody is signalled. *)
LEMMA PreexecIs ==
  ASSUME LineInv, About, NEW p \in 0..Hook, Preexec(p)
  PROVE  /\ spawned + 1 \in Watcher /\ spawned' = spawned + 1 /\ spawned < cur
         /\ watchers[spawned + 1] = NoWatcher
         /\ watchers' = [watchers EXCEPT ![spawned + 1] =
                           [pc |-> "boot", line |-> cur, clear |-> Marker, sig |-> "none"]]
         /\ pid' = [pid EXCEPT ![level] = spawned + 1]
         /\ cmd' = cur /\ name' \in {p, 0, name} /\ name' = NameAfter(p)
         /\ row' = IF osc THEN NoRow ELSE row
         /\ exitFile' = exitFile
<1>1. spawned \in Nat /\ spawned < cur /\ pid[level] = 0 /\ cur \in 1..N /\ running[level] = cur
  BY Constants DEF LineInv, SpawnInv, Types, PlaceInv
<1>2. spawned + 1 \in Watcher /\ spawned + 1 > spawned
  BY <1>1, Constants
<1>3. watchers[spawned + 1] = NoWatcher
  BY <1>2 DEF LineInv, SpawnInv
<1>4. Signalled(watchers, pid[level], "TERM") = watchers
  BY <1>1 DEF Signalled
<1>5. name' \in {p, 0, name} /\ name' = NameAfter(p)
  BY DEF Preexec, NameAfter
<1> QED
  BY <1>1, <1>2, <1>3, <1>4, <1>5 DEF Preexec, HistoryLine

LEMMA SignalledKeeps ==
  ASSUME NEW ws \in [Watcher -> WatcherRecord], NEW w \in {0} \cup Watcher,
         NEW s \in {"TERM", "USR1"}
  PROVE  \A v \in Watcher :
            /\ Signalled(ws, w, s)[v].line = ws[v].line
            /\ Signalled(ws, w, s)[v].pc \in {ws[v].pc, "gone"}
            /\ v # w => Signalled(ws, w, s)[v] = ws[v]
<1> SUFFICES ASSUME NEW v \in Watcher
             PROVE  /\ Signalled(ws, w, s)[v].line = ws[v].line
                    /\ Signalled(ws, w, s)[v].pc \in {ws[v].pc, "gone"}
                    /\ v # w => Signalled(ws, w, s)[v] = ws[v]
  OBVIOUS
<1>1. CASE v # w
  BY <1>1, SignalledIs
<1>2. CASE v = w
  <2>1. w # 0
    BY <1>2, Constants
  <2> QED
    BY <1>2, <2>1, SignalledIs
<1> QED
  BY <1>1, <1>2

LEMMA SignalledEnds ==
  ASSUME NEW ws \in [Watcher -> WatcherRecord], NEW w \in {0} \cup Watcher,
         NEW s \in {"TERM", "USR1"}
  PROVE  w # 0 => Signalled(ws, w, s)[w].pc = "gone" \/ Signalled(ws, w, s)[w].sig = s
<1>1. CASE w # 0 /\ ws[w].pc = "boot"
  BY <1>1, SignalledIs
<1>2. CASE w # 0 /\ ws[w].pc # "boot"
  BY <1>2, SignalledIs
<1> QED
  BY <1>1, <1>2

LEMMA InitLine == Init => LineInv
<1> SUFFICES ASSUME Init PROVE LineInv
  OBVIOUS
<1> USE Constants
<1>1. Types
  <2>1. last \in [Shell -> StatusRecord] /\ watchers \in [Watcher -> WatcherRecord] /\ row \in RowRecord
    BY DEF Init, StatusRecord, WatcherRecord, RowRecord, NoWatcher, NoRow
  <2>2. pid \in [Shell -> Held] /\ place \in [Shell -> Place]
    BY DEF Init, Held, Place
  <2>3. armed \in [Shell -> BOOLEAN] /\ left \in [Shell -> Nat] /\ running \in [Shell -> 0..cur]
    BY DEF Init
  <2>4. /\ what \in [Line -> {"none", "exit"} \cup Lines]
        /\ result \in [Line -> {"none", "ok", "fail"}] /\ matched \in [Watcher -> 0..Hook]
    BY DEF Init, Hook
  <2>5. /\ kinds \in Shells /\ osc \in BOOLEAN /\ level \in Shell /\ cur \in 0..N
        /\ cmd \in 0..N /\ name \in 0..Hook /\ exitFile \in {"none", "ok", "fail"}
        /\ spawned \in 0..cur
    BY DEF Init
  <2> QED
    BY <2>1, <2>2, <2>3, <2>4, <2>5 DEF Types
<1>2. ~About
  <2>1. level = 1 /\ place[1] = "capture" /\ armed[1] = FALSE
    BY DEF Init
  <2> QED
    BY <2>1, Zenon DEF About, at
<1>5. PlaceInv
  <2>1. level = 1 /\ place[1] = "capture" /\ place[2] = "off" /\ \A l \in Line : result[l] = "none"
    BY DEF Init
  <2> QED
    BY <2>1, <1>2 DEF PlaceInv, at
<1>3. SpawnInv
  BY <1>2 DEF Init, SpawnInv, OnePerLine, NoWatcher
<1>4. HeldInv /\ StatusInv
  BY <1>2 DEF Init, HeldInv, StatusInv, NoWatcher, NoRow, LabelTrue
<1> QED
  BY <1>1, <1>5, <1>3, <1>4 DEF LineInv

-----------------------------------------------------------------------------
(* The types.                                                              *)

LEMMA PreexecTypes ==
  ASSUME LineInv, About, NEW p \in 1..Hook, Preexec(p) \/ Preexec(0)
  PROVE  /\ cmd' \in 0..N /\ name' \in 0..Hook /\ exitFile' = exitFile
         /\ watchers' \in [Watcher -> WatcherRecord]
         /\ pid' \in [Shell -> Held] /\ spawned' \in 0..cur
         /\ row' \in RowRecord
<1> USE Constants
<1>1. PICK q \in 0..Hook : Preexec(q)
  BY Constants
<1>2. Marker \in BOOLEAN
  BY DEF Marker
<1>3. [pc |-> "boot", line |-> cur, clear |-> Marker, sig |-> "none"] \in WatcherRecord
  BY <1>2 DEF WatcherRecord, LineInv, Types
<1>5. /\ cmd' = cur /\ name' \in {q, 0, name} /\ row' \in {row, NoRow} /\ spawned' = spawned + 1
      /\ spawned < cur /\ spawned + 1 \in Watcher
  BY <1>1, PreexecIs
<1>4. row' \in RowRecord
  BY <1>5 DEF LineInv, Types, NoRow, RowRecord
<1>6. watchers \in [Watcher -> WatcherRecord]
  BY DEF LineInv, Types, WatcherRecord
<1>7. watchers' \in [Watcher -> WatcherRecord]
  BY <1>1, <1>3, <1>6, PreexecIs
<1>8. pid' \in [Shell -> Held] /\ exitFile' = exitFile
  <2>1. pid' = [pid EXCEPT ![level] = spawned + 1] /\ exitFile' = exitFile
    BY <1>1, PreexecIs
  <2>2. spawned + 1 \in Held /\ pid \in [Shell -> Held]
    BY <1>5 DEF LineInv, Types, Held
  <2> QED
    BY <2>1, <2>2
<1>9. cmd' \in 0..N /\ name' \in 0..Hook /\ spawned' \in 0..cur
  <2>1. cur \in 0..N /\ name \in 0..Hook /\ spawned \in 0..cur
    BY DEF LineInv, Types
  <2> QED
    BY <1>5, <2>1
<1> QED
  BY <1>4, <1>7, <1>8, <1>9

LEMMA TrapTypes ==
  ASSUME LineInv, NEW p \in 1..Hook, Trap(p), at \in {"body", "capture"}
  PROVE  /\ cmd' \in 0..N /\ name' \in 0..Hook /\ exitFile' = exitFile
         /\ watchers' \in [Watcher -> WatcherRecord]
         /\ pid' \in [Shell -> Held] /\ spawned' \in 0..cur
         /\ row' \in RowRecord
         /\ armed' \in [Shell -> BOOLEAN]
<1>1. CASE kind = "trap" /\ armed[level]
  <2>1. About /\ Preexec(p) /\ armed' = [armed EXCEPT ![level] = FALSE]
    BY <1>1 DEF Trap, About
  <2>2. armed' \in [Shell -> BOOLEAN]
    BY <2>1 DEF LineInv, Types
  <2> QED
    BY <2>1, <2>2, PreexecTypes
<1>2. CASE ~(kind = "trap" /\ armed[level])
  BY <1>2, Constants DEF Trap, LineInv, Types
<1> QED
  BY <1>1, <1>2

(* After _hsp_capture_status the trap is not armed: the user's entries of   *)
(* PROMPT_COMMAND start no watcher.                                        *)
LEMMA OtherSilent ==
  ASSUME LineInv, Other
  PROVE  UNCHANGED <<cmd, name, exitFile, watchers, pid, spawned, row, armed>>
<1>1. ~(kind = "trap" /\ armed[level]) /\ Trap(Hook)
  BY Zenon DEF LineInv, PlaceInv, Other
<1> QED
  BY <1>1, Zenon DEF Trap

LEMMA NextTypes == LineInv /\ [Next]_vars => Types'
<1> SUFFICES ASSUME LineInv, [Next]_vars PROVE Types'
  OBVIOUS
<1> USE Constants DEF shellVars, fileVars, at, kind, Go
<1>0. Types
  BY DEF LineInv
<1>1. CASE TypeLine
  <2>1. \A k \in Lines \cup (IF level = 2 THEN {"exit"} ELSE {}) :
          /\ [what EXCEPT ![cur + 1] = k] \in [Line -> {"none", "exit"} \cup Lines]
          /\ [left EXCEPT ![level] = CASE k = "pipe" -> 2 [] k = "subshell" -> 0 [] OTHER -> 1]
                \in [Shell -> Nat]
    BY <1>0 DEF Types
  <2>2. what' \in [Line -> {"none", "exit"} \cup Lines] /\ left' \in [Shell -> Nat]
    BY <1>1, <2>1 DEF TypeLine
  <2>3. running' \in [Shell -> 0..cur'] /\ cur' \in 0..N /\ spawned \in 0..cur'
    BY <1>0, <1>1 DEF TypeLine, Types
  <2>4. place' \in [Shell -> Place]
    BY <1>0, <1>1 DEF TypeLine, Types, Place
  <2> QED
    BY <1>0, <1>1, <2>2, <2>3, <2>4 DEF TypeLine, Types
<1>2. CASE Start
  <2>1. About /\ Preexec(0) /\ 1 \in 1..Hook
    BY <1>2 DEF Start, About, Hook
  <2>2. place' \in [Shell -> Place]
    BY <1>0, <1>2 DEF Start, Types, Place
  <2> QED
    BY <1>0, <1>2, <2>1, <2>2, PreexecTypes DEF Start, Types
<1>3. CASE SimpleCommand
  <2>1. Trap(running[level]) /\ running[level] \in 1..Hook
    BY <1>3 DEF SimpleCommand, LineInv, PlaceInv, Hook
  <2>2. place' \in [Shell -> Place] /\ left' \in [Shell -> Nat]
    BY <1>0, <1>3 DEF SimpleCommand, Types, Place
  <2> QED
    BY <1>0, <1>3, <2>1, <2>2, TrapTypes DEF SimpleCommand, Types
<1>4. CASE InnerBegins
  <2>1. place' \in [Shell -> Place] /\ armed' \in [Shell -> BOOLEAN] /\ pid' \in [Shell -> Held]
    BY <1>0, <1>4 DEF InnerBegins, Types, Place, Held
  <2> QED
    BY <1>0, <1>4, <2>1 DEF InnerBegins, Types
<1>5. CASE InnerExits
  <2>1. watchers' \in [Watcher -> WatcherRecord]
    <3>1. pid[2] \in {0} \cup Watcher /\ watchers \in [Watcher -> WatcherRecord]
      BY <1>0 DEF Types, Held
    <3>2. watchers' = Signalled(watchers, pid[2], "TERM")
      BY <1>5 DEF InnerExits
    <3> QED
      BY <3>1, <3>2, SignalledIs
  <2>2. place' \in [Shell -> Place] /\ result' \in [Line -> {"none", "ok", "fail"}]
    BY <1>0, <1>5 DEF InnerExits, Types, Place
  <2> QED
    BY <1>0, <1>5, <2>1, <2>2 DEF InnerExits, Types
<1>6. CASE LineEnds
  <2>1. place' \in [Shell -> Place] /\ result' \in [Line -> {"none", "ok", "fail"}]
    BY <1>0, <1>6 DEF LineEnds, Types, Place
  <2>2. last' \in [Shell -> StatusRecord]
    <3>1. \A r \in {"ok", "fail"} : [last EXCEPT ![level].now = r] \in [Shell -> StatusRecord]
      BY <1>0 DEF Types, StatusRecord
    <3> QED
      BY <1>6, <3>1 DEF LineEnds
  <2> QED
    BY <1>0, <1>6, <2>1, <2>2 DEF LineEnds, Types
<1>7. CASE EmptyLine
  <2>1. place' \in [Shell -> Place]
    BY <1>0, <1>7 DEF EmptyLine, Types, Place
  <2> QED
    BY <1>0, <1>7, <2>1 DEF EmptyLine, Types
<1>8. CASE Capture
  <2>1. Trap(Hook) /\ Hook \in 1..Hook
    BY <1>8 DEF Capture, Hook
  <2>2. place' \in [Shell -> Place]
    BY <1>0, <1>8 DEF Capture, Types, Place
  <2>3. last' \in [Shell -> StatusRecord]
    BY <1>0, <1>8 DEF Capture, Types, StatusRecord
  <2> QED
    BY <1>0, <1>8, <2>1, <2>2, <2>3, TrapTypes DEF Capture, Types
<1>9. CASE Other
  <2>1. UNCHANGED <<cmd, name, exitFile, watchers, pid, spawned, row, armed>>
    BY <1>9, OtherSilent
  <2>2. place' \in [Shell -> Place]
    BY <1>0, <1>9 DEF Other, Types, Place
  <2>3. last' \in [Shell -> StatusRecord]
    <3>1. \A r \in {"ok", "fail"} : [last EXCEPT ![level].now = r] \in [Shell -> StatusRecord]
      BY <1>0 DEF Types, StatusRecord
    <3> QED
      BY <1>9, <3>1 DEF Other
  <2> QED
    BY <1>0, <1>9, <2>1, <2>2, <2>3 DEF Other, Types
<1>10. CASE Precmd
  <2>1. place' \in [Shell -> Place] /\ armed' \in [Shell -> BOOLEAN]
    BY <1>0, <1>10 DEF Precmd, Types, Place
  <2>2. last' \in [Shell -> StatusRecord] /\ last[level].kept \in {"ok", "fail"}
    BY <1>0, <1>10 DEF Precmd, Types, StatusRecord
  <2>3. CASE pid[level] = 0
    BY <1>0, <1>10, <2>1, <2>2, <2>3 DEF Precmd, Types
  <2>4. CASE pid[level] # 0
    <3>1. watchers' \in [Watcher -> WatcherRecord]
      BY <1>0, <1>10, <2>4, SignalledIs DEF Precmd, Types, Held
    <3>2. row' \in RowRecord
      BY <1>0, <1>10, <2>4 DEF Precmd, Types, RowRecord, FinalState
    <3>3. pid' \in [Shell -> Held]
      BY <1>0, <1>10, <2>4 DEF Precmd, Types, Held
    <3> QED
      BY <1>0, <1>10, <2>1, <2>2, <2>4, <3>1, <3>2, <3>3 DEF Precmd, Types, Status
  <2> QED
    BY <2>3, <2>4
<1>11. ASSUME NEW w \in Watcher, WatcherStep(w) PROVE Types'
  <2>1. CASE Boot(w)
    <3>1. watchers' \in [Watcher -> WatcherRecord]
      BY <1>0, <2>1 DEF Boot, Types, WatcherRecord
    <3>2. row' \in RowRecord /\ matched' \in [Watcher -> 0..Hook] /\ name' \in 0..Hook
      BY <1>0, <2>1 DEF Boot, Types, IgnoreName, NoRow, RowRecord, Hook
    <3> QED
      BY <1>0, <2>1, <3>1, <3>2 DEF Boot, Types
  <2>2. CASE Report(w)
    <3>1. watchers[w].line \in 0..N
      BY <1>0 DEF Types, WatcherRecord
    <3>2. row' \in RowRecord
      BY <2>2, <3>1 DEF Report, RowRecord
    <3> QED
      BY <1>0, <2>2, <3>2 DEF Report, Types
  <2>3. CASE Finish(w)
    <3>1. row' \in RowRecord
      <4>1. row \in RowRecord /\ NoRow \in RowRecord
        BY <1>0 DEF Types, NoRow, RowRecord
      <4>2. [row EXCEPT !.state = "failed"] \in RowRecord
        BY <4>1 DEF RowRecord
      <4> QED
        BY <2>3, <4>1, <4>2 DEF Finish
    <3>2. watchers' \in [Watcher -> WatcherRecord]
      BY <1>0, <2>3 DEF Finish, Types, Gone, WatcherRecord
    <3>3. matched' \in [Watcher -> 0..Hook]
      BY <1>0, <2>3 DEF Finish, Types, Hook
    <3> QED
      BY <1>0, <2>3, <3>1, <3>2, <3>3 DEF Finish, Types
  <2> QED
    BY <1>11, <2>1, <2>2, <2>3 DEF WatcherStep
<1>12. CASE UNCHANGED vars
  BY <1>0, <1>12 DEF vars, Types
<1> QED
  BY <1>1, <1>2, <1>3, <1>4, <1>5, <1>6, <1>7, <1>8, <1>9, <1>10, <1>11, <1>12
     DEF Next, ShellStep

-----------------------------------------------------------------------------
(* The places of the two shells.                                           *)

(* Once the trap has had its say it is not armed.                          *)
LEMMA TrapDisarms ==
  ASSUME LineInv, NEW p, Trap(p)
  PROVE  /\ kind = "trap" => ~armed'[level]
         /\ \A s \in Shell : s # level => armed'[s] = armed[s]
<1>1. armed \in [Shell -> BOOLEAN] /\ level \in Shell
  BY DEF LineInv, Types
<1>2. CASE kind = "trap" /\ armed[level]
  BY <1>1, <1>2 DEF Trap
<1>3. CASE ~(kind = "trap" /\ armed[level])
  BY <1>1, <1>3, Zenon DEF Trap
<1> QED
  BY <1>2, <1>3

LEMMA NextPlace ==
  ASSUME "trap" \notin Empty, LineInv, [Next]_vars
  PROVE  PlaceInv'
<1> USE Constants DEF shellVars, at, kind, Go
<1>0. Types /\ PlaceInv
  BY DEF LineInv
<1>1. CASE TypeLine
  BY <1>0, <1>1 DEF TypeLine, Types, PlaceInv, About
<1>2. CASE Start
  BY <1>0, <1>2 DEF Start, Preexec, Types, PlaceInv, About
<1>3. CASE SimpleCommand
  BY <1>0, <1>3, TrapDisarms DEF SimpleCommand, Types, PlaceInv, About
<1>4. CASE InnerBegins
  BY <1>0, <1>4 DEF InnerBegins, Types, PlaceInv, About
<1>5. CASE InnerExits
  BY <1>0, <1>5 DEF InnerExits, Types, PlaceInv, About
<1>6. CASE LineEnds
  BY <1>0, <1>6 DEF LineEnds, Types, PlaceInv, About
<1>7. CASE EmptyLine
  BY <1>0, <1>7 DEF EmptyLine, Types, PlaceInv, About
<1>8. CASE Capture
  BY <1>0, <1>8, TrapDisarms DEF Capture, Types, PlaceInv, About
<1>9. CASE Other
  BY <1>0, <1>9, OtherSilent DEF Other, Types, PlaceInv, About
<1>10. CASE Precmd
  BY <1>0, <1>10 DEF Precmd, Types, PlaceInv, About
<1>11. CASE UNCHANGED <<shellVars>> \/ UNCHANGED vars
  BY <1>0, <1>11 DEF PlaceInv, About, vars
<1> QED
  BY <1>1, <1>2, <1>3, <1>4, <1>5, <1>6, <1>7, <1>8, <1>9, <1>10, <1>11
     DEF Next, ShellStep, WatcherStep, Boot, Report, Finish

-----------------------------------------------------------------------------
(* One watcher for a line, and the one the shell holds.                    *)

(* A fire of the trap, or none.                                            *)
LEMMA TrapIs ==
  ASSUME LineInv, NEW p \in 1..Hook, Trap(p), at \in {"body", "capture"}
  PROVE  \/ About /\ Preexec(p) /\ armed' = [armed EXCEPT ![level] = FALSE]
         \/ ~About /\ UNCHANGED <<cmd, name, exitFile, watchers, pid, spawned, row, armed>>
BY Zenon DEF Trap, About

(* What a new watcher does to the two invariants, wherever the shell goes  *)
(* from there, as long as nothing more is about to be started.             *)
LEMMA PreexecKeeps ==
  ASSUME LineInv, About, NEW p \in 0..Hook, Preexec(p), ~About',
         UNCHANGED <<kinds, osc, level, running, cur, what, result>>,
         place' \in [Shell -> Place],
         place'[level] \notin {"off", "prompt", "start"},
         \A s \in Shell : s # level => place'[s] = place[s] \/ (place'[s] = "inner" /\ place[s] # "off")
  PROVE  SpawnInv' /\ HeldInv'
<1> USE Constants
<1>1. Types /\ PlaceInv /\ SpawnInv /\ HeldInv
  BY DEF LineInv
<1>2. /\ spawned + 1 \in Watcher /\ spawned' = spawned + 1 /\ spawned < cur /\ spawned \in Nat
      /\ watchers' = [watchers EXCEPT ![spawned + 1] =
                        [pc |-> "boot", line |-> cur, clear |-> Marker, sig |-> "none"]]
      /\ pid' = [pid EXCEPT ![level] = spawned + 1]
  BY <1>1, PreexecIs DEF Types
<1>3. cur \in 1..N /\ running[level] = cur /\ level \in Shell
      /\ \A w \in Watcher : watchers[w].line # cur /\ watchers[w].pc # "boot"
  BY <1>1 DEF PlaceInv, SpawnInv, Types
<1>4. /\ \A w \in Watcher : w # spawned + 1 => watchers'[w] = watchers[w]
      /\ watchers'[spawned + 1].pc = "boot" /\ watchers'[spawned + 1].line = cur
      /\ watchers'[spawned + 1].sig = "none"
  BY <1>1, <1>2 DEF Types
<1>5. SpawnInv'
  <2>1. OnePerLine'
    BY <1>1, <1>3, <1>4 DEF SpawnInv, OnePerLine
  <2> QED
    BY <1>1, <1>2, <1>3, <1>4, <2>1 DEF SpawnInv
<1>6. HeldInv'
  <2>1. /\ pid'[level] = spawned + 1
        /\ \A s \in Shell : s # level => pid'[s] = pid[s]
        /\ \A s \in Shell : pid[s] \in Nat
    BY <1>1, <1>2 DEF Types, Held
  <2>2. ASSUME NEW s \in Shell, place'[s] # "off", pid'[s] # 0
        PROVE  /\ pid'[s] <= spawned' /\ watchers'[pid'[s]].line = running'[s]
               /\ place'[s] \notin {"prompt", "start"}
               /\ watchers'[pid'[s]].pc \in {"boot", "up", "parked"}
               /\ watchers'[pid'[s]].sig = "none"
    <3>1. CASE s = level
      BY <1>2, <1>3, <1>4, <2>1, <3>1
    <3>2. CASE s # level
      <4>1. /\ place[s] # "off" /\ pid[s] # 0 /\ pid'[s] = pid[s] /\ pid[s] <= spawned
            /\ pid[s] \in Watcher
        BY <1>1, <1>2, <2>1, <2>2, <3>2 DEF HeldInv
      <4> QED
        BY <1>1, <1>2, <1>4, <2>2, <3>2, <4>1 DEF HeldInv
    <3> QED
      BY <3>1, <3>2
  <2>3. level' = 2 /\ pid'[2] # 0 => pid'[1] # pid'[2]
    <3>1. CASE level = 2
      <4>1. pid[1] # 0 => pid[1] <= spawned
        BY <1>1, <3>1 DEF HeldInv, PlaceInv
      <4> QED
        BY <1>2, <2>1, <3>1, <4>1
    <3> QED
      BY <3>1, <1>3
  <2> QED
    BY <2>2, <2>3 DEF HeldInv
<1> QED
  BY <1>5, <1>6

LEMMA NextSpawn ==
  ASSUME "trap" \notin Empty, LineInv, [Next]_vars
  PROVE  SpawnInv' /\ HeldInv'
<1> USE Constants DEF shellVars, fileVars, at, kind, Go
<1>0. Types /\ PlaceInv /\ SpawnInv /\ HeldInv
  BY DEF LineInv
<1>1. CASE TypeLine
  <2>1. SpawnInv'
    <3>1. OnePerLine' /\ cur' = cur + 1 /\ UNCHANGED <<level, pid, watchers, spawned>>
      BY <1>0, <1>1 DEF TypeLine, SpawnInv, OnePerLine
    <3>2. /\ pid[level] = 0 /\ spawned < cur'
          /\ \A w \in Watcher : watchers[w].line # cur' /\ watchers[w].pc # "boot"
      <4>1. pid[level] = 0
        BY <1>0, <1>1 DEF TypeLine, Types, HeldInv
      <4>2. ASSUME NEW w \in Watcher PROVE watchers[w].line # cur + 1
        BY <1>0 DEF Types, SpawnInv, NoWatcher
      <4> QED
        BY <1>0, <1>1, <3>1, <4>1, <4>2 DEF TypeLine, Quiet, Types
    <3>3. ASSUME NEW w \in Watcher
          PROVE  /\ w > spawned => watchers[w] = NoWatcher
                 /\ w <= spawned => watchers[w].pc # "none" /\ watchers[w].line \in 1..cur'
      BY <1>0, <3>1 DEF SpawnInv, Types
    <3> QED
      BY <3>1, <3>2, <3>3 DEF SpawnInv
  <2>2. HeldInv'
    BY <1>0, <1>1 DEF TypeLine, Types, Held, HeldInv
  <2> QED
    BY <2>1, <2>2
<1>2. CASE Start
  <2>1. About /\ Preexec(0) /\ 0 \in 0..Hook
    BY <1>2 DEF Start, About
  <2>2. ~About'
    BY <1>0, <1>2 DEF Start, About, PlaceInv, Types
  <2>3. /\ UNCHANGED <<kinds, osc, level, running, cur, what, result>>
        /\ place' \in [Shell -> Place] /\ place'[level] = "body"
        /\ \A s \in Shell : s # level => place'[s] = place[s]
    BY <1>0, <1>2 DEF Start, Types, Place
  <2> QED
    BY <2>1, <2>2, <2>3, PreexecKeeps
<1>3. CASE SimpleCommand
  <2>1. Trap(running[level]) /\ running[level] \in 1..Hook
    BY <1>0, <1>3 DEF SimpleCommand, PlaceInv, Hook
  <2>2. ~About'
    BY <1>0, <1>3, <2>1, TrapDisarms DEF SimpleCommand, About, Types
  <2>3. /\ UNCHANGED <<kinds, osc, level, running, cur, what, result>>
        /\ place' \in [Shell -> Place] /\ place'[level] \in {"body", "inner"}
        /\ \A s \in Shell : s # level => place'[s] = place[s] \/ (place'[s] = "inner" /\ place[s] # "off")
    BY <1>0, <1>3 DEF SimpleCommand, Types, Place, PlaceInv
  <2>4. CASE About /\ Preexec(running[level])
    BY <2>1, <2>2, <2>3, <2>4, PreexecKeeps
  <2>5. CASE UNCHANGED <<cmd, name, exitFile, watchers, pid, spawned, row, armed>>
    <3>1. SpawnInv'
      BY <1>0, <2>2, <2>3, <2>5 DEF SpawnInv, OnePerLine
    <3>2. \A s \in Shell : /\ place[s] = "off" => place'[s] = "off"
                           /\ place'[s] \in {place[s], "inner"}
      BY <1>0, <1>3 DEF SimpleCommand, Types, PlaceInv
    <3>3. HeldInv'
      BY <1>0, <2>3, <2>5, <3>2 DEF HeldInv
    <3> QED
      BY <3>1, <3>3
  <2> QED
    BY <1>3, <2>1, <2>4, <2>5, TrapIs DEF SimpleCommand
<1>4. CASE InnerBegins
  <2>1. SpawnInv'
    BY <1>0, <1>4 DEF InnerBegins, Types, PlaceInv, SpawnInv, About, OnePerLine
  <2>2. HeldInv'
    BY <1>0, <1>4 DEF InnerBegins, Types, PlaceInv, HeldInv
  <2> QED
    BY <2>1, <2>2
<1>5. CASE InnerExits
  <2>1. ~About'
    BY <1>0, <1>5 DEF InnerExits, Types, PlaceInv, About
  <2>2. pid[2] \in {0} \cup Watcher /\ watchers' = Signalled(watchers, pid[2], "TERM")
    BY <1>0, <1>5 DEF InnerExits, Types, Held
  <2>3. /\ \A w \in Watcher : w # pid[2] => watchers'[w] = watchers[w]
        /\ \A w \in Watcher : /\ watchers'[w].line = watchers[w].line
                              /\ watchers'[w].pc \in {watchers[w].pc, "gone"}
    <3>1. watchers \in [Watcher -> WatcherRecord]
      BY <1>0 DEF Types
    <3>2. \A v \in Watcher : /\ watchers'[v].line = watchers[v].line
                             /\ watchers'[v].pc \in {watchers[v].pc, "gone"}
                             /\ v # pid[2] => watchers'[v] = watchers[v]
      BY <2>2, <3>1, SignalledKeeps
    <3> QED
      BY <3>2
  <2>4. pid[2] # 0 => pid[2] <= spawned
    BY <1>0, <1>5 DEF InnerExits, PlaceInv, HeldInv
  <2>5. SpawnInv'
    <3>1. OnePerLine'
      BY <1>0, <2>3 DEF SpawnInv, OnePerLine
    <3>2. ASSUME NEW w \in Watcher, w > spawned
          PROVE  watchers'[w] = watchers[w]
      BY <1>0, <2>2, <2>3, <2>4, <3>2 DEF Types
    <3> QED
      <4>1. UNCHANGED <<spawned, cur>>
        BY <1>5 DEF InnerExits
      <4>2. ASSUME NEW w \in Watcher
            PROVE  /\ w > spawned => watchers'[w] = NoWatcher
                   /\ w <= spawned => watchers'[w].pc # "none" /\ watchers'[w].line \in 1..cur
                   /\ watchers'[w].pc = "boot" => w = spawned /\ watchers'[w].line = cur
        BY <1>0, <2>3, <3>2 DEF SpawnInv
      <4> QED
        BY <2>1, <3>1, <4>1, <4>2 DEF SpawnInv
  <2>6. HeldInv'
    BY <1>0, <1>5, <2>2, <2>3 DEF InnerExits, Types, Held, PlaceInv, HeldInv
  <2> QED
    BY <2>5, <2>6
<1>6. CASE LineEnds
  <2>1. SpawnInv'
    BY <1>0, <1>6 DEF LineEnds, Types, SpawnInv, About, OnePerLine
  <2>2. HeldInv'
    BY <1>0, <1>6 DEF LineEnds, Types, HeldInv
  <2> QED
    BY <2>1, <2>2
<1>7. CASE EmptyLine
  <2>1. SpawnInv'
    BY <1>0, <1>7 DEF EmptyLine, Types, SpawnInv, About, OnePerLine
  <2>2. HeldInv'
    BY <1>0, <1>7 DEF EmptyLine, Types, HeldInv
  <2> QED
    BY <2>1, <2>2
<1>8. CASE Capture
  <2>1. Trap(Hook) /\ Hook \in 1..Hook
    BY <1>8 DEF Capture, Hook
  <2>2. ~About'
    BY <1>0, <1>8 DEF Capture, About, Types
  <2>3. /\ UNCHANGED <<kinds, osc, level, running, cur, what, result>>
        /\ place' \in [Shell -> Place] /\ place'[level] = "other"
        /\ \A s \in Shell : s # level => place'[s] = place[s]
    BY <1>0, <1>8 DEF Capture, Types, Place
  <2>4. CASE About /\ Preexec(Hook)
    BY <2>1, <2>2, <2>3, <2>4, PreexecKeeps
  <2>5. CASE UNCHANGED <<cmd, name, exitFile, watchers, pid, spawned, row, armed>>
    <3>1. SpawnInv'
      BY <1>0, <2>2, <2>3, <2>5 DEF SpawnInv, OnePerLine
    <3>2. HeldInv'
      BY <1>0, <1>8, <2>3, <2>5 DEF Capture, HeldInv, Types
    <3> QED
      BY <3>1, <3>2
  <2> QED
    BY <1>8, <2>1, <2>4, <2>5, TrapIs DEF Capture
<1>9. CASE Other
  <2>1. SpawnInv'
    <3>1. ~About' /\ UNCHANGED <<watchers, spawned, cur>>
      BY <1>0, <1>9, OtherSilent DEF Other, About, Types
    <3> QED
      BY <1>0, <3>1 DEF SpawnInv, OnePerLine
  <2>2. HeldInv'
    BY <1>0, <1>9, OtherSilent DEF Other, Types, HeldInv
  <2> QED
    BY <2>1, <2>2
<1>10. CASE Precmd
  <2>1. ~About' /\ at' = "prompt" /\ level' = level /\ spawned' = spawned /\ cur' = cur
    BY <1>0, <1>10 DEF Precmd, Types, About
  <2>2. CASE pid[level] = 0
    <3>1. SpawnInv'
      BY <1>0, <1>10, <2>1, <2>2 DEF Precmd, SpawnInv, OnePerLine
    <3>2. HeldInv'
      BY <1>0, <1>10, <2>1, <2>2 DEF Precmd, HeldInv, Types
    <3> QED
      BY <3>1, <3>2
  <2>3. CASE pid[level] # 0
    <3>1. /\ pid[level] \in Watcher /\ watchers' = Signalled(watchers, pid[level], "USR1")
          /\ pid' = [pid EXCEPT ![level] = 0]
      BY <1>0, <1>10, <2>3 DEF Precmd, Types, Held
    <3>2. /\ \A w \in Watcher : w # pid[level] => watchers'[w] = watchers[w]
          /\ \A w \in Watcher : /\ watchers'[w].line = watchers[w].line
                                /\ watchers'[w].pc \in {watchers[w].pc, "gone"}
      <4>1. watchers \in [Watcher -> WatcherRecord] /\ pid[level] \in {0} \cup Watcher
        BY <1>0, <3>1 DEF Types
      <4>2. \A v \in Watcher : /\ watchers'[v].line = watchers[v].line
                               /\ watchers'[v].pc \in {watchers[v].pc, "gone"}
                               /\ v # pid[level] => watchers'[v] = watchers[v]
        BY <3>1, <4>1, SignalledKeeps
      <4> QED
        BY <4>2
    <3>3. pid[level] <= spawned
      BY <1>0, <1>10, <2>3 DEF Precmd, PlaceInv, HeldInv, Types
    <3>4. SpawnInv'
      <4>1. OnePerLine'
        BY <1>0, <3>2 DEF SpawnInv, OnePerLine
      <4>2. ASSUME NEW w \in Watcher, w > spawned
            PROVE  watchers'[w] = watchers[w]
        BY <1>0, <3>1, <3>2, <3>3, <4>2 DEF Types
      <4> QED
        <5>1. ASSUME NEW w \in Watcher
              PROVE  /\ w > spawned => watchers'[w] = NoWatcher
                     /\ w <= spawned => watchers'[w].pc # "none" /\ watchers'[w].line \in 1..cur
                     /\ watchers'[w].pc = "boot" => w = spawned /\ watchers'[w].line = cur
          BY <1>0, <3>2, <4>2 DEF SpawnInv
        <5> QED
          BY <2>1, <4>1, <5>1 DEF SpawnInv
    <3>5. HeldInv'
      <4>1. ASSUME NEW s \in Shell, place'[s] # "off", pid'[s] # 0
            PROVE  s # level /\ place[s] # "off" /\ pid[s] # 0 /\ pid[s] # pid[level]
                   /\ pid[s] \in Watcher /\ pid'[s] = pid[s] /\ place'[s] = place[s]
        BY <1>0, <1>10, <2>3, <3>1, <4>1 DEF Precmd, Types, Held, PlaceInv, HeldInv
      <4>2. running' = running /\ pid'[level] = 0 /\ level \in Shell
        BY <1>0, <1>10, <3>1 DEF Precmd, Types
      <4>3. ASSUME NEW s \in Shell, place'[s] # "off", pid'[s] # 0
            PROVE  /\ pid'[s] <= spawned' /\ watchers'[pid'[s]].line = running'[s]
                   /\ place'[s] \notin {"prompt", "start"}
                   /\ watchers'[pid'[s]].pc \in {"boot", "up", "parked"}
                   /\ watchers'[pid'[s]].sig = "none"
        <5>1. /\ s # level /\ place[s] # "off" /\ pid[s] # 0 /\ pid[s] # pid[level]
              /\ pid[s] \in Watcher /\ pid'[s] = pid[s] /\ place'[s] = place[s]
          BY <4>1, <4>3
        <5>2. watchers'[pid[s]] = watchers[pid[s]]
          BY <3>2, <5>1
        <5> QED
          BY <1>0, <2>1, <4>2, <5>1, <5>2 DEF HeldInv
      <4>4. ~(level' = 2 /\ pid'[2] # 0)
        BY <2>1, <4>2
      <4> QED
        BY <4>3, <4>4 DEF HeldInv
    <3> QED
      BY <3>4, <3>5
  <2> QED
    BY <2>2, <2>3
<1>11. ASSUME NEW w \in Watcher, WatcherStep(w) PROVE SpawnInv' /\ HeldInv'
  <2>1. CASE Boot(w)
    <3>1. /\ \A v \in Watcher : v # w => watchers'[v] = watchers[v]
          /\ watchers[w].pc = "boot" /\ watchers'[w].pc \in {"up", "parked"}
          /\ watchers'[w].line = watchers[w].line /\ watchers'[w].sig = watchers[w].sig
          /\ UNCHANGED <<level, place, kinds, armed, pid, running, cur, spawned>>
      BY <1>0, <2>1 DEF Boot, Types, WatcherRecord
    <3>2. w <= spawned /\ About' = About
      BY <1>0, <3>1 DEF SpawnInv, NoWatcher, Types, About
    <3>3. OnePerLine'
      BY <1>0, <3>1 DEF SpawnInv, OnePerLine
    <3>4. SpawnInv'
      <4>1. ASSUME NEW v \in Watcher
            PROVE  /\ v > spawned => watchers'[v] = NoWatcher
                   /\ v <= spawned => watchers'[v].pc # "none" /\ watchers'[v].line \in 1..cur
                   /\ watchers'[v].pc = "boot" => v = spawned /\ watchers'[v].line = cur
        <5>1. CASE v = w
          <6>1. ~(v > spawned) /\ watchers[w].line \in 1..cur
            BY <1>0, <3>1, <3>2, <5>1 DEF SpawnInv, Types
          <6> QED
            BY <3>1, <5>1, <6>1
        <5>2. CASE v # w
          BY <1>0, <3>1, <5>2 DEF SpawnInv
        <5> QED
          BY <5>1, <5>2
      <4>2. ~About
        BY <1>0, <3>1 DEF SpawnInv
      <4> QED
        BY <3>1, <3>2, <3>3, <4>1, <4>2 DEF SpawnInv
    <3>5. HeldInv'
      <4>1. \A s \in Shell : pid[s] # 0 => pid[s] \in Watcher
        BY <1>0 DEF Types, Held
      <4> QED
        BY <1>0, <3>1, <4>1 DEF HeldInv
    <3> QED
      BY <3>4, <3>5
  <2>2. CASE Report(w)
    BY <1>0, <2>2 DEF Report, Types, SpawnInv, HeldInv, About, OnePerLine
  <2>3. CASE Finish(w)
    <3>1. /\ watchers'[w].pc = "gone" /\ watchers'[w].line = watchers[w].line
          /\ \A v \in Watcher : v # w => watchers'[v] = watchers[v]
          /\ watchers[w].sig # "none" /\ watchers[w].pc # "none"
      BY <1>0, <2>3 DEF Finish, Types, Gone
    <3>2. w <= spawned
      BY <1>0, <3>1 DEF SpawnInv, NoWatcher, Types
    <3>3. SpawnInv'
      <4>1. OnePerLine' /\ About' = About
        BY <1>0, <2>3, <3>1 DEF Finish, SpawnInv, OnePerLine, About
      <4> QED
        <5>1. ASSUME NEW v \in Watcher
              PROVE  /\ v > spawned => watchers'[v] = NoWatcher
                     /\ v <= spawned => watchers'[v].pc # "none" /\ watchers'[v].line \in 1..cur
                     /\ watchers'[v].pc = "boot" => v = spawned /\ watchers'[v].line = cur
          <6>1. CASE v = w
            <7>1. ~(v > spawned) /\ watchers[w].line \in 1..cur
              BY <1>0, <3>1, <3>2, <6>1 DEF SpawnInv, Types
            <7> QED
              BY <3>1, <6>1, <7>1
          <6>2. CASE v # w
            BY <1>0, <3>1, <6>2 DEF SpawnInv
          <6> QED
            BY <6>1, <6>2
        <5>2. /\ UNCHANGED <<spawned, cur, level, pid>>
              /\ \A v \in Watcher : watchers'[v].pc = "boot" => watchers[v].pc = "boot"
              /\ \A v \in Watcher : watchers'[v].line = watchers[v].line
          BY <2>3, <3>1 DEF Finish
        <5> QED
          BY <1>0, <4>1, <5>1, <5>2 DEF SpawnInv
    <3>4. HeldInv'
      BY <1>0, <2>3, <3>1 DEF Finish, Types, Held, HeldInv
    <3> QED
      BY <3>3, <3>4
  <2> QED
    BY <1>11, <2>1, <2>2, <2>3 DEF WatcherStep
<1>12. CASE UNCHANGED vars
  BY <1>0, <1>12 DEF vars, SpawnInv, HeldInv, About, OnePerLine
<1> QED
  BY <1>1, <1>2, <1>3, <1>4, <1>5, <1>6, <1>7, <1>8, <1>9, <1>10, <1>11, <1>12
     DEF Next, ShellStep

-----------------------------------------------------------------------------
(* The status of a line, on its way to the label.                          *)

LEMMA RowKeptTrue ==
  ASSUME LineInv, cur' \in Nat, cur <= cur', row' \in {row, NoRow},
         \A l \in Line : result[l] # "none" => result'[l] = result[l]
  PROVE  row'.line \in 0..cur' /\ LabelTrue'
<1>1. row.line \in 0..cur /\ LabelTrue /\ cur \in 0..N
  BY DEF LineInv, StatusInv, Types
<1>2. row'.line \in 0..cur' /\ (row'.line # 0 => row' = row)
  BY <1>1, Constants DEF NoRow
<1>3. ASSUME row'.state = "failed", row'.line # 0
      PROVE  result'[row'.line] = "fail"
  <2>1. row' = row /\ row.line \in Line
    BY <1>1, <1>2, <1>3, Constants
  <2> QED
    BY <1>1, <1>3, <2>1 DEF LabelTrue
<1> QED
  BY <1>2, <1>3 DEF LabelTrue

(* Starting a watcher.                                                     *)
LEMMA PreexecStatus ==
  ASSUME LineInv, About, NEW p \in 0..Hook, Preexec(p),
         UNCHANGED <<cur, result>>
  PROVE  /\ \A w \in Watcher : /\ watchers'[w].sig # "none" => watchers'[w].pc \in {"up", "parked"}
                               /\ watchers'[w].sig # "USR1"
         /\ row'.line \in 0..cur' /\ LabelTrue'
<1>1. Types /\ StatusInv /\ PlaceInv
  BY DEF LineInv
<1>2. at # "prompt"
  BY DEF About
<1>3. \A w \in Watcher : \/ watchers'[w] = watchers[w]
                         \/ watchers'[w].sig = "none"
  BY <1>1, PreexecIs DEF Types
<1>4. row' \in {row, NoRow} /\ cur \in Nat
  BY <1>1, PreexecIs, Constants DEF Types
<1>5. \A w \in Watcher : /\ watchers'[w].sig # "none" => watchers'[w].pc \in {"up", "parked"}
                         /\ watchers'[w].sig # "USR1"
  BY <1>1, <1>2, <1>3 DEF StatusInv
<1> QED
  BY <1>4, <1>5, RowKeptTrue

(* A step of the shell that starts none, and signals none.                 *)
LEMMA SilentStatus ==
  ASSUME LineInv, UNCHANGED <<watchers, row>>, cur' \in Nat, cur <= cur',
         \A l \in Line : result[l] # "none" => result'[l] = result[l],
         at # "prompt" \/ Quiet
  PROVE  /\ \A w \in Watcher : /\ watchers'[w].sig # "none" => watchers'[w].pc \in {"up", "parked"}
                               /\ watchers'[w].sig # "USR1"
         /\ row'.line \in 0..cur' /\ LabelTrue'
<1>1. \A w \in Watcher : watchers[w].sig # "USR1"
  BY DEF LineInv, StatusInv, Quiet
<1> QED
  BY <1>1, RowKeptTrue DEF LineInv, StatusInv

LEMMA NextStatus ==
  ASSUME "trap" \notin Empty, LineInv, [Next]_vars
  PROVE  StatusInv'
<1> USE Constants DEF shellVars, fileVars, at, kind, Go
<1>0. Types /\ PlaceInv /\ SpawnInv /\ HeldInv /\ StatusInv
  BY DEF LineInv
<1>a. cur \in Nat /\ cur <= cur
  BY <1>0 DEF Types
<1>1. CASE TypeLine
  <2>1. UNCHANGED <<watchers, row, result>> /\ cur' = cur + 1 /\ Quiet
    BY <1>1 DEF TypeLine
  <2>2. place'[level'] \in {"start", "body"}
    BY <1>0, <1>1 DEF TypeLine, Types
  <2> QED
    BY <1>a, <2>1, <2>2, SilentStatus DEF StatusInv
<1>2. CASE Start
  <2>1. About /\ Preexec(0) /\ 0 \in 0..Hook /\ UNCHANGED <<cur, result>>
    BY <1>2 DEF Start, About
  <2>2. place'[level'] = "body"
    BY <1>0, <1>2 DEF Start, Types
  <2> QED
    BY <2>1, <2>2, PreexecStatus DEF StatusInv
<1>3. CASE SimpleCommand
  <2>1. /\ Trap(running[level]) /\ running[level] \in 1..Hook /\ UNCHANGED <<cur, result>>
        /\ at = "body"
    BY <1>0, <1>3 DEF SimpleCommand, PlaceInv, Hook
  <2>2. place'[level'] \in {"body", "inner"}
    BY <1>0, <1>3 DEF SimpleCommand, Types
  <2>3. CASE About /\ Preexec(running[level])
    BY <2>1, <2>2, <2>3, PreexecStatus DEF StatusInv
  <2>4. CASE UNCHANGED <<cmd, name, exitFile, watchers, pid, spawned, row, armed>>
    BY <1>a, <2>1, <2>2, <2>4, SilentStatus DEF StatusInv
  <2> QED
    BY <2>1, <2>3, <2>4, TrapIs
<1>4. CASE InnerBegins
  <2>1. UNCHANGED <<watchers, row, result, cur>> /\ Quiet
    BY <1>4 DEF InnerBegins
  <2>2. place'[level'] = "capture" /\ pid'[level'] = 0 /\ ~About'
    BY <1>0, <1>4 DEF InnerBegins, Types, About
  <2> QED
    BY <1>a, <2>1, <2>2, SilentStatus DEF StatusInv
<1>5. CASE InnerExits
  <2>1. /\ pid[2] \in {0} \cup Watcher /\ watchers' = Signalled(watchers, pid[2], "TERM")
        /\ place'[level'] = "body" /\ UNCHANGED <<row, cur>>
        /\ level = 2 /\ at = "body"
    BY <1>0, <1>5 DEF InnerExits, Types, Held
  <2>2. \A l \in Line : result[l] # "none" => result'[l] = result[l]
    BY <1>0, <1>5 DEF InnerExits, PlaceInv, Types
  <2>3. \A w \in Watcher : /\ watchers'[w].sig # "none" => watchers'[w].pc \in {"up", "parked"}
                           /\ watchers'[w].sig # "USR1"
    <3>1. SUFFICES ASSUME NEW w \in Watcher
                   PROVE  /\ watchers'[w].sig # "none" => watchers'[w].pc \in {"up", "parked"}
                          /\ watchers'[w].sig # "USR1"
      OBVIOUS
    <3>2. CASE w # pid[2]
      <4>1. watchers'[w] = watchers[w]
        <5>1. watchers \in [Watcher -> WatcherRecord]
          BY <1>0 DEF Types
        <5> QED
          BY <2>1, <3>2, <5>1, SignalledKeeps
      <4> QED
        BY <1>0, <2>1, <4>1 DEF StatusInv
    <3>3. CASE w = pid[2]
      <4>1. pid[2] # 0 /\ watchers[pid[2]].pc \in {"boot", "up", "parked"}
        BY <1>0, <2>1, <3>3 DEF HeldInv, PlaceInv
      <4>2. /\ watchers[w].pc = "boot" => watchers'[w].sig = "none"
            /\ watchers[w].pc # "boot" =>
                  watchers'[w].pc = watchers[w].pc /\ watchers'[w].sig = "TERM"
        <5>1. watchers \in [Watcher -> WatcherRecord]
          BY <1>0 DEF Types
        <5> QED
          BY <2>1, <3>3, <4>1, <5>1, SignalledIs
      <4> QED
        BY <3>3, <4>1, <4>2
    <3> QED
      BY <3>2, <3>3
  <2> QED
    BY <1>a, <2>1, <2>2, <2>3, RowKeptTrue DEF StatusInv
<1>6. CASE LineEnds
  <2>1. UNCHANGED <<watchers, row, cur>> /\ at # "prompt"
    BY <1>6 DEF LineEnds
  <2>2. \A l \in Line : result[l] # "none" => result'[l] = result[l]
    BY <1>0, <1>6 DEF LineEnds, PlaceInv, Types
  <2>3. place'[level'] = "capture" /\ last'[level'].now = result'[running'[level']]
    <3>1. running[level] \in Line /\ level \in Shell
      BY <1>0, <1>6 DEF LineEnds, PlaceInv, Types
    <3> QED
      BY <1>0, <1>6, <3>1 DEF LineEnds, Types, StatusRecord
  <2> QED
    BY <1>a, <2>1, <2>2, <2>3, SilentStatus DEF StatusInv
<1>7. CASE EmptyLine
  <2>1. UNCHANGED <<watchers, row, cur, result>> /\ Quiet
    BY <1>7 DEF EmptyLine
  <2>2. place'[level'] = "capture" /\ pid'[level'] = 0 /\ ~About'
    BY <1>0, <1>7 DEF EmptyLine, Types, About, HeldInv
  <2> QED
    BY <1>a, <2>1, <2>2, SilentStatus DEF StatusInv
<1>8. CASE Capture
  <2>1. Trap(Hook) /\ Hook \in 1..Hook /\ UNCHANGED <<cur, result, running, level>> /\ at = "capture"
    BY <1>8 DEF Capture, Hook
  <2>2. place'[level'] = "other" /\ last'[level'].kept = last[level].now
    BY <1>0, <1>8 DEF Capture, Types, StatusRecord
  <2>3. CASE About /\ Preexec(Hook)
    <3>1. last'[level'].kept = result'[running'[level']]
      BY <1>0, <2>1, <2>2, <2>3 DEF StatusInv
    <3> QED
      BY <2>1, <2>2, <2>3, <3>1, PreexecStatus DEF StatusInv
  <2>4. CASE UNCHANGED <<cmd, name, exitFile, watchers, pid, spawned, row, armed>>
    <3>1. pid'[level'] # 0 => last'[level'].kept = result'[running'[level']]
      BY <1>0, <2>1, <2>2, <2>4 DEF StatusInv
    <3> QED
      BY <1>a, <2>1, <2>2, <2>4, <3>1, SilentStatus DEF StatusInv
  <2> QED
    BY <2>1, <2>3, <2>4, TrapIs
<1>9. CASE Other
  <2>1. /\ UNCHANGED <<watchers, pid, row, cur, result, running, level>> /\ at = "other"
        /\ place'[level'] = "precmd"
    BY <1>0, <1>9, OtherSilent DEF Other, Types
  <2>2. last'[level'].kept = last[level].kept
    <3>1. \A r \in {"ok", "fail"} : [last EXCEPT ![level].now = r][level].kept = last[level].kept
      BY <1>0 DEF Types, StatusRecord
    <3> QED
      BY <1>9, <2>1, <3>1 DEF Other
  <2> QED
    BY <1>0, <1>a, <2>1, <2>2, SilentStatus DEF StatusInv
<1>10. CASE Precmd
  <2>1. /\ place'[level'] = "prompt" /\ at = "precmd" /\ UNCHANGED <<cur, result, level, running>>
    BY <1>0, <1>10 DEF Precmd, Types
  <2>2. CASE pid[level] = 0
    <3>1. UNCHANGED <<watchers, row, exitFile>>
      BY <1>10, <2>2 DEF Precmd
    <3> QED
      BY <1>a, <2>1, <3>1, SilentStatus DEF StatusInv
  <2>3. CASE pid[level] # 0
    <3>1. /\ pid[level] \in Watcher /\ watchers' = Signalled(watchers, pid[level], "USR1")
          /\ exitFile' = last[level].kept /\ last[level].kept = result[running[level]]
          /\ row' = IF osc /\ Mine(pid[level]) THEN [row EXCEPT !.state = FinalState] ELSE row
      BY <1>0, <1>10, <2>1, <2>3 DEF Precmd, Types, Held, Status, StatusInv
    <3>2. /\ watchers[pid[level]].line = running[level] /\ running[level] \in Line
          /\ watchers[pid[level]].pc \in {"boot", "up", "parked"}
      BY <1>0, <2>1, <2>3, <3>1 DEF HeldInv, SpawnInv, Types
    <3>3. \A w \in Watcher :
            /\ watchers'[w].sig # "none" => watchers'[w].pc \in {"up", "parked"}
            /\ watchers'[w].sig = "USR1" => exitFile' = result'[watchers'[w].line]
      <4>1. SUFFICES ASSUME NEW w \in Watcher
                     PROVE  /\ watchers'[w].sig # "none" => watchers'[w].pc \in {"up", "parked"}
                            /\ watchers'[w].sig = "USR1" => exitFile' = result'[watchers'[w].line]
        OBVIOUS
      <4>2. CASE w # pid[level]
        <5>1. watchers'[w] = watchers[w]
          <6>1. watchers \in [Watcher -> WatcherRecord] /\ pid[level] \in {0} \cup Watcher
            BY <1>0, <3>1 DEF Types
          <6> QED
            BY <3>1, <4>2, <6>1, SignalledKeeps
        <5> QED
          BY <1>0, <2>1, <5>1 DEF StatusInv
      <4>3. CASE w = pid[level]
        <5>1. watchers \in [Watcher -> WatcherRecord]
          BY <1>0 DEF Types
        <5>2. /\ watchers'[w].line = watchers[w].line
              /\ watchers[w].pc = "boot" => watchers'[w].sig = "none"
              /\ watchers[w].pc # "boot" => watchers'[w].pc = watchers[w].pc
          BY <2>3, <3>1, <4>3, <5>1, SignalledIs
        <5> QED
          BY <2>1, <3>1, <3>2, <4>3, <5>2
      <4> QED
        BY <4>2, <4>3
    <3>4. row'.line \in 0..cur' /\ LabelTrue'
      <4>1. CASE osc /\ Mine(pid[level])
        <5>1. row'.line = running[level] /\ row'.state = FinalState
          BY <3>1, <3>2, <4>1 DEF Mine
        <5>2. FinalState = "failed" => result[running[level]] = "fail"
          BY <3>1 DEF FinalState, Status
        <5> QED
          BY <1>0, <2>1, <3>2, <5>1, <5>2 DEF LabelTrue, Types
      <4>2. CASE ~(osc /\ Mine(pid[level]))
        <5>1. row' = row
          BY <3>1, <4>2
        <5> QED
          BY <1>a, <2>1, <5>1, RowKeptTrue
      <4> QED
        BY <4>1, <4>2
    <3> QED
      BY <2>1, <3>3, <3>4 DEF StatusInv
  <2> QED
    BY <2>2, <2>3
<1>11. ASSUME NEW w \in Watcher, WatcherStep(w) PROVE StatusInv'
  <2>1. UNCHANGED <<pid, level, kinds, armed, place, last, result, running, cur, exitFile>>
    BY <1>11 DEF WatcherStep, Boot, Report, Finish
  <2>2. /\ \A v \in Watcher : v # w => watchers'[v] = watchers[v]
        /\ \/ watchers'[w] = watchers[w]
           \/ watchers[w].sig = "none" /\ watchers'[w].sig = "none"
           \/ watchers'[w].sig = "none"
    <3>1. CASE Boot(w)
      <4>1. watchers[w].sig = "none"
        BY <1>0, <3>1 DEF Boot, StatusInv
      <4> QED
        BY <1>0, <3>1, <4>1 DEF Boot, Types, WatcherRecord
    <3>2. CASE Report(w)
      BY <3>2 DEF Report
    <3>3. CASE Finish(w)
      BY <1>0, <3>3 DEF Finish, Types, Gone
    <3> QED
      BY <1>11, <3>1, <3>2, <3>3 DEF WatcherStep
  <2>3. \A v \in Watcher : \/ watchers'[v] = watchers[v]
                           \/ watchers'[v].sig = "none"
    BY <2>2
  <2>4. row'.line \in 0..cur' /\ LabelTrue'
    <3>1. CASE Boot(w)
      <4>1. row' \in {row, NoRow}
        BY <3>1 DEF Boot
      <4> QED
        BY <1>a, <2>1, <4>1, RowKeptTrue
    <3>2. CASE Report(w)
      <4>1. watchers[w].line \in 0..cur /\ row' = [state |-> "running", line |-> watchers[w].line]
        BY <1>0, <3>2 DEF Report, SpawnInv, NoWatcher, Types
      <4> QED
        BY <2>1, <4>1 DEF LabelTrue
    <3>3. CASE Finish(w)
      <4>1. CASE row' \in {row, NoRow}
        BY <1>a, <2>1, <4>1, RowKeptTrue
      <4>2. CASE row' \notin {row, NoRow}
        <5>1. /\ watchers[w].sig = "USR1" /\ exitFile = "fail" /\ Mine(w)
              /\ row' = [row EXCEPT !.state = "failed"]
          BY <3>3, <4>2 DEF Finish
        <5>2. row'.line = watchers[w].line /\ row.line = watchers[w].line
          BY <5>1 DEF Mine
        <5>3. result[watchers[w].line] = "fail"
          BY <1>0, <5>1 DEF StatusInv
        <5> QED
          BY <1>0, <2>1, <5>2, <5>3 DEF StatusInv, LabelTrue
      <4> QED
        BY <4>1, <4>2
    <3> QED
      BY <1>11, <3>1, <3>2, <3>3 DEF WatcherStep
  <2>5. \A v \in Watcher : watchers'[v].line = watchers[v].line
    <3>1. CASE Boot(w)
      BY <1>0, <3>1 DEF Boot, Types, WatcherRecord
    <3>2. CASE Report(w)
      BY <3>2 DEF Report
    <3>3. CASE Finish(w)
      BY <1>0, <3>3 DEF Finish, Types, Gone
    <3> QED
      BY <1>11, <3>1, <3>2, <3>3 DEF WatcherStep
  <2>6. About' = About
    BY <2>1 DEF About
  <2> QED
    BY <1>0, <2>1, <2>3, <2>4, <2>5, <2>6 DEF StatusInv
<1>12. CASE UNCHANGED vars
  BY <1>0, <1>12 DEF vars, StatusInv, About, LabelTrue
<1> QED
  BY <1>1, <1>2, <1>3, <1>4, <1>5, <1>6, <1>7, <1>8, <1>9, <1>10, <1>11, <1>12
     DEF Next, ShellStep

LEMMA LineHolds ==
  ASSUME "trap" \notin Empty
  PROVE  Spec => []LineInv
<1>1. LineInv /\ [Next]_vars => LineInv'
  BY NextTypes, NextPlace, NextSpawn, NextStatus DEF LineInv
<1> QED
  BY <1>1, InitLine, PTL DEF Spec

(* One watcher for a command line, whatever it consists of, whatever is in *)
(* PROMPT_COMMAND and whichever shells are nested (init.bash:30-33).       *)
THEOREM OnePerLineHolds ==
  ASSUME "trap" \notin Empty
  PROVE  Spec => []OnePerLine
<1>1. LineInv => OnePerLine
  BY DEF LineInv, SpawnInv
<1> QED
  BY <1>1, LineHolds, PTL

(* A failure label is about a line that failed: $? is captured before any  *)
(* entry of PROMPT_COMMAND can change it, and a watcher is told the status *)
(* of its own line (init.bash:125-128).                                    *)
THEOREM LabelTrueHolds ==
  ASSUME "trap" \notin Empty
  PROVE  Spec => []LabelTrue
<1>1. LineInv => LabelTrue
  BY DEF LineInv, StatusInv
<1> QED
  BY <1>1, LineHolds, PTL

-----------------------------------------------------------------------------
(* Pairs of shells that agree on `name`.                                   *)
Fitting == \A p \in Shells : p[1] = "zsh" <=> p[2] = "zsh"

LEMMA KindIs ==
  ASSUME Fitting, Types
  PROVE  kind \in Kind /\ (kind = "zsh" => kinds[1] = "zsh") /\ (kind # "zsh" => kinds[1] # "zsh")
<1>1. kinds \in Kind \X Kind /\ (kinds[1] = "zsh" <=> kinds[2] = "zsh") /\ level \in {1, 2}
  BY HookAssumption, Constants DEF Fitting, Types
<1>2. kinds[1] \in Kind /\ kinds[2] \in Kind
  BY <1>1
<1> QED
  BY <1>1, <1>2 DEF kind

LEMMA InitFit == Init => FitInv
<1> SUFFICES ASSUME Init PROVE FitInv
  OBVIOUS
<1>1. name = 0 /\ (\A w \in Watcher : watchers[w] = NoWatcher) /\ row = NoRow /\ pid[level] = 0
  BY Constants DEF Init
<1>2. NameInv
  BY <1>1 DEF NameInv, OwnProgram, NoWatcher
<1>3. ReportInv
  BY <1>1 DEF ReportInv, NoWatcher
<1>4. RowInv
  BY <1>1 DEF RowInv, NoRow
<1> QED
  BY <1>2, <1>3, <1>4 DEF FitInv

(* Starting a watcher: what it will find in `name`, that it alone may      *)
(* report, and that the row is not about its line.                         *)
LEMMA PreexecFit ==
  ASSUME Fitting, LineInv, FitInv, About, NEW p \in 0..Hook, Preexec(p), ~About',
         p = 0 => at = "start",
         p # 0 => kind = "trap" /\ (p = cur \/ (p = Hook /\ what[cur] # "shell")),
         UNCHANGED <<kinds, osc, level, running, cur, what, result, matched>>
  PROVE  FitInv'
<1> USE Constants
<1>1. Types /\ PlaceInv /\ SpawnInv /\ HeldInv /\ NameInv /\ ReportInv /\ RowInv
  BY DEF LineInv, FitInv
<1>2. /\ spawned + 1 \in Watcher /\ spawned \in Nat
      /\ watchers' = [watchers EXCEPT ![spawned + 1] =
                        [pc |-> "boot", line |-> cur, clear |-> Marker, sig |-> "none"]]
      /\ pid' = [pid EXCEPT ![level] = spawned + 1]
      /\ cmd' = cur /\ name' = NameAfter(p) /\ row' \in {row, NoRow}
  BY <1>1, PreexecIs DEF Types
<1>3. cur \in 1..N /\ running[level] = cur /\ level \in Shell /\ pid[level] = 0
      /\ \A w \in Watcher : watchers[w].line # cur /\ watchers[w].pc # "boot"
  BY <1>1 DEF PlaceInv, SpawnInv, Types
<1>4. /\ \A w \in Watcher : w # spawned + 1 => watchers'[w] = watchers[w]
      /\ watchers'[spawned + 1].pc = "boot" /\ watchers'[spawned + 1].line = cur
      /\ watchers'[spawned + 1].sig = "none" /\ pid'[level] = spawned + 1
  BY <1>1, <1>2, <1>3 DEF Types
<1>5. kind \in Kind /\ (kind = "zsh" => name = 0) /\ (kind # "zsh" => kinds[1] # "zsh")
  BY <1>1, KindIs DEF NameInv
<1>6. /\ kinds[1] = "zsh" => name' = 0
      /\ name' = 0 \/ name' = cur \/ (name' = Hook /\ what[cur] # "shell")
  <2>1. CASE p = 0
    <3>1. kind # "trap"
      BY <1>1, <2>1 DEF PlaceInv
    <3>2. kind = "preexec" \/ kind = "zsh"
      BY <1>5, <3>1 DEF Kind
    <3>3. name' = 0
      BY <1>2, <1>5, <2>1, <3>2 DEF NameAfter
    <3> QED
      BY <3>3
  <2>2. CASE p # 0
    <3>1. name' = p /\ kinds[1] # "zsh"
      BY <1>2, <1>5, <2>2 DEF NameAfter
    <3> QED
      BY <2>2, <3>1
  <2> QED
    BY <2>1, <2>2
<1>7. NameInv'
  <2>1. OwnProgram'
    BY <1>1, <1>4 DEF NameInv, OwnProgram
  <2>2. ASSUME NEW w \in Watcher
        PROVE  /\ watchers'[w].pc = "up" => what[watchers'[w].line] # "shell"
               /\ watchers'[w].pc = "boot" => watchers'[w].line = cur
    BY <1>1, <1>3, <1>4 DEF NameInv
  <2> QED
    BY <1>2, <1>6, <2>1, <2>2 DEF NameInv
<1>8. ReportInv'
  BY <1>1, <1>3, <1>4 DEF ReportInv
<1>9. RowInv'
  <2>1. CASE row' = NoRow
    BY <2>1 DEF RowInv, NoRow
  <2>2. CASE row' = row
    BY <1>1, <1>3, <1>4, <2>2 DEF RowInv
  <2> QED
    BY <1>2, <2>1, <2>2
<1> QED
  BY <1>7, <1>8, <1>9 DEF FitInv

(* A step of a shell that starts no watcher, and signals none.             *)
LEMMA SilentName ==
  ASSUME LineInv, NameInv, UNCHANGED <<kinds, cmd, name, watchers, matched>>,
         \A l \in 1..cur : what'[l] = what[l]
  PROVE  NameInv'
<1>1. OwnProgram'
  BY DEF NameInv, OwnProgram
<1>2. \A w \in Watcher : watchers[w].pc \in {"up", "boot"} => watchers[w].line \in 1..cur
  BY Constants DEF LineInv, SpawnInv, NoWatcher, Types
<1> QED
  BY <1>1, <1>2 DEF NameInv

(* A signal to the watcher of the shell that has the terminal.             *)
LEMMA SignalName ==
  ASSUME LineInv, NameInv, NEW s \in {"TERM", "USR1"},
         watchers' = Signalled(watchers, pid[level], s),
         UNCHANGED <<kinds, cmd, name, matched, what>>
  PROVE  NameInv'
<1>1. watchers \in [Watcher -> WatcherRecord] /\ pid[level] \in {0} \cup Watcher
  BY Constants DEF LineInv, Types, Held
<1>2. \A v \in Watcher : watchers'[v].line = watchers[v].line
                         /\ watchers'[v].pc \in {watchers[v].pc, "gone"}
  BY <1>1, SignalledKeeps
<1>3. OwnProgram'
  BY <1>2 DEF NameInv, OwnProgram
<1> QED
  BY <1>2, <1>3 DEF NameInv

LEMMA SignalReport ==
  ASSUME LineInv, ReportInv, NEW s \in {"TERM", "USR1"}, at # "off",
         watchers' = Signalled(watchers, pid[level], s)
  PROVE  /\ \A w \in Watcher : watchers'[w].pc \in {"boot", "up"} => watchers'[w].sig # "none"
         /\ \A w \in Watcher : watchers[w].sig # "none" => watchers'[w].sig # "none"
         /\ pid[level] # 0 =>
              watchers'[pid[level]].pc = "gone" \/ watchers'[pid[level]].sig # "none"
<1>1. /\ watchers \in [Watcher -> WatcherRecord] /\ pid[level] \in {0} \cup Watcher
      /\ level \in Shell
  BY Constants DEF LineInv, Types, Held
<1>2. pid[level] # 0 => watchers[pid[level]].sig = "none"
  BY <1>1 DEF LineInv, HeldInv, at
<1>3. ASSUME NEW w \in Watcher, w # pid[level] PROVE watchers'[w] = watchers[w]
  BY <1>1, <1>3, SignalledKeeps
<1>4. pid[level] # 0 =>
        \/ watchers'[pid[level]].pc = "gone"
        \/ watchers'[pid[level]].sig = s
  BY <1>1, SignalledEnds
<1>5. s # "none"
  OBVIOUS
<1>6. ASSUME NEW w \in Watcher, watchers'[w].pc \in {"boot", "up"} PROVE watchers'[w].sig # "none"
  <2>1. CASE w = pid[level]
    BY <1>1, <1>4, <1>5, <1>6, <2>1, Constants
  <2>2. CASE w # pid[level]
    BY <1>3, <1>6, <2>2 DEF ReportInv
  <2> QED
    BY <2>1, <2>2
<1>7. ASSUME NEW w \in Watcher, watchers[w].sig # "none" PROVE watchers'[w].sig # "none"
  <2>1. w # pid[level]
    BY <1>2, <1>7, Constants
  <2> QED
    BY <1>3, <1>7, <2>1
<1> QED
  BY <1>4, <1>5, <1>6, <1>7

(* The steps of a shell that neither start nor signal a watcher leave the  *)
(* files, the watchers and the row alone.                                  *)
Silent == UNCHANGED <<kinds, cmd, name, watchers, matched, spawned, row>>

LEMMA SilentSteps ==
  ASSUME LineInv, SimpleCommand \/ Capture \/ Other,
         ~ \E p \in 0..Hook : About /\ Preexec(p)
  PROVE  Silent /\ UNCHANGED <<level, pid, running, cur, what, result>>
<1>0. Types /\ PlaceInv
  BY DEF LineInv
<1>1. CASE SimpleCommand
  <2>1. Trap(running[level]) /\ running[level] \in 1..Hook /\ at = "body" /\ running[level] \in 0..Hook
    BY <1>0, <1>1, Constants DEF SimpleCommand, PlaceInv, Hook
  <2> QED
    BY <1>1, <2>1, TrapIs DEF SimpleCommand, Silent
<1>2. CASE Capture
  <2>1. Trap(Hook) /\ Hook \in 1..Hook /\ at = "capture" /\ Hook \in 0..Hook
    BY <1>2, Constants DEF Capture, Hook
  <2> QED
    BY <1>2, <2>1, TrapIs DEF Capture, Silent
<1>3. CASE Other
  BY <1>3, OtherSilent DEF Other, Silent
<1> QED
  BY <1>1, <1>2, <1>3

LEMMA NextName ==
  ASSUME Fitting, "trap" \notin Empty, LineInv, FitInv, [Next]_vars,
         ~ \E p \in 0..Hook : About /\ Preexec(p)
  PROVE  NameInv'
<1> USE Constants DEF shellVars, fileVars, at, kind, Go
<1>0. Types /\ PlaceInv /\ SpawnInv /\ HeldInv /\ NameInv
  BY DEF LineInv, FitInv
<1>1. CASE TypeLine
  <2>1. \A l \in 1..cur : what'[l] = what[l]
    BY <1>0, <1>1 DEF TypeLine, Types
  <2> QED
    BY <1>0, <1>1, <2>1, SilentName DEF TypeLine
<1>2. CASE SimpleCommand \/ Capture \/ Other
  <2>1. /\ UNCHANGED <<kinds, cmd, name, watchers, matched, what>>
    BY <1>2, SilentSteps DEF Silent
  <2> QED
    BY <1>0, <2>1, SilentName
<1>3. CASE InnerBegins \/ LineEnds \/ EmptyLine
  BY <1>0, <1>3, SilentName DEF InnerBegins, LineEnds, EmptyLine
<1>4. CASE InnerExits
  <2>1. /\ watchers' = Signalled(watchers, pid[level], "TERM")
        /\ UNCHANGED <<kinds, cmd, name, matched, what>>
    BY <1>4 DEF InnerExits
  <2> QED
    BY <1>0, <2>1, SignalName
<1>5. CASE Precmd
  <2>1. UNCHANGED <<kinds, cmd, name, matched, what>>
    BY <1>5 DEF Precmd
  <2>2. CASE pid[level] = 0
    <3>1. UNCHANGED watchers
      BY <1>5, <2>2 DEF Precmd
    <3> QED
      BY <1>0, <2>1, <3>1, SilentName
  <2>3. CASE pid[level] # 0
    <3>1. watchers' = Signalled(watchers, pid[level], "USR1")
      BY <1>5, <2>3 DEF Precmd
    <3> QED
      BY <1>0, <2>1, <3>1, SignalName
  <2> QED
    BY <2>2, <2>3
<1>6. ASSUME NEW w \in Watcher, Boot(w) PROVE NameInv'
  <2>1. /\ \A v \in Watcher : v # w => watchers'[v] = watchers[v] /\ matched'[v] = matched[v]
        /\ watchers'[w].line = watchers[w].line /\ matched'[w] = IgnoreName
        /\ watchers'[w].pc = IF Ignored(IgnoreName) THEN "parked" ELSE "up"
        /\ name' = 0 /\ UNCHANGED <<kinds, what, cmd>>
    BY <1>0, <1>6 DEF Boot, Types, WatcherRecord
  <2>2. \A v \in Watcher : v # w => watchers[v].pc # "boot"
    BY <1>0, <1>6 DEF Boot, SpawnInv
  <2>3. watchers[w].line \in 1..cur
    BY <1>0, <1>6 DEF Boot, SpawnInv, NoWatcher, Types
  <2>4. IgnoreName = watchers[w].line \/ (IgnoreName = Hook /\ what[watchers[w].line] # "shell")
    BY <1>0, <1>6, <2>3 DEF Boot, NameInv, IgnoreName
  <2>5. ~Ignored(IgnoreName) => what[watchers[w].line] # "shell"
    <3>1. watchers[w].line \in Line
      BY <1>0, <2>3 DEF Types
    <3> QED
      BY <2>4, <3>1 DEF Ignored
  <2>6. OwnProgram'
    BY <1>0, <2>1, <2>4 DEF NameInv, OwnProgram
  <2> QED
    BY <1>0, <2>1, <2>2, <2>5, <2>6 DEF NameInv
<1>7. ASSUME NEW w \in Watcher, Report(w) PROVE NameInv'
  BY <1>0, <1>7, SilentName DEF Report
<1>8. ASSUME NEW w \in Watcher, Finish(w) PROVE NameInv'
  <2>1. /\ \A v \in Watcher : v # w => watchers'[v] = watchers[v] /\ matched'[v] = matched[v]
        /\ watchers'[w].pc = "gone"
        /\ UNCHANGED <<kinds, what, cmd, name>>
    BY <1>0, <1>8 DEF Finish, Types, Gone
  <2>2. OwnProgram'
    BY <1>0, <2>1 DEF NameInv, OwnProgram
  <2> QED
    BY <1>0, <2>1, <2>2 DEF NameInv
<1>9. CASE UNCHANGED vars
  BY <1>0, <1>9, SilentName DEF vars
<1>10. ~Start
  BY DEF Start, About
<1> QED
  BY <1>1, <1>2, <1>3, <1>4, <1>5, <1>6, <1>7, <1>8, <1>9, <1>10
     DEF Next, ShellStep, WatcherStep

LEMMA NextReport ==
  ASSUME Fitting, "trap" \notin Empty, LineInv, FitInv, [Next]_vars,
         ~ \E p \in 0..Hook : About /\ Preexec(p)
  PROVE  ReportInv'
<1> USE Constants DEF shellVars, fileVars, at, kind, Go
<1>0. Types /\ PlaceInv /\ SpawnInv /\ HeldInv /\ NameInv /\ ReportInv
  BY DEF LineInv, FitInv
<1>1. CASE TypeLine
  <2>1. pid[level] = 0 /\ UNCHANGED <<level, pid, watchers>>
    BY <1>0, <1>1 DEF TypeLine, HeldInv, Types
  <2> QED
    BY <1>0, <2>1 DEF ReportInv
<1>2. CASE SimpleCommand \/ Capture \/ Other
  BY <1>0, <1>2, SilentSteps DEF Silent, ReportInv
<1>3. CASE LineEnds \/ EmptyLine
  BY <1>0, <1>3 DEF LineEnds, EmptyLine, ReportInv
<1>4. CASE InnerBegins
  <2>1. /\ level = 1 /\ level' = 2 /\ pid'[2] = 0 /\ UNCHANGED watchers
        /\ place[1] = "inner" /\ what[running[1]] = "shell"
    BY <1>0, <1>4 DEF InnerBegins, PlaceInv, Types
  <2>2. ASSUME NEW w \in Watcher PROVE ~(watchers[w].pc \in {"boot", "up"} /\ watchers[w].sig = "none")
    <3>1. watchers[w].pc # "boot"
      BY <1>4 DEF InnerBegins, Quiet
    <3>2. SUFFICES ASSUME watchers[w].pc = "up", watchers[w].sig = "none" PROVE FALSE
      BY <3>1
    <3>3. pid[1] = w
      BY <1>0, <2>1, <3>2 DEF ReportInv
    <3>4. watchers[w].line = running[1]
      BY <1>0, <2>1, <3>3 DEF HeldInv
    <3> QED
      BY <1>0, <2>1, <3>2, <3>4 DEF NameInv
  <2> QED
    BY <2>1, <2>2 DEF ReportInv
<1>5. CASE InnerExits
  <2>1. /\ watchers' = Signalled(watchers, pid[level], "TERM")
        /\ level' = 1 /\ UNCHANGED <<running, what>> /\ what[running[1]] = "shell" /\ at # "off"
    BY <1>0, <1>5 DEF InnerExits, PlaceInv
  <2>2. \A w \in Watcher : watchers'[w].pc \in {"boot", "up"} => watchers'[w].sig # "none"
    BY <1>0, <2>1, SignalReport
  <2> QED
    BY <2>1, <2>2 DEF ReportInv
<1>6. CASE Precmd
  <2>1. UNCHANGED <<level, running, cur, what>> /\ at # "off"
    BY <1>6 DEF Precmd
  <2>2. CASE pid[level] = 0
    BY <1>0, <1>6, <2>1, <2>2 DEF Precmd, ReportInv
  <2>3. CASE pid[level] # 0
    <3>1. watchers' = Signalled(watchers, pid[level], "USR1") /\ pid'[level] = 0
      BY <1>0, <1>6, <2>3 DEF Precmd, Types
    <3>2. \A w \in Watcher : watchers'[w].pc \in {"boot", "up"} => watchers'[w].sig # "none"
      BY <1>0, <2>1, <3>1, SignalReport
    <3> QED
      BY <2>1, <3>1, <3>2 DEF ReportInv
  <2> QED
    BY <2>2, <2>3
<1>7. ASSUME NEW w \in Watcher, WatcherStep(w) PROVE ReportInv'
  <2>1. UNCHANGED <<level, pid, running, cur, what>>
    BY <1>7 DEF WatcherStep, Boot, Report, Finish
  <2>2. \A v \in Watcher : watchers'[v].pc \in {"boot", "up"} /\ watchers'[v].sig = "none" =>
                             watchers[v].pc \in {"boot", "up"} /\ watchers[v].sig = "none"
    <3>1. CASE Boot(w)
      <4>1. /\ watchers'[w].sig = watchers[w].sig /\ watchers[w].pc = "boot"
            /\ \A v \in Watcher : v # w => watchers'[v] = watchers[v]
        BY <1>0, <3>1 DEF Boot, Types, WatcherRecord
      <4> QED
        BY <4>1
    <3>2. CASE Report(w)
      BY <3>2 DEF Report
    <3>3. CASE Finish(w)
      <4>1. /\ watchers'[w].pc = "gone"
            /\ \A v \in Watcher : v # w => watchers'[v] = watchers[v]
        BY <1>0, <3>3 DEF Finish, Types, Gone
      <4> QED
        BY <4>1
    <3> QED
      BY <1>7, <3>1, <3>2, <3>3 DEF WatcherStep
  <2> QED
    BY <1>0, <2>1, <2>2 DEF ReportInv
<1>8. CASE UNCHANGED vars
  BY <1>0, <1>8 DEF vars, ReportInv
<1>9. ~Start
  BY DEF Start, About
<1> QED
  BY <1>1, <1>2, <1>3, <1>4, <1>5, <1>6, <1>7, <1>8, <1>9 DEF Next, ShellStep

LEMMA NextRow ==
  ASSUME Fitting, "trap" \notin Empty, LineInv, FitInv, [Next]_vars,
         ~ \E p \in 0..Hook : About /\ Preexec(p)
  PROVE  RowInv'
<1> USE Constants DEF shellVars, fileVars, at, kind, Go
<1>0. Types /\ PlaceInv /\ SpawnInv /\ HeldInv /\ StatusInv /\ NameInv /\ ReportInv /\ RowInv
  BY DEF LineInv, FitInv
<1>a. row.line \in 0..cur /\ cur \in 0..N
  BY <1>0 DEF StatusInv, Types
<1>1. CASE TypeLine
  <2>1. pid[level] = 0 /\ UNCHANGED <<level, pid, watchers, row, result>> /\ cur' = cur + 1
    BY <1>0, <1>1 DEF TypeLine, HeldInv, Types
  <2> QED
    BY <1>0, <1>a, <2>1 DEF RowInv
<1>2. CASE SimpleCommand \/ Capture \/ Other
  <2>1. ~About'
    <3>1. CASE SimpleCommand
      <4>1. Trap(running[level]) /\ running[level] \in 1..Hook /\ at = "body"
        BY <1>0, <3>1 DEF SimpleCommand, PlaceInv, Hook
      <4> QED
        BY <1>0, <3>1, <4>1, TrapDisarms DEF SimpleCommand, About, Types
    <3>2. CASE Capture
      BY <1>0, <3>2 DEF Capture, About, Types
    <3>3. CASE Other
      BY <1>0, <3>3 DEF Other, About, Types
    <3> QED
      BY <1>2, <3>1, <3>2, <3>3
  <2> QED
    BY <1>0, <1>2, <2>1, SilentSteps DEF Silent, RowInv
<1>3. CASE LineEnds
  <2>1. /\ UNCHANGED <<level, pid, watchers, row, cur>> /\ (About' => About)
        /\ \A l \in Line : result[l] # "none" => result'[l] # "none"
    BY <1>0, <1>3 DEF LineEnds, About, Types
  <2> QED
    BY <1>0, <1>a, <2>1 DEF RowInv
<1>4. CASE EmptyLine
  <2>1. ~About' /\ UNCHANGED <<level, pid, watchers, row, cur, result>>
    BY <1>0, <1>4 DEF EmptyLine, About, Types
  <2> QED
    BY <1>0, <2>1 DEF RowInv
<1>5. CASE InnerBegins
  <2>1. /\ level = 1 /\ what[running[1]] = "shell" /\ ~About' /\ place[1] = "inner"
        /\ UNCHANGED <<watchers, row, cur, result>>
    BY <1>0, <1>5 DEF InnerBegins, PlaceInv, Types, About
  <2>2. ~(pid[1] # 0 /\ watchers[pid[1]].pc = "up")
    <3>1. SUFFICES ASSUME pid[1] # 0, watchers[pid[1]].pc = "up" PROVE FALSE
      OBVIOUS
    <3>2. watchers[pid[1]].line = running[1] /\ pid[1] \in Watcher
      BY <1>0, <2>1, <3>1 DEF HeldInv, Types, Held
    <3> QED
      BY <1>0, <2>1, <3>1, <3>2 DEF NameInv
  <2> QED
    BY <1>0, <2>1, <2>2 DEF RowInv
<1>6. CASE InnerExits
  <2>1. /\ watchers' = Signalled(watchers, pid[level], "TERM") /\ ~About' /\ at # "off"
        /\ UNCHANGED <<row, cur>> /\ level = 2
        /\ pid[level] \in {0} \cup Watcher
    BY <1>0, <1>6 DEF InnerExits, PlaceInv, Types, About, Held
  <2>2. /\ \A w \in Watcher : watchers[w].sig # "none" => watchers'[w].sig # "none"
    BY <1>0, <2>1, SignalReport
  <2>3. \A w \in Watcher : watchers'[w].line = watchers[w].line
                           /\ watchers'[w].pc \in {watchers[w].pc, "gone"}
    <3>1. watchers \in [Watcher -> WatcherRecord]
      BY <1>0 DEF Types
    <3> QED
      BY <2>1, <3>1, SignalledKeeps
  <2>4. row.line # 0 /\ row.state = "running" => result'[row.line] # "none"
    <3>1. CASE row.line = running[2]
      BY <1>0, <1>6, <1>a, <3>1 DEF InnerExits, Types
    <3>2. CASE row.line # running[2]
      <4>1. pid[2] # 0 => watchers[pid[2]].line = running[2]
        BY <1>0, <2>1 DEF HeldInv
      <4>2. row.line # 0 /\ row.state = "running" => result[row.line] # "none"
        BY <1>0, <2>1, <3>2, <4>1 DEF RowInv
      <4>3. result' = [result EXCEPT ![running[2]] = "ok"]
        BY <1>6 DEF InnerExits
      <4> QED
        BY <1>0, <1>a, <3>2, <4>2, <4>3 DEF Types
    <3> QED
      BY <3>1, <3>2
  <2> QED
    BY <1>0, <2>1, <2>2, <2>3, <2>4 DEF RowInv
<1>7. CASE Precmd
  <2>1. UNCHANGED <<level, running, cur, result>> /\ at = "precmd" /\ ~About'
    BY <1>0, <1>7 DEF Precmd, About, Types
  <2>2. CASE pid[level] = 0
    <3>1. UNCHANGED <<watchers, pid, row>>
      BY <1>7, <2>2 DEF Precmd
    <3> QED
      BY <1>0, <2>1, <3>1 DEF RowInv
  <2>3. CASE pid[level] # 0
    <3>1. /\ pid[level] \in Watcher /\ watchers' = Signalled(watchers, pid[level], "USR1")
          /\ row' = IF osc /\ Mine(pid[level]) THEN [row EXCEPT !.state = FinalState] ELSE row
      BY <1>0, <1>7, <2>3 DEF Precmd, Types, Held
    <3>2. /\ \A w \in Watcher : watchers[w].sig # "none" => watchers'[w].sig # "none"
          /\ watchers'[pid[level]].pc = "gone" \/ watchers'[pid[level]].sig # "none"
      BY <1>0, <2>1, <2>3, <3>1, SignalReport
    <3>3. \A w \in Watcher : watchers'[w].line = watchers[w].line
                             /\ watchers'[w].pc \in {watchers[w].pc, "gone"}
      <4>1. watchers \in [Watcher -> WatcherRecord] /\ pid[level] \in {0} \cup Watcher
        BY <1>0, <3>1 DEF Types
      <4> QED
        BY <3>1, <4>1, SignalledKeeps
    <3>4. row.line # 0 /\ row.state = "running" => result[row.line] # "none"
      <4>1. /\ watchers[pid[level]].line = running[level]
            /\ last[level].kept = result[running[level]] /\ level \in Shell
        BY <1>0, <2>1, <2>3, <3>1 DEF HeldInv, StatusInv, Types
      <4>2. last[level].kept # "none"
        BY <1>0, <4>1 DEF Types, StatusRecord
      <4> QED
        BY <1>0, <4>1, <4>2 DEF RowInv
    <3>5. CASE osc /\ Mine(pid[level])
      <4>1. /\ row'.state = FinalState /\ row'.line = watchers[pid[level]].line
            /\ row.line = watchers[pid[level]].line /\ row.state = "running"
        BY <3>1, <3>5 DEF Mine
      <4>2. FinalState \in {"failed", "done"} /\ row.line # 0
        BY <1>0, <4>1 DEF FinalState, RowInv
      <4>3. \A w \in Watcher : watchers'[w].line = row.line => w = pid[level]
        BY <1>0, <3>1, <3>3, <4>1, <4>2 DEF SpawnInv, OnePerLine
      <4> QED
        BY <1>0, <2>1, <3>2, <3>3, <4>1, <4>2, <4>3 DEF RowInv
    <3>6. CASE ~(osc /\ Mine(pid[level]))
      <4>1. row' = row
        BY <3>1, <3>6
      <4> QED
        BY <1>0, <2>1, <3>2, <3>3, <3>4, <4>1 DEF RowInv
    <3> QED
      BY <3>5, <3>6
  <2> QED
    BY <2>2, <2>3
<1>8. ASSUME NEW w \in Watcher, WatcherStep(w) PROVE RowInv'
  <2>1. UNCHANGED <<level, pid, running, cur, result>> /\ About' = About
    BY <1>8 DEF WatcherStep, Boot, Report, Finish, About
  <2>2. CASE Boot(w)
    <3>1. /\ watchers[w].pc = "boot" /\ watchers'[w].pc \in {"up", "parked"}
          /\ watchers'[w].line = watchers[w].line
          /\ \A v \in Watcher : v # w => watchers'[v] = watchers[v]
          /\ row' \in {row, NoRow}
      BY <1>0, <2>2 DEF Boot, Types, WatcherRecord
    <3>2. CASE row' = NoRow
      BY <3>2 DEF RowInv, NoRow
    <3>3. CASE row' = row
      <4>1. /\ pid[level] # 0 /\ watchers[pid[level]].pc = "up" => pid[level] # w
            /\ row.line # 0 => watchers[w].line # row.line
        BY <1>0, <3>1 DEF RowInv
      <4>2. pid[level] # 0 => pid[level] \in Watcher
        BY <1>0 DEF Types, Held
      <4> QED
        BY <1>0, <2>1, <3>1, <3>3, <4>1, <4>2 DEF RowInv
    <3> QED
      BY <3>1, <3>2, <3>3
  <2>3. CASE Report(w)
    <3>1. /\ watchers[w].pc = "up" /\ watchers[w].sig = "none" /\ pid[level] = w
          /\ row'.state = "running" /\ row'.line = watchers[w].line
          /\ UNCHANGED watchers
      BY <1>0, <2>3 DEF Report, ReportInv
    <3>2. watchers[w].line # 0 /\ \A v \in Watcher : watchers[v].line = watchers[w].line => v = w
      BY <1>0, <3>1 DEF SpawnInv, OnePerLine, NoWatcher, Types
    <3>3. About => watchers[w].line # cur
      BY <1>0 DEF SpawnInv
    <3>4. w # 0
      OBVIOUS
    <3> QED
      BY <2>1, <3>1, <3>2, <3>3, <3>4 DEF RowInv
  <2>4. CASE Finish(w)
    <3>1. /\ watchers[w].sig # "none" /\ watchers'[w].pc = "gone"
          /\ watchers'[w].line = watchers[w].line
          /\ \A v \in Watcher : v # w => watchers'[v] = watchers[v]
      BY <1>0, <2>4 DEF Finish, Types, Gone
    <3>2. pid[level] # w
      <4>1. place[level] # "off" /\ level \in Shell
        BY <1>0 DEF PlaceInv, Types
      <4> QED
        BY <1>0, <3>1, <4>1 DEF HeldInv
    <3>3. CASE row' = NoRow
      BY <3>3 DEF RowInv, NoRow
    <3>4. CASE row' = row
      <4>1. pid[level] # 0 => watchers'[pid[level]] = watchers[pid[level]]
        BY <1>0, <3>1, <3>2 DEF Types, Held
      <4> QED
        BY <1>0, <2>1, <3>1, <3>4, <4>1 DEF RowInv
    <3>5. CASE Mine(w) /\ row' = [row EXCEPT !.state = "failed"]
      <4>1. row'.state = "failed" /\ row'.line = watchers[w].line /\ row.line = watchers[w].line
            /\ row.state = "running"
        BY <3>5 DEF Mine
      <4>2. row.line # 0
        BY <1>0, <4>1 DEF RowInv
      <4>3. \A v \in Watcher : watchers[v].line = row.line => v = w
        BY <1>0, <4>1, <4>2 DEF SpawnInv, OnePerLine
      <4> QED
        BY <1>0, <2>1, <3>1, <4>1, <4>2, <4>3 DEF RowInv
    <3> QED
      BY <2>4, <3>3, <3>4, <3>5 DEF Finish
  <2> QED
    BY <1>8, <2>2, <2>3, <2>4 DEF WatcherStep
<1>9. CASE UNCHANGED vars
  BY <1>0, <1>9 DEF vars, RowInv, About
<1>10. ~Start
  BY DEF Start, About
<1> QED
  BY <1>1, <1>2, <1>3, <1>4, <1>5, <1>6, <1>7, <1>8, <1>9, <1>10 DEF Next, ShellStep

(* A step that starts a watcher is Start, a command of the line, or the    *)
(* first entry of PROMPT_COMMAND.                                          *)
LEMMA SpawnSteps ==
  ASSUME "trap" \notin Empty, LineInv, Next, NEW q \in 0..Hook, About, Preexec(q)
  PROVE  Start \/ SimpleCommand \/ Capture
<1> USE Constants DEF shellVars, fileVars, at, kind
<1>1. /\ spawned' = spawned + 1 /\ spawned \in Nat /\ level \in Shell
      /\ place[level] \in {"start", "body", "capture"}
  BY PreexecIs DEF LineInv, Types, About
<1>2. spawned' # spawned
  BY <1>1
<1>3. ~Other /\ ~Precmd
  BY <1>1 DEF Other, Precmd
<1> QED
  BY <1>2, <1>3 DEF Next, ShellStep, TypeLine, InnerBegins, InnerExits, LineEnds, EmptyLine,
     WatcherStep, Boot, Report, Finish

LEMMA NextFit ==
  ASSUME Fitting, "trap" \notin Empty, LineInv, FitInv, [Next]_vars
  PROVE  FitInv'
<1> USE Constants DEF shellVars, fileVars, at, kind, Go
<1>0. Types /\ PlaceInv /\ SpawnInv
  BY DEF LineInv
<1>1. CASE ~ \E p \in 0..Hook : About /\ Preexec(p)
  BY <1>1, NextName, NextReport, NextRow DEF FitInv
<1>2. CASE \E p \in 0..Hook : About /\ Preexec(p)
  <2>1. PICK q \in 0..Hook : About /\ Preexec(q)
    BY <1>2
  <2>2. spawned' = spawned + 1 /\ spawned \in Nat
    BY <1>0, <2>1, PreexecIs DEF Types
  <2>3. Next
    BY <2>2 DEF vars
  <2>4. CASE Start
    <3>1. About /\ Preexec(0) /\ 0 \in 0..Hook /\ at = "start"
      BY <2>1, <2>4 DEF Start
    <3>2. ~About'
      BY <1>0, <2>4 DEF Start, About, PlaceInv, Types
    <3>3. UNCHANGED <<kinds, osc, level, running, cur, what, result, matched>>
      BY <2>4 DEF Start
    <3> QED
      BY <3>1, <3>2, <3>3, PreexecFit
  <2>5. CASE SimpleCommand
    <3>1. Trap(running[level]) /\ running[level] \in 1..Hook /\ at = "body"
      BY <1>0, <2>5 DEF SimpleCommand, PlaceInv, Hook
    <3>2. ~About'
      BY <1>0, <2>5, <3>1, TrapDisarms DEF SimpleCommand, About, Types
    <3>3. UNCHANGED <<kinds, osc, level, running, cur, what, result, matched>>
      BY <2>5 DEF SimpleCommand
    <3>4. kind = "trap" /\ running[level] = cur /\ running[level] \in 0..Hook /\ running[level] # 0
      BY <1>0, <2>1, <3>1 DEF About, PlaceInv
    <3>5. Preexec(running[level])
      BY <2>1, <3>1, TrapIs, <2>2
    <3> QED
      BY <2>1, <3>1, <3>2, <3>3, <3>4, <3>5, PreexecFit
  <2>6. CASE Capture
    <3>1. Trap(Hook) /\ Hook \in 1..Hook /\ at = "capture" /\ Hook \in 0..Hook
      BY <2>6 DEF Capture, Hook
    <3>2. ~About'
      BY <1>0, <2>6 DEF Capture, About, Types
    <3>3. UNCHANGED <<kinds, osc, level, running, cur, what, result, matched>>
      BY <2>6 DEF Capture
    <3>4. kind = "trap" /\ what[cur] # "shell"
      BY <1>0, <2>1, <3>1 DEF About, PlaceInv
    <3>5. Preexec(Hook)
      BY <2>1, <3>1, TrapIs, <2>2
    <3> QED
      BY <2>1, <3>1, <3>2, <3>3, <3>4, <3>5, PreexecFit
  <2> QED
    BY <2>1, <2>3, <2>4, <2>5, <2>6, SpawnSteps
<1> QED
  BY <1>1, <1>2

LEMMA FitHolds ==
  ASSUME "trap" \notin Empty, Fitting
  PROVE  Spec => [](LineInv /\ FitInv)
<1>1. LineInv /\ FitInv /\ [Next]_vars => (LineInv /\ FitInv)'
  BY NextTypes, NextPlace, NextSpawn, NextStatus, NextFit DEF LineInv
<1> QED
  BY <1>1, InitLine, InitFit, PTL DEF Spec

(* What is matched against the ignore list is never the program of another *)
(* line, with shells that agree on whether `name` is written: it is        *)
(* consumed before the next line, and a shell never starts a watcher while *)
(* another one's name is still there (watch.rs:97-100).                    *)
THEOREM OwnProgramHolds ==
  ASSUME "trap" \notin Empty, \A p \in Shells : p[1] = "zsh" <=> p[2] = "zsh"
  PROVE  Spec => []OwnProgram
<1>1. LineInv /\ FitInv => OwnProgram
  BY DEF FitInv, NameInv
<1> QED
  BY <1>1, FitHolds, PTL DEF Fitting

(* The steps that change the row: the hook's own clear, `finish`, and the  *)
(* clear, the report and the end of a watcher.                             *)
LEMMA RowMoves ==
  ASSUME LineInv, FitInv, [Next]_vars, row' # row, "trap" \notin Empty
  PROVE  \/ About /\ row.line # cur /\ pid[level] = 0 /\ UNCHANGED result
         \/ Precmd /\ pid[level] # 0 /\ Mine(pid[level])
         \/ \E w \in Watcher : WatcherStep(w)
<1> USE Constants DEF shellVars, fileVars, at, kind
<1>0. Types /\ PlaceInv /\ SpawnInv /\ RowInv
  BY DEF LineInv, FitInv
<1>1. CASE Start \/ SimpleCommand \/ Capture
  <2>1. About
    <3>1. CASE Start
      BY <3>1 DEF Start, About
    <3>2. CASE SimpleCommand
      BY <3>2, Zenon DEF SimpleCommand, Trap, About
    <3>3. CASE Capture
      BY <3>3, Zenon DEF Capture, Trap, About
    <3> QED
      BY <1>1, <3>1, <3>2, <3>3
  <2>2. UNCHANGED result
    BY <1>1 DEF Start, SimpleCommand, Capture
  <2>3. row.line # cur
    BY <1>0, <2>1 DEF RowInv, PlaceInv
  <2> QED
    BY <1>0, <2>1, <2>2, <2>3 DEF SpawnInv
<1>2. ~Other
  BY OtherSilent
<1>3. CASE Precmd
  BY <1>3 DEF Precmd
<1> QED
  BY <1>1, <1>2, <1>3 DEF Next, ShellStep, TypeLine, InnerBegins, InnerExits, LineEnds,
     EmptyLine, vars

(* A failure label stays until the next command is typed (README.md:22),   *)
(* wherever it is typed and whatever the watchers of earlier lines do.     *)
THEOREM LabelStandsHolds ==
  ASSUME "trap" \notin Empty, \A p \in Shells : p[1] = "zsh" <=> p[2] = "zsh"
  PROVE  Spec => LabelStands
<1>1. LineInv /\ FitInv /\ [Next]_vars =>
        [row.state = "failed" /\ row' # row => cur > row.line]_vars
  <2> SUFFICES ASSUME LineInv, FitInv, [Next]_vars, row.state = "failed", row' # row
               PROVE  cur > row.line
    OBVIOUS
  <2>0. Types /\ SpawnInv /\ StatusInv /\ HeldInv /\ NameInv /\ ReportInv /\ RowInv /\ PlaceInv
    BY DEF LineInv, FitInv
  <2>1. row.line \in 1..cur /\ cur \in Nat
    BY <2>0, Constants DEF RowInv, StatusInv, Types
  <2>2. SUFFICES row.line # cur
    BY <2>1
  <2>3. ~(Precmd /\ pid[level] # 0 /\ Mine(pid[level]))
    BY DEF Mine
  <2>4. ASSUME NEW w \in Watcher, Boot(w) PROVE row.line # cur
    BY <2>0, <2>1, <2>4 DEF Boot, SpawnInv, RowInv
  <2>5. ASSUME NEW w \in Watcher, Report(w) PROVE row.line # cur
    <3>1. watchers[w].pc = "up" /\ watchers[w].sig = "none" /\ pid[level] = w /\ w # 0
      BY <2>0, <2>5, Constants DEF Report, ReportInv
    <3>2. watchers[w].line # row.line
      BY <2>0, <2>1, <3>1 DEF RowInv
    <3>3. watchers[w].line = running[level]
      BY <2>0, <3>1 DEF HeldInv, PlaceInv, Types, Shell, at
    <3>4. running[level] = cur
      BY <2>0, <3>1, <3>3 DEF ReportInv, NameInv
    <3> QED
      BY <3>2, <3>3, <3>4
  <2>6. ASSUME NEW w \in Watcher, Finish(w) PROVE FALSE
    BY <2>6 DEF Finish, Mine
  <2> QED
    BY <2>3, <2>4, <2>5, <2>6, RowMoves DEF WatcherStep
<1> QED
  BY <1>1, FitHolds, PTL DEF Spec, LabelStands, Fitting

(* The report of a command stands while the command runs: neither the      *)
(* lines of a shell in it nor an earlier watcher takes it down             *)
(* (config.rs:50-53).                                                      *)
THEOREM ReservationStandsHolds ==
  ASSUME "trap" \notin Empty, \A p \in Shells : p[1] = "zsh" <=> p[2] = "zsh"
  PROVE  Spec => ReservationStands
<1>1. LineInv /\ FitInv /\ [Next]_vars =>
        [row.state = "running" /\ row.line # 0 /\ row' # row => result'[row.line] # "none"]_vars
  <2> SUFFICES ASSUME LineInv, FitInv, [Next]_vars,
                      row.state = "running", row.line # 0, row' # row
               PROVE  result'[row.line] # "none"
    OBVIOUS
  <2>0. Types /\ SpawnInv /\ StatusInv /\ HeldInv /\ NameInv /\ ReportInv /\ RowInv /\ PlaceInv
    BY DEF LineInv, FitInv
  <2>1. result[row.line] # "none" => result'[row.line] # "none"
    <3>1. row.line \in Line
      BY <2>0, Constants DEF StatusInv, Types
    <3> QED
      BY <2>0, <3>1, RowMoves DEF Precmd, WatcherStep, Boot, Report, Finish, shellVars
  <2>2. SUFFICES ASSUME result[row.line] = "none" PROVE FALSE
    BY <2>1
  <2>3. /\ pid[level] # 0 /\ watchers[pid[level]].line = row.line
        /\ watchers[pid[level]].pc = "up"
    BY <2>0, <2>2 DEF RowInv
  <2>4. ~Precmd
    <3>1. watchers[pid[level]].line = running[level] /\ level \in Shell
      BY <2>0, <2>3 DEF HeldInv, PlaceInv, Types, Shell, at
    <3>2. last[level].kept # "none"
      BY <2>0, <3>1 DEF Types, StatusRecord
    <3> QED
      BY <2>0, <2>2, <2>3, <3>1, <3>2 DEF StatusInv, Precmd
  <2>5. pid[level] \in Watcher /\ watchers[pid[level]].sig = "none"
    BY <2>0, <2>3, Constants DEF HeldInv, PlaceInv, Types, Held, at
  <2>6. ASSUME NEW w \in Watcher, Boot(w) PROVE FALSE
    BY <2>0, <2>3, <2>6 DEF Boot, StatusInv, ReportInv
  <2>7. ASSUME NEW w \in Watcher, Report(w) PROVE FALSE
    <3>1. pid[level] = w /\ row' = [state |-> "running", line |-> watchers[w].line]
      BY <2>0, <2>7 DEF Report, ReportInv
    <3>2. row' = row
      BY <2>0, <2>3, <3>1 DEF Types, RowRecord
    <3> QED
      BY <3>2
  <2>8. ASSUME NEW w \in Watcher, Finish(w) PROVE FALSE
    <3>1. Mine(w) /\ watchers[w].sig # "none"
      BY <2>8 DEF Finish
    <3>2. watchers[w].line = row.line
      BY <3>1 DEF Mine
    <3>3. w = pid[level]
      BY <2>3, <2>0, <2>5, <3>2 DEF SpawnInv, OnePerLine
    <3> QED
      BY <2>5, <3>1, <3>3
  <2> QED
    BY <2>3, <2>4, <2>6, <2>7, <2>8, RowMoves DEF WatcherStep
<1> QED
  BY <1>1, FitHolds, PTL DEF Spec, ReservationStands, Fitting
=============================================================================
