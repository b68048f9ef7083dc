------------------------------ MODULE Reports ------------------------------
(***************************************************************************)
(* What is said about one command, from the line that is typed to the text *)
(* in the sidebar or in the terminal: the hook writes its files and calls  *)
(* the binary, which parses the call, loads its settings, names the        *)
(* command, and renders a report at every tick and one at the end.         *)
(*                                                                         *)
(* The processes take turns here, and no request fails; PaneWatch and      *)
(* OscWatch have the interleavings, the markers, the clearing and the      *)
(* lingering, and nothing of the texts.                                    *)
(***************************************************************************)
EXTENDS Texts, Settings, Invocation, TtyWrite

CONSTANTS
    Jobs,       \* commands: shell, osc, clear, typed, ran and program
    Files,      \* contents of config.toml
    Instants,   \* what the wall clock may say, in milliseconds
    Statuses,   \* what the exit file may hold, "" when it was not written
    Replies     \* what `keylock status` may say: "locked", "unlocked", "none"

ASSUME ReportsAssumption ==
    /\ Instants \subseteq Nat
    /\ \A f \in Files : Unsigned(f)
    /\ Replies \subseteq {"locked", "unlocked", "none"}
    /\ \A s \in Statuses : Number(s) \in 0..255 \cup {NaN}
    /\ \A j \in Jobs : /\ j.shell \in {"zsh", "bash", "preexec", "fish"}
                        /\ {j.osc, j.clear} \subseteq BOOLEAN

VARIABLES
    job, file,
    phase,      \* "prompt", "called", "watching", "parked", "ended", "finished"
    call,       \* the last call of the binary, as it was parsed
    cmd, name,  \* files the hook writes; NoLine when empty or absent
    osc_start,  \* file: start and program of the command that was reported
    status,     \* the finished command's exit status
    cfg,
    machine,    \* Machine: agent, title, display, start, reported, locked
    asked,      \* how long the command had run at the last report
    wire,       \* the requests of the last report
    record      \* the record last given to write_tty

vars == <<job, file, phase, call, cmd, name, osc_start, status, cfg, machine,
          asked, wire, record, tty>>

NoLine == <<>>
NoRecord == [state |-> "none"]
NoMachine == [agent |-> "", title |-> <<>>, display |-> <<>>, start |-> 0,
              reported |-> FALSE, locked |-> FALSE]
NoStart == [start |-> 0, agent |-> ""]
SpawnedAt == 1000   \* what the clock says when the command starts

TypeOK ==
    /\ job \in Jobs /\ file \in Files
    /\ phase \in {"prompt", "called", "watching", "parked", "ended", "finished"}
    /\ cfg.tick_ms >= 250 /\ cfg.threshold_ms >= 250 /\ cfg.max_display_len >= 8
    /\ cfg.lock_timeout_ms \in 50..cfg.tick_ms
    /\ asked \in Nat
    /\ TtyType

Init ==
    /\ job \in Jobs /\ file \in Files
    /\ phase = "prompt" /\ call = None
    /\ cmd = NoLine /\ name = NoLine /\ osc_start = NoStart /\ status = ""
    /\ cfg = Default
    /\ machine = NoMachine
    /\ asked = 0 /\ wire = <<>> /\ record = NoRecord
    /\ tty = TtyIdle
-----------------------------------------------------------------------------
(* The hook.  zsh has the line with its aliases expanded; bash has the     *)
(* line as typed, and the expanded one for `name`; the others have only    *)
(* the line as typed.                                                      *)
HookCall == [pane |-> "w1:p1", start |-> "1000", clear |-> job.clear, osc |-> job.osc]

Preexec ==
    /\ phase = "prompt"
    /\ cmd' = IF job.shell = "zsh" THEN job.ran ELSE job.typed
    /\ name' = IF job.shell = "bash" THEN job.ran ELSE NoLine
    /\ call' = Invoke(WatchCall(job.shell, HookCall))
    /\ phase' = "called"
    /\ UNCHANGED <<job, file, osc_start, status, cfg, machine, asked, wire, record, tty>>

(* run_with, up to the loop.  The name is consumed.                        *)
IgnoreNameOfLine == AgentName(cmd)
IgnoreName == IF name # NoLine THEN AgentName(name) ELSE AgentName(cmd)

Boot ==
    /\ phase = "called" /\ call # None
    /\ LET loaded == Load(file)
       IN  /\ cfg' = loaded
           /\ machine' = [NoMachine EXCEPT
                 !.agent = IgnoreName,
                 !.title = Truncate(Joined(cmd), loaded.max_title_len),
                 !.display = DisplayName(cmd, loaded.max_display_len),
                 !.start = IF call.start = NaN THEN SpawnedAt ELSE call.start]
           /\ phase' = IF IsIgnored(loaded, IgnoreName) THEN "parked" ELSE "watching"
    /\ name' = NoLine
    /\ UNCHANGED <<job, file, call, cmd, osc_start, status, asked, wire, record, tty>>
-----------------------------------------------------------------------------
(* The Herdr TUI.  An optional field is a set of at most one text.         *)
SOURCE == "shell-progress"
AGENT_ID == "shell"
MAX_TTL_MS == 86400000

Elapsed(now) == IF now < machine.start THEN 0 ELSE now - machine.start

ReportAgent(state, message) ==
    [method |-> "report_agent", source |-> SOURCE, agent |-> AGENT_ID,
     state |-> state, message |-> message]
MetadataSwapped(state, title, display, label, ttl) ==
    [method |-> "report_metadata", source |-> SOURCE, title |-> display,
     display |-> title, cmd |-> machine.title, state |-> state,
     label |-> label, ttl |-> ttl]
Metadata(state, title, display, label, ttl) ==
    [method |-> "report_metadata", source |-> SOURCE, title |-> title,
     display |-> display, cmd |-> machine.title, state |-> state,
     label |-> label, ttl |-> ttl]
Release == [method |-> "release_agent", source |-> SOURCE, agent |-> AGENT_ID]

RunningLabel(elapsed) ==
    Render(cfg.running, [elapsed |-> FormatElapsed(elapsed), cmd |-> machine.title,
                         agent |-> <<machine.agent>>])

FinishLabel(outcome, elapsed) ==
    LET Only(kind) == IF outcome.kind = kind THEN outcome.value ELSE <<>>
    IN  Render(cfg[outcome.kind],
               [elapsed |-> FormatElapsed(elapsed), code |-> Only("failure"),
                signal |-> Only("signal"), cmd |-> machine.title,
                agent |-> <<machine.agent>>])

(* LockProbe is made for keylock only, and not without a prefix.           *)
Probed(reply) ==
    IF ~IsKeylock(machine.agent) \/ cfg.prefix = <<>> \/ reply = "none"
    THEN machine.locked ELSE reply = "locked"

RunningCut(text, locked) ==
    IF locked THEN Truncate(Decorate(text, cfg.prefix), Len(text)) ELSE text
Running(text, locked) == IF locked THEN Decorate(text, cfg.prefix) ELSE text

OnTick ==
    /\ phase = "watching" /\ ~call.osc
    /\ \E now \in Instants, reply \in Replies :
          LET locked == Probed(reply)
              metadata == Metadata("working", Running(machine.title, locked),
                            Running(machine.display, locked),
                            RunningLabel(Elapsed(now)), 0)
          IN  /\ machine.reported \/ Elapsed(now) >= cfg.threshold_ms
              /\ machine' = [machine EXCEPT !.locked = locked, !.reported = TRUE]
              /\ wire' = IF machine.reported THEN <<metadata>>
                         ELSE <<ReportAgent("working", {machine.title}), metadata>>
              /\ asked' = Elapsed(now)
    /\ UNCHANGED <<job, file, phase, call, cmd, name, osc_start, status, cfg, record, tty>>

(* A tick that finds the threshold still ahead, as after a clock that was  *)
(* set back: the answer of keylock is kept, and nothing is sent.           *)
EarlyTick ==
    /\ phase = "watching" /\ ~call.osc /\ ~machine.reported
    /\ \E now \in Instants, reply \in Replies :
          /\ Elapsed(now) < cfg.threshold_ms
          /\ machine' = [machine EXCEPT !.locked = Probed(reply)]
    /\ UNCHANGED <<job, file, phase, call, cmd, name, osc_start, status, cfg, asked, wire,
                   record, tty>>

(* The command ends and the hook leaves its status.                        *)
CommandEnds ==
    /\ phase \in {"watching", "parked"} /\ ~(tty.pc \in {"opening", "writing"})
    /\ \E s \in Statuses :
          /\ job.osc => s # ""
          /\ status' = s
    /\ phase' = "ended"
    /\ UNCHANGED <<job, file, call, cmd, name, osc_start, cfg, machine, asked, wire, record, tty>>

ExitCodeOrZero == IF Number(status) = NaN THEN 0 ELSE Number(status)
ExitCode == IF Number(status) = NaN THEN NoCode ELSE Number(status)

OnFinish ==
    /\ phase = "ended" /\ ~call.osc /\ machine.reported
    /\ \E now \in Instants :
          LET outcome == Classify(ExitCode)
              ttl == IF cfg.success_sticky_ms > MAX_TTL_MS THEN MAX_TTL_MS
                     ELSE cfg.success_sticky_ms
              Settled(t) ==
                  <<ReportAgent("idle", {}),
                    Metadata("idle", machine.title, machine.display,
                             FinishLabel(outcome, Elapsed(now)), t)>>
          IN  /\ wire' = CASE outcome.kind = "failure" /\ cfg.failure_sticky -> Settled(0)
                           [] ~(outcome.kind = "failure" /\ cfg.failure_sticky)
                                /\ ttl = 0 -> <<Release>>
                           [] OTHER -> Settled(ttl)
              /\ asked' = Elapsed(now)
    /\ phase' = "finished"
    /\ UNCHANGED <<job, file, call, cmd, name, osc_start, status, cfg, machine, record, tty>>
-----------------------------------------------------------------------------
(* The desktop app.                                                        *)
ReportWorking ==
    /\ phase = "watching" /\ call.osc /\ ~machine.reported
    /\ \E now \in Instants :
          /\ Elapsed(now) >= cfg.threshold_ms
          /\ asked' = Elapsed(now)
    /\ machine' = [machine EXCEPT !.reported = TRUE]
    /\ osc_start' = [start |-> machine.start, agent |-> machine.agent]
    /\ record' = Report("working", machine.agent, machine.title, machine.title)
    /\ TtyCall
    /\ UNCHANGED <<job, file, phase, call, cmd, name, status, cfg, wire>>

FinishState(outcome) ==
    CASE outcome.kind = "failure" /\ cfg.failure_sticky -> "error"
      [] ~(outcome.kind = "failure" /\ cfg.failure_sticky)
           /\ cfg.success_sticky_ms = 0 -> "clear"
      [] OTHER -> IF outcome.kind = "success" THEN "done" ELSE "idle"

(* The hook calls `finish` when there is an osc-start.                     *)
Finish ==
    /\ phase = "ended" /\ call.osc /\ osc_start # NoStart
    /\ LET finish == Invoke(FinishCall(status))
           outcome == Classify(IF finish.exit = NaN THEN NoCode ELSE finish.exit)
           state == FinishState(outcome)
       IN  \E now \in Instants :
              /\ record' = IF state = "clear" THEN CLEAR
                           ELSE Report(state, osc_start.agent, machine.title,
                                       FinishLabel(outcome, Elapsed(now)))
              /\ asked' = Elapsed(now)
              /\ call' = finish
    /\ osc_start' = NoStart
    /\ phase' = "finished"
    /\ TtyCall
    /\ UNCHANGED <<job, file, cmd, name, status, cfg, machine, wire>>

Terminal ==
    /\ TtyStep
    /\ UNCHANGED <<job, file, phase, call, cmd, name, osc_start, status, cfg, machine,
                   asked, wire, record>>

Next == Preexec \/ Boot \/ EarlyTick \/ OnTick \/ CommandEnds \/ OnFinish
          \/ ReportWorking \/ Finish \/ Terminal

Spec == Init /\ [][Next]_vars
-----------------------------------------------------------------------------
(* The binary takes every call a hook makes, and takes it as it was meant; *)
(* a call it refuses shows nowhere (main.rs:14-16).                        *)
Understood ==
    /\ phase = "called" =>
          /\ call # None
          /\ call.clear_first = job.clear /\ call.osc = job.osc
          /\ call.start = IF job.shell = "zsh" THEN SpawnedAt ELSE NaN
    /\ phase = "finished" /\ job.osc => call # None

(* Where the shell tells what an alias stands for, nothing is ever said    *)
(* about a program of the ignore list, however it was called               *)
(* (command.rs:4-10, watch.rs:88-95).                                      *)
IgnoredSilent ==
    phase # "prompt" /\ job.shell \in {"zsh", "bash"} /\ IsIgnored(cfg, job.program)
      => wire = <<>> /\ record = NoRecord

(* A command is only reported as a success when 0 was read for it, and a   *)
(* label that stays only when it failed of itself (label.rs:36-37,         *)
(* osc.rs:64-66).                                                          *)
Failed == Number(status) \in 1..255 /\ Number(status) - 128 \notin DOMAIN SIGNALS
SuccessEarned ==
    /\ record.state = "done" => Number(status) = 0
    /\ record.state = "error" => Failed
    /\ phase = "finished" => \A i \in DOMAIN wire :
          wire[i].method = "report_metadata" =>
             /\ (\E k \in DOMAIN wire[i].label : wire[i].label[k] = SUCCESS_MARK)
                  => Number(status) = 0
             /\ wire[i].ttl = 0 => Failed

(* The lock is in front of the title and of the row's name while a keylock *)
(* session that is locked runs, whole, and of nothing else: not of `$cmd`, *)
(* the message or the final report (state.rs:17-20, 102-119, 135-147).     *)
LockOf(request) ==
    IF machine.locked /\ request.state = "working" THEN cfg.prefix ELSE <<>>
LockShown ==
    \A i \in DOMAIN wire :
        CASE wire[i].method = "report_metadata" ->
               /\ wire[i].title = LockOf(wire[i]) \o wire[i].cmd
               /\ wire[i].display = LockOf(wire[i]) \o machine.display
               /\ machine.locked => job.program = "keylock"
          [] wire[i].method = "report_agent" -> wire[i].message \subseteq {machine.title}
          [] OTHER -> TRUE

(* The row that is sent has a name; what follows the lock, if there is     *)
(* one, fits the cap, and says so if it was cut; Herdr takes the expiry    *)
(* (config.rs:10-13, state.rs:5-6, 111-119).                               *)
NameFits(shown, line, max) ==
    /\ shown # <<>> /\ Len(shown) <= max
    /\ line # <<>> /\ shown # line => Len(shown) = max /\ shown[max] = "ellipsis"
Unlocked(request) ==
    SubSeq(request.display, Len(LockOf(request)) + 1, Len(request.display))
RowNamed ==
    \A i \in DOMAIN wire :
        wire[i].method = "report_metadata" =>
            /\ NameFits(Unlocked(wire[i]), Joined(cmd), cfg.max_display_len)
            /\ Len(wire[i].cmd) <= cfg.max_title_len
            /\ wire[i].ttl <= 86400000

(* A duration in a label reads as the time since the start, to the second  *)
(* or from an hour on to the minute, with no part that overflows.          *)
DigitRead(c) == CHOOSE d \in 0..9 : Digit(d) = c
SecondsIn == [h |-> 3600, m |-> 60, s |-> 1]
ReadDuration(text) ==
    LET Read(acc, c) ==
            IF c \in DOMAIN SecondsIn
            THEN [total |-> acc.total + acc.n * SecondsIn[c], n |-> 0, unit |-> c,
                  sound |-> acc.sound /\ (c = "h" \/ acc.n < 60)]
            ELSE [acc EXCEPT !.n = 10 * @ + DigitRead(c)]
        read[i \in 0..Len(text)] ==
            IF i = 0 THEN [total |-> 0, n |-> 0, unit |-> "none", sound |-> TRUE]
            ELSE Read(read[i - 1], text[i])
    IN  read[Len(text)]
ElapsedReads ==
    \A i \in DOMAIN wire :
        /\ wire[i].method = "report_metadata" /\ wire[i].state = "working"
        /\ cfg.running = Default.running
        => LET read == ReadDuration(Tail(wire[i].label))
               left == asked \div 1000 - read.total
           IN  read.sound /\ 0 <= left /\ left < SecondsIn[read.unit]

Decoded(digits) ==
    LET Quad(k) == SubSeq(digits, 4 * k - 3, 4 * k)
        Plain(q) == [i \in 1..4 |-> IF q[i] = PAD THEN 0 ELSE q[i]]
        Number24(q) == ((q[1] * 64 + q[2]) * 64 + q[3]) * 64 + q[4]
        Three(n) == <<n \div 65536, (n \div 256) % 256, n % 256>>
        There(q) == CASE q[3] = PAD -> 1  [] q[3] # PAD /\ q[4] = PAD -> 2  [] OTHER -> 3
    IN  FlattenSeq([k \in 1..(Len(digits) \div 4) |->
                      SubSeq(Three(Number24(Plain(Quad(k)))), 1, There(Quad(k)))])
PlainBytes(text, k) ==
    FlattenSeq([i \in 1..k |-> IF text[i] \in Control THEN <<>> ELSE Bytes(text[i])])
Carries(field, text, max) ==
    LET bytes == Decoded(field)
    IN  /\ Len(bytes) <= max
        /\ \E k \in 0..Len(text) :
              /\ bytes = PlainBytes(text, k)
              /\ k < Len(text) => /\ text[k + 1] \notin Control
                                  /\ Len(bytes) + Len(Bytes(text[k + 1])) > max

(* What a record carries decodes to the text without its control           *)
(* characters, cut between two characters and no earlier than the cap      *)
(* requires: the title, and as the message the title again or, once the    *)
(* command has ended, the label of how it did (osc.rs:22-30, 135-136,      *)
(* osc_watch.rs:242-254).                                                  *)
RecordReads ==
    tty.pc = "opening" /\ record.state # "clear" =>
        /\ Carries(record.title, machine.title, 192)
        /\ record.state = "working" => Carries(record.msg, machine.title, 512)
        /\ record.state # "working" =>
              Carries(record.msg, FinishLabel(Classify(ExitCode), asked), 512)

(* A command line is text: where every template is `{cmd}` alone, a label  *)
(* and the message of a record are the title, braces of the command        *)
(* included (label.rs:53-83, osc_watch.rs:244).                            *)
CmdOnly == <<"{", "cmd", "}">>
AllLiteral == {cfg.running, cfg.success, cfg.failure, cfg.signal, cfg.unknown} = {CmdOnly}
CommandIsText ==
    AllLiteral =>
        /\ \A i \in DOMAIN wire :
              wire[i].method = "report_metadata" => wire[i].label = machine.title
        /\ tty.pc = "opening" /\ record.state # "clear" =>
              Carries(record.msg, machine.title, 512)
=============================================================================
