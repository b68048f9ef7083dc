# A verification of herdr-shell-progress

herdr-shell-progress reports slow shell commands. A hook in the shell starts one
watcher process for every command line; when the command takes longer than a
threshold the watcher reports it, and when the command ends the report is
replaced by its outcome. Several short-lived processes share a directory of
small files, a pane in Herdr's sidebar or a terminal, and nothing but signals
and the order of their file accesses keeps them from each other's reports. That
is what the modules here are about.

## Inventory

| Component | Source | State it keeps | Operations | Model |
|---|---|---|---|---|
| Shell hooks | `shell/init.{zsh,bash,fish}` | `_HSP_PID`, `_HSP_ARMED`; writes `cmd`, `name`, `exit`, truncates `osc-*` | preexec, precmd, exit hook, DEBUG trap | PaneWatch, OscWatch, BashHook, Invocation (partly) |
| Watcher, TUI backend | `src/watch.rs` | failure counter, signal channel, `marker` | start-up, clear, tick, finish, shell gone, linger, park | PaneWatch, WatchClock, Reports |
| Report machine | `src/state.rs` | `reported`, `locked` | on_tick, on_finish, on_shell_gone, clear_actions, next_wake_ms | PaneWatch, WatchClock, Reports |
| Socket client, requests | `src/socket.rs`, `src/proto.rs` | none | one request per connection, two-second timeouts | PaneWatch, Reports (partly) |
| Desktop-app backend | `src/osc_watch.rs` | `osc-start`, `osc-shown`, `osc-lock` | watch, report_working, finish, write_tty | OscWatch, TtyWrite, Reports |
| OSC records | `src/osc.rs` | none | finish_state, app_name, clean, base64, report | OscWatch, Texts |
| Outcomes and labels | `src/label.rs` | none | classify, format_elapsed, render | Texts |
| Keylock probe | `src/watch.rs`, `src/lock.rs` | last answer, enabled, child | poll, parse_status, decorate | WatchClock, Texts, Reports |
| Command names | `src/command.rs` | none | agent_name, display_name, truncate | Texts |
| Configuration | `src/config.rs` | none | load, sanitize, is_ignored | Settings, WatchClock |
| Command line | `src/args.rs`, `src/main.rs` | none | parse, parse_finish, dispatch | Invocation |
| Installation, demo, tests | `scripts/`, `herdr-plugin.toml`, `demo/`, `tests/` | none | | not modelled |

How they interact. `preexec` tells the previous watcher to go if precmd never
reached it, writes `cmd`, looks for `marker` and spawns the watcher. The watcher
reads `cmd`, installs its signal handlers, clears what the marker names, and
then either parks (ignored command, dead pane) or waits. At the threshold it
writes `marker` and reserves the pane over the socket. `precmd` writes `exit`,
sends SIGUSR1 and forgets the PID. The watcher reads `exit` and replaces the
report; a failure stays up for the next `preexec` to find, a success lingers
for a while and is released. In the desktop app the report is an escape
sequence in the terminal: the watcher writes `working`, the foreground
`finish` replaces it, and the next `preexec` clears it.

What is hard here, and what makes each part correct:

- *Several watchers at once.* The one of the last command may still be finishing
  or lingering when the next one starts. An older watcher must not disturb a
  newer one's report, and must not read the newer command's files as its own.
- *Crashes.* Whatever a killed watcher leaves behind, the next command must be
  able to take down: the marker or `osc-shown` is there whenever a report is.
- *Signals and PIDs.* The shell must never signal a PID whose watcher is gone.
- *Labels.* A label must never say `ok` of a command that failed.
- *Liveness.* A watcher ends when its shell does; no row stays at `working`.
- *The race at the threshold* (desktop app): the command ends while its watcher
  is deciding to report it.
- *Durations.* Floors and timeouts in the settings keep a lingering watcher and
  its replacement apart, and the end of a command prompt, whatever keylock does.
- *bash.* The DEBUG trap fires for everything, PROMPT_COMMAND included; it must
  start one watcher for a line, and none for a prompt.
- *Nested shells* share one state directory and one pane.
- *Texts.* What the hooks pass on must be parsed as it was meant, be cut between
  two characters, and never be taken for a template.

## Modules

**PaneWatch** models the TUI backend: hooks, watchers, files, socket and the
pane's row. Command lines are numbered 1..N and watcher w belongs to command w.
A step of a watcher is one access to something another process can see: opening
or filling `marker`, testing and unlinking it (two steps), a request, a signal.
The control point `pc[w]` says what is left of the action list the machine
returned: `c*` is the clear at the start, `t*` a tick, `s*` a sticky failure,
`f*` an expiring finish, then `release`, `check`, `unlink`.

| Model | Code |
|---|---|
| `PreexecStart`, `PreexecSpawn` | `_hsp_preexec` before and after the marker test |
| `PrecmdTruncate`, `PrecmdWrite`, `PrecmdSignal` | `_hsp_precmd`; the redirection truncates before the write |
| `Boot` | `run_with` up to the signal handlers; before that a signal kills |
| `Clear` | `read_marker`, `clear_actions` through `Driver::apply` |
| `Tick`, `Report` | the receive's timeout, `on_tick` |
| `Finish`, `Conclude` | SIGUSR1, `on_finish`, `linger` |
| `ShellGone` | SIGTERM or a dead shell, `on_shell_gone` |
| `Unpark` | `park` |
| `Send` | `socket::send` with `Driver::send` and the tests in `Driver::apply` |
| `Apply`, `Expire`, `ApplyLate`, `PaneCloses` | Herdr (external) |

A failed request is not applied at once but put into `late`, from where Herdr
may or may not apply it at any later time: the caller cannot tell.

**OscWatch** models the desktop-app backend: the OSC branches of the hooks,
`watch`, `report_working` and `finish`. `fs::write` is a truncation and a write
through the handle, so that a file unlinked in between loses what is written
to it (`opened` holds the writers whose handle still names the linked file).
`term` is the record the terminal shows. `write_tty` writes all of a record or
nothing.

**CommandStatus** is what both backends promise, without files, signals or
processes: one status at a time, of the command typed last; first `working`, then
the outcome, which never lies; a sticky one stays until the next command; nothing
goes up over something that is still there. **PaneStatus** and **OscStatus** map
PaneWatch and OscWatch onto it (`ImplementsStatus`). In the pane the status is the
agent state together with the label of the same watcher, because Herdr keeps the
two apart and a success's label expires by itself; on the terminal it is the
record. A command counts as typed when its predecessor can no longer report: once its own
watcher is spawned in the one, past the clear in the other.

**WatchClock** has two watchers and a clock: the old one lingers, the new one
starts, clears, waits for the threshold, probes keylock and ticks. Every step
takes the time it takes in the code, in units of 25 ms; a request takes up to
`Latency`, a start up to `Spawn`. Time passes only when no timer has run out. It is
where PaneWatch's assumption `gap` comes from.

| Model | Code |
|---|---|
| `OldLinger`, `OldRelease`, `OldCheck`, `OldUnlink` | `linger`, and the release and marker removal of an expired success |
| `NewType`, `NewBoot`, `NewRead`, `NewClears` | the hook's marker test, start-up and clear |
| `NewWake`, `NewReport`, `NewAgent`, `NewTick` | the main loop, `next_wake_ms`, `on_tick` |
| `NewSpawnProbe`, `NewAnswer`, `NewProbeTimeout` | `LockProbe::poll` |
| `Threshold`, `Tick`, `LockTimeout` | `Config::sanitize` |
| `Elapsed`, `ClockStepsBack` | `Machine::elapsed`, against a wall clock that is set back |

**BashHook** models how a line becomes a watcher: the DEBUG trap, its arming over
PROMPT_COMMAND, pipelines, subshells and empty lines, bash-preexec and zsh beside
it, a second shell inside the first, and the files `cmd` and `name`, which
`ignore_name` chooses between. Watchers are reduced to start-up, report and end, and
are assumed to have handled their signals before the next line is typed.

**Reports** follows one command from the line that is typed to the text that is
shown, through **Invocation** (the words of each hook's call and the two parsers of
`args.rs`), **Settings** (the defaults, partial and broken files, `sanitize`, the
ignore list) and **Texts** (`agent_name`, `truncate`, `format_elapsed`, `classify`,
`render`, `app_name`, `clean`, `base64`). **TtyWrite** is `write_tty`, write by
write: it may take a part, nothing, or fail, and goes from non-blocking to blocking
once it has begun. A text is a sequence of symbols, with its bytes where a byte is
counted; a command line is a sequence of words. What a word says as a number is a
parameter, `Readings`: the run gives a table of every number it uses.

| Model | Code |
|---|---|
| `Preexec`, `Boot` | `_hsp_preexec` and the call it makes; `run_with` up to the loop |
| `EarlyTick`, `OnTick` | the loop's timeout: keylock's answer is kept, and `on_tick` sends nothing before the threshold |
| `CommandEnds`, `OnFinish` | `_hsp_precmd`, `on_finish` |
| `ReportWorking`, `Finish`, `Terminal` | `report_working`, `finish`, `write_tty` |

**PaneWatchMC**, **OscWatchMC**, **BashHookMC** and **ReportsMC** define the values the
configurations use.

The theorems are in modules of their own: **PaneWatchProofs** and, on top of it,
**PaneStatusProofs** for PaneWatch and its refinement, **OscWatchProofs** for OscWatch
and its refinement, **WatchClockProofs**, **BashHookProofs**, **TextsProofs** (lemmas about
the functions on texts) and, each on top of the one before, **ReportsProofs** and
**ReadingProofs**, which is about what a reader makes of Reports' texts: the duration and
the outcome in a label, the fields of a record.

PaneWatch and OscWatch leave durations out: a timeout may run out at any time. Where the
code relies on a duration it is a named assumption in `Timing`:

- `settle`: the watchers of earlier commands have finished reporting (lingering
  and parked ones aside) when the next watcher is spawned; in OscWatch, when the
  next pre-command hook touches the shared files. The code has nothing that
  enforces this; a watcher needs a few milliseconds and a user needs longer to
  type. The runs without it show what depends on it.
- `gap`: a lingering watcher notices that it has been replaced before its
  replacement crosses the threshold. This is the argument at `LINGER_POLL_MS`
  (a poll of 100 ms against a floor of 250 ms for the threshold). WatchClock shows
  that it holds for requests of up to 50 ms.

`Faults` names what may go wrong besides: `crash` (a watcher is killed at any
point), `exitLost` (the write to `exit` fails after the truncation),
`skipPrecmd`, `shellDies` (with or without its exit hook), `paneCloses`,
`leftover` (the state directory comes from a shell that left a sticky failure),
`lockTimeout`, `ttyDrops` and `startLost` (the write of `osc-start` fails, before or
after the truncation).

## Runs

| Run | Instance | What it shows |
|---|---|---|
| pane_timed | 3 commands, the second ignored, every `[finish]` setting, `settle` and `gap`, no failing socket, crashes, lost exit codes, skipped precmds, a leftover failure | `NeverFalseOk`, `Recoverable`, `RunningRowStands`, `FailureSticks`, `ImplementsStatus` |
| pane_async | 2 commands, no timing assumption, 3 failing requests at a limit of 2, the pane may close | `TypeOK`, `PidAlive`, `OwnCommand` |
| pane_live | 2 commands, `settle`, one failing request at a limit of 1 | `ShellGoneWatchersExit`, `NoHangingWorking`, `FailureCleared` |
| osc_settled | 3 commands, the second ignored, every setting, `settle`, crashes, `startLost`, skipped precmds, dying shell, a leftover record | `WorkingEnds`, `RunningRecord`, `ShownCovers`, `OnlyReported`, `DoneAfterWorking`, `ImplementsStatus`, `ShellGoneWatchersExit`, `PromptReturns` |
| watch_clock | threshold 0 in the file (so the floor of 250 ms counts), a tick below its floor, a lock timeout above the tick, a window of up to 225 ms left, requests up to 50 ms, starts up to 25 ms, a clock that steps back 300 ms, a dying shell | `TypeOK`, `ReplacedInTime`, `ReportNotEarly`, `FinishPrompt`, `OrphanEnds`, `ShowsLastAnswer` |
| bash_hook | 4 lines (simple, pipeline, subshell, nested shell) in three pairs of shells and both backends, one empty line outside a DEBUG trap | `OnePerLine`, `OwnProgram`, `LabelTrue`, `LabelStands`, `ReservationStands` |
| reports | 7 kinds of lines, 6 config files, 4 shells, both backends, 6 exit files, 4 instants, 3 answers of keylock, a record of 3 pieces with every failure of the terminal | `TypeOK`, `Understood`, `IgnoredSilent`, `SuccessEarned`, `CommandIsText`, `LockShown`, `RowNamed`, `ElapsedReads`, `RecordReads`, `WholeOrNothing` |
| pane_exit_race | 2 commands, no faults, no timing assumption | violates `NeverFalseOk` |
| pane_fast_wipe | 1 command after a sticky failure | violates `Wiped` |
| osc_straggler | 2 commands, no faults, no timing assumption | violates `WorkingEnds` |
| osc_dropped_clear | 1 command, a terminal that drops a write | violates `ShownCovers` |
| bash_empty_line | 1 line and 1 empty line in plain bash | violates `LabelStands` |

The shell's death is left out of pane_timed, since no command follows it; pane_async,
pane_live and osc_settled have it, where it matters. pane_timed has no failing
socket: `Driver::apply` goes on after a failed request, so the marker is removed
although the row was not released, and no later command will pass `--clear-first`
for it. `Recoverable` is a promise about crashes and needs requests that are
answered. `TypeOK` of pane_async sees a driver that goes on after its limit of failures, not
one that stops before it.

Bounds. Three commands are the smallest number where an ignored command stands
between two watched ones, so that a lingering watcher meets first a clear it did
not expect and then another command's report; with two, every pairwise
interleaving is there. A limit of one or two failures (the code has 5) reaches
the stop within the bound on failures, one failure more than the limit lets a
success reset the counter first, and the proof of `TypeOK` is for any
limit. In watch_clock the window left to the old watcher takes every length up to
twice the poll, so every phase of the poll meets every moment of the new watcher's
start; longer windows only repeat it. With requests of up to 75 ms `ReplacedInTime`
fails: an old watcher whose window runs out just before the clear is still in its release
when the new one puts up its marker, and then unlinks it. Four lines let a nested shell be entered, used, left and followed
by a line of the outer one. In reports each line is there for one thing that can go
wrong in it: braces, characters of two to four bytes at either cap, control
characters, an alias with an assignment and a wrapper before the program, keylock,
an empty line.

The configurations switch the deadlock check off where a session in which all
commands are typed and all watchers gone has ended. WatchClock keeps it on: time
always passes, and a state where it cannot would be a timer nobody serves.

Fairness. The hooks run to their end and every watcher is scheduled (weak
fairness of `HookStep` and of each `WatcherStep(w)`): both are processes or shell
functions that wait for nothing but time. The end of a command, its successor,
the shell's death, Herdr's late requests and expiries and all faults are not
fair. `NoHangingWorking` and `FailureCleared` end in "or a request failed",
because a request that fails is not repeated. `PromptReturns` is checked without the
lock's 250 ms timeout, so that it shows that every way out of `report_working`
drops the lock, a kill included; with the timeout the prompt returns in any case.
WatchClock has bounds in place of fairness: `FinishPrompt` and `OrphanEnds` say by
when.

## Findings

The five violations are behaviours of the code, each against a sentence in the
repository; PROJECT.json quotes them.

1. *The exit code of the next command* (pane_exit_race). A watcher that is in
   a socket call when its command ends reads `exit` late. If the next command has
   ended by then, its 0 becomes the label of a failure.
2. *A fast command after a failure* (pane_fast_wipe). A command that ends before
   its watcher has installed its handlers kills the watcher with SIGUSR1, and the
   failure label is not wiped, which the README promises for any command. It is
   taken down by the first command that is slow enough.
3. *A late watcher* (osc_straggler). `watch` tests the threshold before its channel.
   A watcher overtaken by the next pre-command hook finds `exit` truncated again,
   reports a command that is over, and its `osc-start` may be truncated by that
   hook, so `working` stays at the next prompt.
4. *A dropped clear* (osc_dropped_clear). `finish` removes `osc-shown` after a clear
   the terminal may not have taken.
5. *Enter on an empty line in bash* (bash_empty_line). The trap was armed before the
   prompt, no command takes the arm, and the first entry of PROMPT_COMMAND does: a
   watcher starts for no command and clears the failure label.

One more has no run. With zsh outside and bash inside, `OwnProgram` fails: bash's
`exit` writes `name`, its EXIT trap kills the watcher that would have consumed it,
and zsh, which does not write `name`, has its next command matched against the
program `exit`. watch.rs:97-100 says that consuming the file prevents this. It can
be seen by adding `<<"zsh", "trap">>` to `FittingShells`, which leaves that pair out.

## Proofs

The theorems hold for any number of commands and lines, any settings, any limit of
failures, any latencies and any length of a text; the runs show the same properties
on small instances. Constants are assumed to be as the named assumption of each module
says, which every run evaluates; of `ReportsAssumption` the proofs need that the text of
an exit file is a number from 0 to 255 or none, and that the flags of a call are Booleans;
of `InvocationAssumption`, that what words say as numbers are natural numbers, and that the
hook's own `1000` and `4242` say themselves.
What a theorem assumes besides is a line of its own (`ASSUME`), and is one of these:

| Assumption | Why |
|---|---|
| `"settle" \in Timing`, `"gap" \in Timing` | The durations PaneWatch and OscWatch leave out, see above. `gap` is proved of WatchClock (`ReplacedInTimeHolds`); nothing in the code enforces `settle`, and findings 1 and 3 are what happens without it. |
| `io = 0`, `MaxIo = 0` | No request has timed out so far, or none does. `Driver::apply` goes on after a failed request, so that from then on the row and the marker may disagree for good. |
| `"paneCloses" \notin Faults` | Closing the pane takes a sticky failure down before the next command does, which CommandStatus does not allow. |
| `"lockTimeout"`, `"ttyDrops"`, `"exitLost" \notin Faults` | Each is the failure that breaks the property: the lock lets both reporters in after 250 ms, a dropped clear leaves a record nobody knows of (finding 4), an empty `exit` keeps the watcher from seeing the end. |
| `"crash" \notin Faults` | For `PidAlive` only: a killed watcher leaves the shell with its PID. |
| `Spawn <= Tick` | A watcher starts within one tick interval, which is at least 250 ms. |
| `"trap" \notin Empty` | No empty line is entered under bash's plain DEBUG trap (finding 5). |
| shells that agree on `name` | zsh with zsh, or neither is zsh: otherwise `name` outlives the shell that wrote it, see Findings. |
| `SettingsSpelled` | The prefix and the templates in the settings are texts: sequences of symbols, of any length. |
| `ProgramNamed`, `KeylockNamed`, `LinesSpelled` | The commands are what they are said to be: `agent_name` finds the program in the line the hook passes, and a line is made of words that are not empty. |
| `Unmarked(T)` | `T` is a set of symbols without `ok · `, the mark of a success in a label, and all that a label may be made of but for the template of a success is in `T`: the words of the lines, the names of programs and signals, digits, the other templates. A program of that name, or a template of a failure that says `ok · `, puts the mark into the label of a command that failed. The commands and settings of the run are such. |

| Theorem | Assumes |
|---|---|
| PaneWatch: `TypeCorrect`, `OwnCommandHolds` | |
| `PidAliveHolds` | no crash |
| `NeverFalseOkHolds` | `settle` |
| `RecoverableHolds`, `RunningRowHolds` (while `io = 0`) | `settle`, `gap` |
| `FailureSticksHolds` | `settle`, `gap`, `MaxIo = 0` |
| `PaneImplementsStatus` | the same, and the pane stays open |
| OscWatch: `TypeCorrect` | |
| `OnlyReportedHolds`, `DoneAfterWorkingHolds` | `settle`, no lock timeout |
| `ShownCoversHolds`, `RunningRecordHolds`, `OscImplementsStatus` | besides, no dropped write |
| `WorkingEndsHolds` | besides, `exit` is written |
| WatchClock: `ClockTypes`, `ReportNotEarlyHolds`, `ShowsLastAnswerHolds` | |
| `ReplacedInTimeHolds` | `Spawn + 2 * Latency + AtLeast(Latency, Poll) < Threshold` |
| `FinishPromptHolds`, `OrphanEndsHolds` | `Spawn <= Tick` |
| BashHook: `OnePerLineHolds`, `LabelTrueHolds` | no empty line under the trap |
| `OwnProgramHolds`, `LabelStandsHolds`, `ReservationStandsHolds` | besides, shells that agree on `name` |
| Reports: `TypesHold`, `WholeOrNothingHolds` | |
| `IgnoredSilentHolds` | `ProgramNamed` |
| `UnderstoodHolds`, `ElapsedReadBack`, `ElapsedReadsHolds`, `Base64Decoded` | |
| `CommandIsTextHolds` | `LinesSpelled` |
| `RowNamedHolds`, `RecordReadsHolds` | `LinesSpelled`, `SettingsSpelled` |
| `LockShownHolds` | `LinesSpelled`, `KeylockNamed` |
| `SuccessEarnedHolds` | `Unmarked` |

None of the properties is inductive. Each module builds its invariant in layers, each
resting on the ones before, and each layer was checked by TLC before it was proved.

*PaneWatch.* `IInv` says where the hooks and a new watcher are: a command not yet
spawned has no watcher (`FreshInv`); while preexec is about to spawn no PID is held and
`cmd` is the current command's (`ShellInv`); the watcher whose PID is held has no
signal waiting, so it can only leave through `park` (`PidInv`); a watcher still starting
belongs to the command in `cmd`, since whoever overwrites `cmd` kills a starting watcher
first (`CmdInv`); the counter of failures is below its limit (`FailInv`). `EndedInv` adds
the truth on its way from the hook to the row: in `exit` while a signal waits, in the
watcher that has read it, in every request that may still be applied, and in the label.
Of the watchers before the current one it says that they have settled. `TimedInv`, up
to the first request that fails, says for every place in a list of actions what the
marker and the row are then (`MarkerSeen`, `RowSeen`). It needs `gap`: an old watcher
between its release and its unlink would take the new one's marker.
The refinement maps every step of a hook, a watcher, Herdr or a crash to a step of
CommandStatus or a stutter, under `TimedInv` and its successor.

*OscWatch.* `BaseInv` is types and hooks, `LockedInv` who holds the lock and that
`osc-start` is there only for a watcher that has passed its write, `ShownInv` that
`osc-shown` is there whenever a record is, `WorkingInv` that whoever looks second sees
what the other wrote: the watcher writes `osc-start` and then looks at `exit`, the hook
writes `exit` and then looks at `osc-start`. The first needs no assumption, the second the
lock and `settle`, the third a terminal that takes what it is given, the last `exit`.

*WatchClock.* An invariant for each bound adds, for the place a watcher is in, the time
it may still take to the time that has passed (`OrderInv`, `GapInv`, `WaitInv`). The
inequality of `ReplacedInTimeHolds` is what the comment at `LINGER_POLL_MS` argues, with the
two requests of the clear counted: at the floor of 250 ms and a poll of 100 ms it leaves
150 ms, less one unit of the model's clock (25 ms), for a start and two requests.

*BashHook.* `LineInv` places the shells (`PlaceInv`), counts the watchers of a line
(`SpawnInv`: one that is started or about to be), says whose PID is held (`HeldInv`) and where
`$?` is right (`StatusInv`). `FitInv` adds that `name` is the current line's or empty when a
watcher reads it, and that the row's line is that of a watcher that is up.

*Reports.* The control is proved for any command, settings and length of text. `Fits` is
what `sanitize` makes of any unsigned numbers. `RowInv` says of every request of the last
report how its fields, the row's name among them, follow from the command, the settings and
the lock; `LoadedInv` that the settings in force are those of a file. `RowNamed` takes the
lock off the name that was sent (`AfterFirst`) and is about the rest: `state.rs` puts the
lock on after the cut, so the name of a locked row may be longer than `max_display_len` by
the prefix, which the README's sentence that row names are cut there (src/README.md:308) does
not mention. The functions on texts are
recursive functions; TextsProofs proves what is needed of them by induction over sets of
natural numbers (`SetInduction`, from the well-foundedness of finite sets): that a function
so defined exists and what it returns (`FlattenIsText`, `JoinedIsText`), how `truncate` cuts
(`TruncateFits`), what `render` makes of `{cmd}` (`CmdRendered`), and, for the readers, one
step each of `clean`, of a flattened sequence, of `render` and of a decimal number
(`CleanRead`, `FlattenRead`, `RenderRead`, `DecimalIs`).

`Understood` rests on `CallInv`: what the two parsers' loop has read after each argument
of the calls the hooks make, for every job and every exit status.

*What a reader makes of it.* `ElapsedReads` is `ReadInv`, which says that a label of a
running command is its mark and the formatted time, and `ElapsedReadBack`: a number is
read digit by digit, by induction on its tenths, and the units follow in the order `h`,
`m`, `s`, so that what is read is the duration up to less than its last unit.
`SuccessEarned` needs `MarkInv(T)`, that the names and templates a watcher holds are
without the mark, and `EarnedInv`, that a state of a record is `done` only once the end
has been reported. From these and `OutcomeIsMeant`, what `classify` makes of any exit file,
a label that has the mark is that of a success.
`RecordReads` is `RecordInv`, that a record carries what `clean` left of the title and, as
its message, of the title again or of the label of how the command ended, which is a text
(`LabelSpelled`), and two facts about its fields. With `LabelsLiteral` the same invariant
gives the desktop app's half of `CommandIsText`; `RowInv` gives the TUI's. `CleanFits`: the
bytes `clean` kept are those of a beginning of the text without its control characters, and
the next character would not have fitted, by induction over the text. `Base64Decoded`: each group of four digits is that of a cut of three
bytes or of what is left (`GroupIsCut`), and cuts one after the other are the whole
(`CutsFlattened`).

Only model-checked: `ShellGoneWatchersExit`, `NoHangingWorking`, `FailureCleared` and
`PromptReturns`. They are liveness, out of the prover's reach.

## Not modelled

- The look-up of the pane, the state directory, the socket and the backend in the
  environment, when the hooks are sourced and when a watcher starts.
- JSON, the steps of a connection, and what Herdr does with a request that is not
  valid. A request succeeds, finds no pane, or fails and may be applied later.
- The syntax of TOML, and runs of white space in a command line: a file is the
  settings it names, a line is its words.
- The options of a wrapper (`env -u FOO claude` is named `-u`), which `agent_name`
  does not parse; and aliases under bash-preexec and fish, where the shell does
  not tell what they stand for. `IgnoredSilent` is about the other two.
- bash with history switched off or lines kept out of it (`HISTCONTROL`), where the hook
  falls back to `$BASH_COMMAND` (init.bash:52-54): every line of BashHook and Reports is the
  one in the history.
- A failing write of `marker` (the result is ignored in the code): the row would
  be up with nothing naming it.
- The signal thread's end (`Disconnected`), which follows the path of a dead shell.
- The draining of keylock's output: reading it to the end is one step with its exit.
- Two unrelated shells in one pane; a shell inside a shell is in BashHook, with its
  watchers settled before the next line.
- A record broken by a terminal that hangs up or a writer that is killed:
  `WholeOrNothing` is about calls that return.

## Plan

Modelling is as far as the code carries it, and every property of a run that is not
liveness or a finding is proved. The theorems about PaneWatch and OscWatch assume `settle`
and `gap`, which the code does not enforce; a change of the code that does would let
the assumption go, and WatchClock's inequality says which durations such a change may use.
