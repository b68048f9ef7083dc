----------------------------- MODULE WatchClock -----------------------------
(***************************************************************************)
(* The watcher against the clock: a watcher that lingers over a success,   *)
(* the watcher of the next command, which clears, waits for the threshold, *)
(* probes keylock and ticks, and the durations they live by.  PaneWatch    *)
(* has every order of their steps; here the order follows from the time    *)
(* each step takes.  One unit is 25 ms.                                    *)
(*                                                                         *)
(* Timers count down together in Advance, and no timer that has run out    *)
(* lets time pass: a process acts as soon as it may, a request takes up to *)
(* Latency and a process start up to Spawn.                                *)
(***************************************************************************)
EXTENDS Integers

CONSTANTS
    ThresholdCfg, TickCfg, LockTimeoutCfg,  \* config.toml
    Sticky,         \* the longest success window left when the run begins
    Spawn,          \* the longest start of a watcher
    Latency,        \* the longest request
    Step,           \* how far the wall clock may step back
    Faults          \* subset of {"stepBack", "shellDies"}

ASSUME ClockAssumption ==
    /\ {ThresholdCfg, TickCfg, LockTimeoutCfg, Spawn, Latency, Step} \subseteq Nat
    /\ Sticky \in Nat \ {0}
    /\ Faults \subseteq {"stepBack", "shellDies"}

VARIABLES
    old,        \* the lingering watcher: its place, timer and window
    new,        \* the watcher of the next command: its place and timer
    startNow,   \* the hook passes --start-now instead of --start-ms
    keylock,    \* the command is a keylock session
    marker,     \* whose marker is in place
    row,        \* whose report is in the pane
    reported, clearFirst,
    elapsed,    \* time since the recorded start
    skew,       \* how far the wall clock has stepped back since then
    child,      \* a `keylock status` is running
    enabled, locked,    \* LockProbe
    rowLocked,  \* the lock is in front of the row's name
    said,       \* what keylock last said that could be understood
    sig,        \* SIGUSR1 is on its way
    alive,      \* the shell
    late, orphan    \* how long the signal, the shell's death have waited

vars == <<old, new, startNow, keylock, marker, row, reported, clearFirst,
          elapsed, skew, child, enabled, locked, rowLocked, said, sig, alive,
          late, orphan>>
probe == <<child, enabled, locked, said>>
env == <<startNow, keylock, sig, alive, skew>>
-----------------------------------------------------------------------------
(* Settings: the floors keep every interval the watcher waits for.         *)
AtLeast(x, floor) == IF x < floor THEN floor ELSE x
AtMost(x, ceiling) == IF x > ceiling THEN ceiling ELSE x
MinusUnsaturated(x, y) == x - y
Minus(x, y) == IF x < y THEN 0 ELSE x - y

MinInterval == 10       \* 250 ms
MinLockTimeout == 2     \* 50 ms
Poll == 4               \* 100 ms

ThresholdUnchecked == ThresholdCfg
Threshold == AtLeast(ThresholdCfg, MinInterval)
Tick == AtLeast(TickCfg, MinInterval)
LockTimeoutUnchecked == LockTimeoutCfg
LockTimeout == AtMost(AtLeast(LockTimeoutCfg, MinLockTimeout), Tick)
-----------------------------------------------------------------------------
(* The bounds of what is promised, and of the counters that measure it.    *)
LateBound == Tick + 2 * Latency
OrphanBound == Tick + 2 * Latency + AtLeast(Threshold, Tick)
ElapsedCap == Threshold + Step

OldPlace == {"linger", "release", "check", "unlink", "gone"}
NewTimed == {"boot", "metadata", "released", "wait", "probe", "agent", "tick", "finish"}
NewUntimed == {"idle", "read", "check", "unlink", "spawn", "report", "gone"}

TypeOK ==
    /\ old \in [pc : OldPlace, t : 0..AtLeast(Latency, Poll), left : 0..Sticky]
    /\ new \in [pc : NewTimed \cup NewUntimed, t : Nat]
    /\ {startNow, keylock, reported, clearFirst, child, enabled, locked, rowLocked,
        said, sig, alive} \subseteq BOOLEAN
    /\ marker \in {"none", "old", "new"}
    /\ row \in {"none", "old", "new", "final"}
    /\ elapsed \in 0..ElapsedCap /\ skew \in {0, Step}
    /\ late \in 0..(LateBound + 1) /\ orphan \in 0..(OrphanBound + 1)

(* The window the old watcher has left may be anything up to Sticky.       *)
Init ==
    /\ old \in {[pc |-> "linger", t |-> AtMost(l, Poll), left |-> l] : l \in 1..Sticky}
    /\ new = [pc |-> "idle", t |-> 0]
    /\ startNow \in BOOLEAN /\ keylock \in BOOLEAN
    /\ marker = "old" /\ row = "old"
    /\ reported = FALSE /\ clearFirst = FALSE
    /\ elapsed = 0 /\ skew = 0
    /\ child = FALSE /\ enabled = TRUE /\ locked = FALSE
    /\ rowLocked = FALSE /\ said = FALSE
    /\ sig = FALSE /\ alive = TRUE
    /\ late = 0 /\ orphan = 0

(* Time passes unless somebody has something to do.                        *)
OldDue == \/ old.pc \in {"check", "unlink"}
          \/ old.pc \in {"linger", "release"} /\ old.t = 0
NewDue == \/ new.pc \in NewUntimed \ {"idle", "gone"}
          \/ new.pc \in NewTimed /\ new.t = 0
          \/ new.pc = "wait" /\ sig

Advance ==
    /\ ~OldDue /\ ~NewDue
    /\ old' = IF old.pc = "gone" THEN old
              ELSE [old EXCEPT !.t = @ - 1, !.left = Minus(@, 1)]
    /\ new' = IF new.pc \in NewTimed THEN [new EXCEPT !.t = @ - 1] ELSE new
    /\ elapsed' = IF new.pc = "idle" THEN 0 ELSE AtMost(elapsed + 1, ElapsedCap)
    /\ late' = IF sig /\ new.pc \notin {"finish", "gone"}
               THEN AtMost(late + 1, LateBound + 1) ELSE late
    /\ orphan' = IF alive THEN 0 ELSE AtMost(orphan + 1, OrphanBound + 1)
    /\ UNCHANGED <<startNow, keylock, marker, row, reported, clearFirst, skew,
                   probe, rowLocked, sig, alive>>
-----------------------------------------------------------------------------
(* The old watcher: linger, then release and marker.  After every slice it *)
(* looks at the marker, then at the shell, then at the deadline; it does   *)
(* not look again once the window has run out.                             *)
OldLinger ==
    /\ old.pc = "linger" /\ old.t = 0
    /\ \/ marker # "none" /\ alive /\ old.left > 0
          /\ old' = [old EXCEPT !.t = AtMost(old.left, Poll)]
       \/ marker # "none" /\ (~alive \/ old.left = 0)
          /\ \E t \in 0..Latency : old' = [old EXCEPT !.pc = "release", !.t = t]
       \/ marker = "none" /\ old' = [old EXCEPT !.pc = "gone"]
    /\ UNCHANGED <<row, marker>>

OldRelease ==
    /\ old.pc = "release" /\ old.t = 0
    /\ row' = "none"
    /\ old' = [old EXCEPT !.pc = "check"]
    /\ UNCHANGED marker

OldCheck ==
    /\ old.pc = "check"
    /\ old' = [old EXCEPT !.pc = IF marker = "none" THEN "gone" ELSE "unlink"]
    /\ UNCHANGED <<row, marker>>

OldUnlink ==
    /\ old.pc = "unlink"
    /\ marker' = "none"
    /\ old' = [old EXCEPT !.pc = "gone"]
    /\ UNCHANGED row

OldStep ==
    /\ OldLinger \/ OldRelease \/ OldCheck \/ OldUnlink
    /\ UNCHANGED <<new, reported, clearFirst, elapsed, probe, rowLocked, env,
                   late, orphan>>
-----------------------------------------------------------------------------
(* The new watcher.  Its hook tests the marker and records the start;      *)
(* --start-now moves the start to the watcher's own first instruction.     *)
Enter(pc, longest) == \E t \in 0..longest : new' = [pc |-> pc, t |-> t]
At(pc) == new.pc = pc /\ new.t = 0
Goto(pc) == new' = [pc |-> pc, t |-> 0]

NewType ==
    /\ new.pc = "idle" /\ alive
    /\ Enter("boot", Spawn)
    /\ clearFirst' = (marker # "none")
    /\ UNCHANGED <<marker, row, reported, elapsed, skew, probe, rowLocked>>

(* Elapsed time is taken from the wall clock and saturates at zero.        *)
ElapsedWrapping == IF elapsed < skew THEN ElapsedCap ELSE elapsed - skew
Elapsed == Minus(elapsed, skew)

NextWake == IF reported THEN Tick ELSE Minus(Threshold, Elapsed)
Wait == new' = [pc |-> "wait", t |-> NextWake]

NewBoot ==
    /\ At("boot") /\ ~sig
    /\ Goto("read")
    /\ IF startNow THEN elapsed' = 0 /\ skew' = 0 ELSE UNCHANGED <<elapsed, skew>>
    /\ UNCHANGED <<marker, row, reported, clearFirst, probe, rowLocked>>

(* A signal before the handlers are installed kills.                       *)
NewKilled ==
    /\ At("boot") /\ sig
    /\ Goto("gone")
    /\ UNCHANGED <<marker, row, reported, clearFirst, elapsed, skew, probe, rowLocked>>

(* The clear: metadata, release, and the marker, tested and unlinked.      *)
NewRead ==
    /\ At("read")
    /\ IF clearFirst /\ marker # "none" THEN Enter("metadata", Latency) ELSE Wait
    /\ UNCHANGED <<marker, row, reported, clearFirst, elapsed, skew, probe, rowLocked>>

NewClears ==
    /\ \/ At("metadata") /\ Enter("released", Latency) /\ UNCHANGED <<row, marker>>
       \/ At("released") /\ Goto("check") /\ row' = "none" /\ UNCHANGED marker
       \/ At("check") /\ marker # "none" /\ Goto("unlink") /\ UNCHANGED <<row, marker>>
       \/ At("check") /\ marker = "none" /\ Wait /\ UNCHANGED <<row, marker>>
       \/ At("unlink") /\ marker' = "none" /\ Wait /\ UNCHANGED row
    /\ UNCHANGED <<reported, clearFirst, elapsed, skew, probe, rowLocked>>

(* The wait ends without a signal.                                         *)
NewWakeNotLooking ==
    /\ At("wait") /\ ~sig
    /\ Goto(IF keylock /\ enabled THEN "spawn" ELSE "report")
    /\ UNCHANGED <<marker, row, reported, clearFirst, elapsed, skew, probe, rowLocked>>
NewWake ==
    /\ At("wait") /\ ~sig
    /\ \/ alive /\ Goto(IF keylock /\ enabled THEN "spawn" ELSE "report")
       \/ ~alive /\ ~reported /\ Goto("gone")
       \/ ~alive /\ reported /\ Enter("finish", Latency)
    /\ UNCHANGED <<marker, row, reported, clearFirst, elapsed, skew, probe, rowLocked>>

(* LockProbe::poll: `keylock status` runs, may not run now, or never will. *)
NewSpawnProbe ==
    /\ At("spawn")
    /\ \/ Goto("report") /\ enabled' \in BOOLEAN /\ UNCHANGED child
       \/ new' = [pc |-> "probe", t |-> LockTimeout] /\ child' = TRUE
          /\ UNCHANGED enabled
    /\ UNCHANGED <<marker, row, reported, clearFirst, elapsed, skew, locked, said,
                   rowLocked>>

(* A reply is the set of its kinds of lines; one locked session of several *)
(* is enough, and a reply without any status line says nothing.            *)
Understood(lines) == lines \cap {"locked", "unlocked"} # {}
SaysLocked(lines) == "locked" \in lines

NewAnswer ==
    /\ new.pc = "probe" /\ child
    /\ \E lines \in SUBSET {"locked", "unlocked", "usage"}, success \in BOOLEAN :
          LET heard == success /\ Understood(lines)
          IN  /\ locked' = IF heard THEN SaysLocked(lines) ELSE locked
              /\ said' = IF heard THEN SaysLocked(lines) ELSE said
    /\ child' = FALSE
    /\ Goto("report")
    /\ UNCHANGED <<marker, row, reported, clearFirst, elapsed, skew, enabled, rowLocked>>

(* The timeout, or a failing wait: the child is killed and reaped, and the *)
(* last answer stands.                                                     *)
NewProbeTimeoutUnlocking ==
    /\ new.pc = "probe" /\ (new.t = 0 \/ child)
    /\ child' = FALSE /\ locked' = FALSE
    /\ Goto("report")
    /\ UNCHANGED <<marker, row, reported, clearFirst, elapsed, skew, enabled, said, rowLocked>>
NewProbeTimeout ==
    /\ new.pc = "probe" /\ (new.t = 0 \/ child)
    /\ child' = FALSE
    /\ Goto("report")
    /\ UNCHANGED <<marker, row, reported, clearFirst, elapsed, skew, enabled, locked,
                   said, rowLocked>>

(* on_tick: nothing before the threshold; the marker and two requests the  *)
(* first time, one from then on.                                           *)
NewReport ==
    /\ At("report")
    /\ \/ ~reported /\ Elapsed < Threshold /\ Wait /\ UNCHANGED <<marker, reported>>
       \/ ~reported /\ Elapsed >= Threshold
          /\ reported' = TRUE /\ marker' = "new" /\ Enter("agent", Latency)
       \/ reported /\ Enter("tick", Latency) /\ UNCHANGED <<marker, reported>>
    /\ UNCHANGED <<row, clearFirst, elapsed, skew, probe, rowLocked>>

NewAgent ==
    /\ At("agent")
    /\ row' = "new" /\ Enter("tick", Latency)
    /\ UNCHANGED <<marker, reported, clearFirst, elapsed, skew, probe, rowLocked>>

NewTick ==
    /\ At("tick")
    /\ rowLocked' = locked /\ Wait
    /\ UNCHANGED <<marker, row, reported, clearFirst, elapsed, skew, probe>>

(* SIGUSR1: the row of a command that was reported gets its final label.   *)
NewFinish ==
    /\ new.pc = "wait" /\ sig
    /\ IF reported THEN Enter("finish", Latency) ELSE Goto("gone")
    /\ UNCHANGED <<marker, row, reported, clearFirst, elapsed, skew, probe, rowLocked>>

(* What comes after that first request of the end is PaneWatch's concern.  *)
NewFinal ==
    /\ At("finish")
    /\ row' = "final" /\ rowLocked' = FALSE /\ Goto("gone")
    /\ UNCHANGED <<marker, reported, clearFirst, elapsed, skew, probe>>

NewStep ==
    /\ NewType \/ NewBoot \/ NewKilled \/ NewRead \/ NewClears \/ NewWake
          \/ NewSpawnProbe \/ NewAnswer \/ NewProbeTimeout
          \/ NewReport \/ NewAgent \/ NewTick \/ NewFinish \/ NewFinal
    /\ UNCHANGED <<old, startNow, keylock, sig, alive, late, orphan>>
-----------------------------------------------------------------------------
(* The command ends, the shell dies without its exit hook, and the wall    *)
(* clock is set back, once.                                                *)
CommandEnds ==
    /\ new.pc # "idle" /\ alive /\ ~sig
    /\ sig' = TRUE
    /\ UNCHANGED <<startNow, keylock, alive, skew>>

ShellDies ==
    /\ "shellDies" \in Faults /\ alive
    /\ alive' = FALSE
    /\ UNCHANGED <<startNow, keylock, sig, skew>>

ClockStepsBack ==
    /\ "stepBack" \in Faults /\ new.pc # "idle" /\ skew = 0
    /\ skew' = Step
    /\ UNCHANGED <<startNow, keylock, sig, alive>>

EnvStep ==
    /\ CommandEnds \/ ShellDies \/ ClockStepsBack
    /\ UNCHANGED <<old, new, marker, row, reported, clearFirst, elapsed, probe,
                   rowLocked, late, orphan>>

Next == Advance \/ OldStep \/ NewStep \/ EnvStep

Spec == Init /\ [][Next]_vars
-----------------------------------------------------------------------------
(* A lingering watcher is gone before its replacement puts up its marker:  *)
(* the poll lands in the gap between the clear and the threshold           *)
(* (watch.rs:20-25).  PaneWatch takes this as its assumption `gap`.        *)
ReplacedInTime == marker = "new" => old.pc = "gone"

(* No command is reported before it has run for the threshold, however far *)
(* the wall clock steps back (the saturating subtraction in state.rs).     *)
ReportNotEarly == marker = "new" => elapsed >= Threshold

(* The end of a command waits no longer than one tick interval and the two *)
(* requests of a report, even when keylock hangs (config.rs:195-203).      *)
FinishPrompt == late <= LateBound

(* A watcher notices the death of its shell within the longest wait it can *)
(* be in, without any signal.                                              *)
OrphanEnds ==
    orphan > OrphanBound =>
        old.pc \notin {"linger"} /\ new.pc \in {"idle", "finish", "gone"}

(* The row shows the lock as keylock last reported it: a probe that fails, *)
(* hangs or says nothing neither sets nor drops it (LockProbe::poll).      *)
ShowsLastAnswer == new.pc = "wait" /\ row = "new" => rowLocked = said
=============================================================================
