-------------------------- MODULE WatchClockProofs --------------------------
(***************************************************************************)
(* The time bounds of WatchClock, for any settings, any window, any length *)
(* of a watcher's start and of a request, and any step of the wall clock.  *)
(* Each bound follows from an invariant that adds, for the place a watcher *)
(* is in, the time it may still take to the time that has passed.          *)
(***************************************************************************)
EXTENDS WatchClock, TLAPS

(* What the arithmetic rests on: saturation, and the floors.               *)
LEMMA Saturation ==
  \A x, y \in Nat :
      /\ Minus(x, y) \in Nat /\ Minus(x, y) <= x
      /\ AtMost(x, y) \in Nat /\ AtMost(x, y) <= x /\ AtMost(x, y) <= y
      /\ AtLeast(x, y) \in Nat /\ x <= AtLeast(x, y) /\ y <= AtLeast(x, y)
BY DEF Minus, AtMost, AtLeast

LEMMA Constants ==
  /\ Spawn \in Nat /\ Latency \in Nat /\ Step \in Nat /\ Sticky \in Nat /\ Sticky > 0
  /\ Poll = 4
BY ClockAssumption DEF Poll

LEMMA Floors ==
  /\ Threshold \in Nat /\ Tick \in Nat /\ LockTimeout \in Nat /\ LockTimeout <= Tick
  /\ Poll <= Tick
<1>1. ThresholdCfg \in Nat /\ TickCfg \in Nat /\ LockTimeoutCfg \in Nat
  BY ClockAssumption
<1>2. Threshold \in Nat /\ Tick \in Nat /\ Poll <= Tick
  BY <1>1 DEF Threshold, Tick, AtLeast, MinInterval, Poll
<1>3. AtLeast(LockTimeoutCfg, MinLockTimeout) \in Nat
  BY <1>1, Saturation DEF MinLockTimeout
<1> QED
  BY <1>2, <1>3, Saturation DEF LockTimeout

LEMMA Bounds ==
  /\ LateBound \in Nat /\ LateBound = Tick + 2 * Latency
  /\ OrphanBound \in Nat
  /\ Tick + 2 * Latency + Threshold <= OrphanBound
  /\ Tick + 2 * Latency + Tick <= OrphanBound
  /\ ElapsedCap \in Nat /\ ElapsedCap = Threshold + Step
<1>1. /\ AtLeast(Threshold, Tick) \in Nat
      /\ Threshold <= AtLeast(Threshold, Tick) /\ Tick <= AtLeast(Threshold, Tick)
  BY Floors, Saturation
<1> QED
  BY <1>1, Floors, Constants DEF LateBound, OrphanBound, ElapsedCap

(* The next wake-up is at most a threshold away before the report, and one *)
(* interval after it.                                                      *)
LEMMA NextWakes ==
  ASSUME TypeOK
  PROVE  /\ Elapsed \in Nat /\ Elapsed <= elapsed
         /\ NextWake \in Nat /\ Tick + 2 * Latency + NextWake <= OrphanBound
         /\ ~reported => NextWake <= Threshold
<1>1. elapsed \in Nat /\ skew \in Nat
  BY Bounds, Constants DEF TypeOK
<1>2. Elapsed \in Nat /\ Elapsed <= elapsed
  BY <1>1, Saturation DEF Elapsed
<1>3. Minus(Threshold, Elapsed) \in Nat /\ Minus(Threshold, Elapsed) <= Threshold
  BY <1>2, Floors, Saturation
<1>4. NextWake \in Nat /\ (~reported => NextWake <= Threshold)
        /\ (NextWake <= Threshold \/ NextWake = Tick)
  BY <1>3, Floors DEF NextWake
<1> QED
  BY <1>2, <1>4, Floors, Bounds, Constants

Types ==
    /\ TypeOK
    /\ old.pc = "linger" => old.t <= Poll

LEMMA InitTypes == Init => Types
<1> SUFFICES ASSUME Init PROVE Types
  OBVIOUS
<1>1. PICK l \in 1..Sticky : old = [pc |-> "linger", t |-> AtMost(l, Poll), left |-> l]
  BY DEF Init
<1>2. /\ AtMost(l, Poll) \in Nat /\ AtMost(l, Poll) <= Poll
      /\ AtLeast(Latency, Poll) \in Nat /\ Poll <= AtLeast(Latency, Poll)
  <2>1. l \in Nat /\ Poll \in Nat /\ Latency \in Nat
    BY Constants
  <2> QED
    BY <2>1, Saturation
<1>3. AtMost(l, Poll) \in 0..AtLeast(Latency, Poll) /\ l \in 0..Sticky
  BY <1>2, Constants
<1>4. old \in [pc : OldPlace, t : 0..AtLeast(Latency, Poll), left : 0..Sticky]
  BY <1>1, <1>3 DEF OldPlace
<1>5. 0 \in 0..ElapsedCap /\ 0 \in 0..(LateBound + 1) /\ 0 \in 0..(OrphanBound + 1)
  BY Bounds
<1>6. [pc |-> "idle", t |-> 0] \in [pc : NewTimed \cup NewUntimed, t : Nat]
  BY DEF NewUntimed
<1> QED
  BY <1>1, <1>2, <1>4, <1>5, <1>6 DEF Init, Types, TypeOK

LEMMA AdvanceTypes == Types /\ Advance => Types'
<1> SUFFICES ASSUME Types, Advance PROVE Types'
  OBVIOUS
<1>1. old' \in [pc : OldPlace, t : 0..AtLeast(Latency, Poll), left : 0..Sticky]
        /\ (old'.pc = "linger" => old'.t <= Poll)
  <2>1. CASE old.pc = "gone"
    BY <2>1 DEF Advance, Types, TypeOK
  <2>2. CASE old.pc # "gone"
    <3>1. /\ old.pc \in {"linger", "release"} /\ old.t > 0
          /\ old.t \in Nat /\ old.t <= AtLeast(Latency, Poll) /\ old.left \in Nat
          /\ old.left <= Sticky /\ AtLeast(Latency, Poll) \in Nat
      BY <2>2, Constants, Saturation DEF Advance, Types, TypeOK, OldDue, OldPlace
    <3>2. /\ Minus(old.left, 1) \in 0..Sticky
          /\ old.t - 1 \in 0..AtLeast(Latency, Poll)
      <4>1. old.left \in Nat /\ 1 \in Nat
        BY <3>1
      <4>2. Minus(old.left, 1) \in Nat /\ Minus(old.left, 1) <= old.left
        BY <4>1, Saturation
      <4> QED
        BY <3>1, <4>2, Constants
    <3>3. old' = [pc |-> old.pc, t |-> old.t - 1, left |-> Minus(old.left, 1)]
      BY <2>2 DEF Advance, Types, TypeOK
    <3> QED
      BY <3>1, <3>2, <3>3, Constants DEF OldPlace, Types
  <2> QED
    BY <2>1, <2>2
<1>2. new' \in [pc : NewTimed \cup NewUntimed, t : Nat]
  BY DEF Advance, Types, TypeOK, NewDue
<1>3. /\ elapsed' \in 0..ElapsedCap
      /\ late' \in 0..(LateBound + 1) /\ orphan' \in 0..(OrphanBound + 1)
  <2>1. /\ elapsed \in Nat /\ late \in Nat /\ orphan \in Nat
    BY Bounds DEF Types, TypeOK
  <2>2. /\ AtMost(elapsed + 1, ElapsedCap) \in 0..ElapsedCap
        /\ AtMost(late + 1, LateBound + 1) \in 0..(LateBound + 1)
        /\ AtMost(orphan + 1, OrphanBound + 1) \in 0..(OrphanBound + 1)
    <3>1. elapsed + 1 \in Nat /\ late + 1 \in Nat /\ orphan + 1 \in Nat
      BY <2>1
    <3>2. LateBound + 1 \in Nat /\ OrphanBound + 1 \in Nat /\ ElapsedCap \in Nat
      BY Bounds
    <3>3. \A x, y \in Nat : AtMost(x, y) \in 0..y
      BY Saturation
    <3> QED
      BY <3>1, <3>2, <3>3
  <2> QED
    BY <2>1, <2>2, Bounds DEF Advance, Types, TypeOK
<1> QED
  BY <1>1, <1>2, <1>3 DEF Advance, Types, TypeOK, probe

LEMMA OldTypes == Types /\ OldStep => Types'
<1> SUFFICES ASSUME Types, OldStep PROVE Types'
  OBVIOUS
<1>1. old' \in [pc : OldPlace, t : 0..AtLeast(Latency, Poll), left : 0..Sticky]
        /\ (old'.pc = "linger" => old'.t <= Poll)
  <2>1. /\ old \in [pc : OldPlace, t : 0..AtLeast(Latency, Poll), left : 0..Sticky]
        /\ AtLeast(Latency, Poll) \in Nat /\ old.left \in Nat
        /\ Latency <= AtLeast(Latency, Poll) /\ Poll <= AtLeast(Latency, Poll)
        /\ AtMost(old.left, Poll) \in Nat /\ AtMost(old.left, Poll) <= Poll
    BY Constants, Saturation DEF Types, TypeOK
  <2>2. AtMost(old.left, Poll) \in 0..AtLeast(Latency, Poll)
          /\ \A t \in 0..Latency : t \in 0..AtLeast(Latency, Poll)
    BY <2>1, Constants
  <2>3. CASE OldLinger
    BY <2>1, <2>2, <2>3 DEF OldLinger, OldPlace
  <2>4. CASE OldRelease \/ OldCheck \/ OldUnlink
    BY <2>1, <2>4 DEF OldRelease, OldCheck, OldUnlink, OldPlace
  <2> QED
    BY <2>3, <2>4 DEF OldStep
<1> QED
  BY <1>1
  DEF OldStep, OldLinger, OldRelease, OldCheck, OldUnlink, Types, TypeOK, probe, env

(* Every step of the new watcher takes it to a place with a timer to run   *)
(* or to one where it acts at once.                                        *)
LEMMA NewPlaces == Types /\ NewStep => new' \in [pc : NewTimed \cup NewUntimed, t : Nat]
<1> SUFFICES ASSUME Types, NewStep
             PROVE  new' \in [pc : NewTimed \cup NewUntimed, t : Nat]
  OBVIOUS
<1> USE DEF NewTimed, NewUntimed
<1>1. \A p \in NewTimed \cup NewUntimed, longest \in Nat :
         Enter(p, longest) => new' \in [pc : NewTimed \cup NewUntimed, t : Nat]
  BY DEF Enter
<1>2. \A p \in NewTimed \cup NewUntimed :
         Goto(p) => new' \in [pc : NewTimed \cup NewUntimed, t : Nat]
  BY DEF Goto
<1>3. Wait => new' \in [pc : NewTimed \cup NewUntimed, t : Nat]
  BY NextWakes DEF Wait, Types
<1>4. CASE NewType \/ NewBoot \/ NewKilled
  BY <1>1, <1>2, <1>4, Constants DEF NewType, NewBoot, NewKilled
<1>5. CASE NewRead \/ NewClears
  BY <1>1, <1>2, <1>3, <1>5, Constants DEF NewRead, NewClears
<1>6. CASE NewWake
  BY <1>1, <1>2, <1>6, Constants DEF NewWake
<1>7. CASE NewSpawnProbe
  BY <1>2, <1>7, Floors DEF NewSpawnProbe
<1>8. CASE NewAnswer \/ NewProbeTimeout
  BY <1>2, <1>8 DEF NewAnswer, NewProbeTimeout
<1>9. CASE NewReport \/ NewAgent \/ NewTick
  BY <1>1, <1>3, <1>9, Constants DEF NewReport, NewAgent, NewTick
<1>10. CASE NewFinish \/ NewFinal
  BY <1>1, <1>2, <1>10, Constants DEF NewFinish, NewFinal
<1> QED
  BY <1>4, <1>5, <1>6, <1>7, <1>8, <1>9, <1>10 DEF NewStep

LEMMA NewTypes == Types /\ NewStep => Types'
<1> SUFFICES ASSUME Types, NewStep PROVE Types'
  OBVIOUS
<1>1. new' \in [pc : NewTimed \cup NewUntimed, t : Nat]
  BY NewPlaces
<1>2. /\ 0 \in 0..ElapsedCap
      /\ UNCHANGED <<old, startNow, keylock, sig, alive, late, orphan>>
  BY Bounds DEF NewStep
<1> USE <1>1, <1>2 DEF Types, TypeOK, probe
<1>3. CASE NewType \/ NewBoot
  BY <1>3 DEF NewType, NewBoot
<1>4. CASE NewKilled \/ NewRead
  BY <1>4 DEF NewKilled, NewRead
<1>5. CASE NewClears \/ NewWake
  BY <1>5 DEF NewClears, NewWake
<1>6. CASE NewSpawnProbe \/ NewProbeTimeout
  BY <1>6 DEF NewSpawnProbe, NewProbeTimeout
<1>7. CASE NewAnswer
  <2>1. \A lines : SaysLocked(lines) \in BOOLEAN
    BY DEF SaysLocked
  <2>2. locked' \in BOOLEAN /\ said' \in BOOLEAN
    BY <1>7, <2>1 DEF NewAnswer
  <2> QED
    BY <1>7, <2>2 DEF NewAnswer
<1>8. CASE NewReport \/ NewAgent \/ NewTick \/ NewFinish \/ NewFinal
  BY <1>8 DEF NewReport, NewAgent, NewTick, NewFinish, NewFinal
<1> QED
  BY <1>3, <1>4, <1>6, <1>8, <1>5, <1>7 DEF NewStep

LEMMA EnvTypes == Types /\ EnvStep => Types'
BY Constants
DEF Types, TypeOK, EnvStep, CommandEnds, ShellDies, ClockStepsBack, probe

LEMMA NextTypes == Types /\ [Next]_vars => Types'
<1>1. Types /\ UNCHANGED vars => Types'
  BY DEF Types, TypeOK, vars, probe, env
<1> QED
  BY <1>1, AdvanceTypes, OldTypes, NewTypes, EnvTypes DEF Next

(* Every variable keeps its type, and no timer goes below zero.            *)
THEOREM ClockTypes == Spec => []TypeOK
<1>1. Types => TypeOK
  BY DEF Types
<1> QED
  BY <1>1, InitTypes, NextTypes, PTL DEF Spec

-----------------------------------------------------------------------------
(* How long the watcher has been at it, by a clock x that starts no sooner *)
(* than it does: on its way to the wait, and from one wait to the next.    *)
Before == {"idle", "boot", "read", "metadata", "released", "check", "unlink"}

Clearing(x) ==
    /\ new.pc = "boot" => x + new.t <= Spawn
    /\ new.pc = "read" => x <= Spawn
    /\ new.pc = "metadata" => x + new.t <= Spawn + Latency
    /\ new.pc = "released" => x + new.t <= Spawn + 2 * Latency
    /\ new.pc \in {"check", "unlink"} => x <= Spawn + 2 * Latency

Reporting(x) ==
    /\ new.pc = "spawn" => x = 0
    /\ new.pc = "probe" => x + new.t <= LockTimeout
    /\ new.pc = "report" => x <= LockTimeout
    /\ new.pc = "agent" => x + new.t <= LockTimeout + Latency
    /\ new.pc = "tick" => x + new.t <= LockTimeout + 2 * Latency

(* The three clocks: since the recorded start, since the signal was sent,  *)
(* since the shell's death.                                                *)
ClearInv ==
    /\ new.pc = "idle" => elapsed = 0 /\ ~sig
    /\ ~sig => late = 0
    /\ alive => orphan = 0
    /\ Clearing(elapsed) /\ Clearing(late) /\ Clearing(orphan)
    /\ Reporting(late) /\ Reporting(orphan)

(* What a tick of the clock does.                                          *)
LEMMA AdvanceTimes ==
  ASSUME Types, Advance
  PROVE  /\ elapsed \in Nat /\ late \in Nat /\ orphan \in Nat
         /\ elapsed' \in Nat /\ late' \in Nat /\ orphan' \in Nat
         /\ elapsed' <= elapsed + 1 /\ late' <= late + 1 /\ orphan' <= orphan + 1
         /\ new.pc = "idle" => elapsed' = 0
         /\ new.pc # "idle" /\ elapsed >= Threshold => elapsed' >= Threshold
         /\ ~sig \/ new.pc \in {"finish", "gone"} => late' = late
         /\ alive => orphan' = 0
         /\ new.pc' = new.pc /\ new.pc \in NewTimed \cup {"idle", "gone"}
         /\ new.pc \in NewTimed => new.t \in Nat /\ new.t > 0 /\ new.t' = new.t - 1
         /\ new.pc = "wait" => ~sig
<1>1. elapsed \in Nat /\ late \in Nat /\ orphan \in Nat
  BY Bounds DEF Types, TypeOK
<1>2. \A x, y \in Nat : /\ AtMost(x + 1, y) \in Nat /\ AtMost(x + 1, y) <= x + 1
                        /\ \A z \in Nat : z <= x /\ z <= y => z <= AtMost(x + 1, y)
  BY DEF AtMost
<1>3. /\ LateBound + 1 \in Nat /\ OrphanBound + 1 \in Nat
      /\ ElapsedCap \in Nat /\ Threshold \in Nat /\ Threshold <= ElapsedCap
  BY Bounds, Floors, Constants
<1>4. elapsed' = 0 \/ elapsed' = AtMost(elapsed + 1, ElapsedCap)
  BY DEF Advance
<1>5. late' = late \/ late' = AtMost(late + 1, LateBound + 1)
  BY DEF Advance
<1>6. orphan' = 0 \/ orphan' = AtMost(orphan + 1, OrphanBound + 1)
  BY DEF Advance
<1>7. /\ elapsed' \in Nat /\ elapsed' <= elapsed + 1
      /\ late' \in Nat /\ late' <= late + 1
      /\ orphan' \in Nat /\ orphan' <= orphan + 1
  BY <1>1, <1>2, <1>3, <1>4, <1>5, <1>6
<1>8. /\ new.pc = "idle" => elapsed' = 0
      /\ new.pc # "idle" => elapsed' = AtMost(elapsed + 1, ElapsedCap)
      /\ ~sig \/ new.pc \in {"finish", "gone"} => late' = late
      /\ alive => orphan' = 0
  BY DEF Advance
<1>9. new.pc # "idle" /\ elapsed >= Threshold => elapsed' >= Threshold
  BY <1>1, <1>2, <1>3, <1>8
<1>10. /\ new.pc \in NewTimed \cup {"idle", "gone"} /\ new.pc' = new.pc
       /\ new.pc \in NewTimed => new.t \in Nat /\ new.t > 0 /\ new.t' = new.t - 1
       /\ new.pc = "wait" => ~sig
  BY DEF Advance, NewDue, Types, TypeOK
<1> QED
  BY <1>1, <1>7, <1>8, <1>9, <1>10

LEMMA InitClear == Init => ClearInv
BY DEF Init, ClearInv, Clearing, Reporting

LEMMA AdvanceClear == Types /\ ClearInv /\ Advance => ClearInv'
<1> SUFFICES ASSUME Types, ClearInv, Advance PROVE ClearInv'
  OBVIOUS
<1> USE AdvanceTimes, Constants, Floors DEF ClearInv, NewTimed
<1>1. UNCHANGED <<sig, alive>>
  BY DEF Advance
<1>2. Clearing(elapsed)' /\ Clearing(late)' /\ Clearing(orphan)'
  BY DEF Clearing
<1>3. Reporting(late)' /\ Reporting(orphan)'
  BY DEF Reporting
<1> QED
  BY <1>1, <1>2, <1>3

(* The others leave the new watcher and the clocks alone.                  *)
LEMMA OthersClear == Types /\ ClearInv /\ (OldStep \/ EnvStep) => ClearInv'
BY DEF Types, TypeOK, ClearInv, Clearing, Reporting, OldStep, EnvStep, env, CommandEnds,
       ShellDies, ClockStepsBack

LEMMA NewClear == Types /\ ClearInv /\ NewStep => ClearInv'
<1> SUFFICES ASSUME Types, ClearInv, NewStep PROVE ClearInv'
  OBVIOUS
<1>1. /\ elapsed \in Nat /\ late \in Nat /\ orphan \in Nat
      /\ UNCHANGED <<sig, alive, late, orphan>>
      /\ new \in [pc : NewTimed \cup NewUntimed, t : Nat]
  BY Bounds DEF Types, TypeOK, NewStep
<1> USE <1>1, Constants, Floors DEF ClearInv, Clearing, Reporting, At, Goto, Enter, Wait
<1>2. CASE NewType
  BY <1>2 DEF NewType
<1>3. CASE NewBoot \/ NewKilled
  BY <1>3 DEF NewBoot, NewKilled
<1>4. CASE NewRead
  BY <1>4 DEF NewRead
<1>5. CASE NewClears
  BY <1>5 DEF NewClears
<1>6. CASE NewWake
  BY <1>6 DEF NewWake
<1>7. CASE NewSpawnProbe
  BY <1>7 DEF NewSpawnProbe
<1>8. CASE NewAnswer \/ NewProbeTimeout
  BY <1>8 DEF NewAnswer, NewProbeTimeout
<1>9. CASE NewReport
  BY <1>9 DEF NewReport
<1>10. CASE NewAgent \/ NewTick
  BY <1>10 DEF NewAgent, NewTick
<1>11. CASE NewFinish \/ NewFinal
  BY <1>11 DEF NewFinish, NewFinal
<1> QED
  BY <1>2, <1>3, <1>4, <1>5, <1>6, <1>7, <1>8, <1>9, <1>10, <1>11 DEF NewStep

LEMMA NextClear == Types /\ ClearInv /\ [Next]_vars => ClearInv'
<1>1. ClearInv /\ UNCHANGED vars => ClearInv'
  BY DEF ClearInv, Clearing, Reporting, vars
<1> QED
  BY <1>1, AdvanceClear, OthersClear, NewClear DEF Next

-----------------------------------------------------------------------------
(* Who has a marker and a row, place by place.                             *)
OrderInv ==
    /\ new.pc \in Before =>
          ~reported /\ marker # "new" /\ (marker = "none" => old.pc = "gone")
    /\ new.pc \in {"boot", "read"} /\ ~clearFirst => marker = "none"
    /\ new.pc \notin Before \cup {"gone"} => marker # "old"
    /\ new.pc = "agent" \/ row = "new" \/ marker = "new" => reported
    /\ marker = "new" => elapsed >= Threshold

LEMMA InitOrder == Init => OrderInv
BY DEF Init, OrderInv, Before

LEMMA AdvanceOrder == Types /\ OrderInv /\ Advance => OrderInv'
<1> SUFFICES ASSUME Types, OrderInv, Advance PROVE OrderInv'
  OBVIOUS
<1>1. /\ UNCHANGED <<reported, marker, clearFirst, row>>
      /\ old.pc' = old.pc
  BY DEF Advance, Types, TypeOK
<1>2. /\ new.pc' = new.pc
      /\ new.pc # "idle" /\ elapsed >= Threshold => elapsed' >= Threshold
  BY AdvanceTimes
<1> QED
  BY <1>1, <1>2 DEF OrderInv, Before

LEMMA OldOrder == Types /\ OrderInv /\ OldStep => OrderInv'
<1> SUFFICES ASSUME Types, OrderInv, OldStep PROVE OrderInv'
  OBVIOUS
<1>1. UNCHANGED <<new, reported, clearFirst, elapsed>>
  BY DEF OldStep
<1>2. /\ marker' = marker \/ (marker' = "none" /\ old'.pc = "gone")
      /\ old.pc # "gone" /\ (row' = row \/ row' = "none")
  BY DEF OldStep, OldLinger, OldRelease, OldCheck, OldUnlink, Types, TypeOK
<1> QED
  BY <1>1, <1>2 DEF OrderInv

LEMMA NewOrder == Types /\ OrderInv /\ NewStep => OrderInv'
<1> SUFFICES ASSUME Types, OrderInv, NewStep PROVE OrderInv'
  OBVIOUS
<1>1. UNCHANGED old
  BY DEF NewStep
<1> USE <1>1 DEF OrderInv, Before, At, Goto, Enter, Wait
<1>2. CASE NewType
  <2>1. /\ new.pc = "idle" /\ new'.pc = "boot"
        /\ UNCHANGED <<marker, row, reported, elapsed>>
    BY <1>2 DEF NewType
  <2>2. clearFirst' = (marker # "none")
    BY <1>2 DEF NewType
  <2>3. ~clearFirst' => marker = "none"
    BY <2>2, Zenon
  <2> QED
    BY <2>1, <2>3
<1>3. CASE NewBoot \/ NewKilled
  BY <1>3 DEF NewBoot, NewKilled
<1>4. CASE NewRead
  BY <1>4 DEF NewRead, Types, TypeOK
<1>5. CASE NewClears
  BY <1>5 DEF NewClears, Types, TypeOK
<1>6. CASE NewWake \/ NewFinish
  BY <1>6 DEF NewWake, NewFinish
<1>7. CASE NewSpawnProbe \/ NewAnswer \/ NewProbeTimeout
  BY <1>7 DEF NewSpawnProbe, NewAnswer, NewProbeTimeout
<1>8. CASE NewReport
  <2>1. Elapsed >= Threshold => elapsed >= Threshold
    <3>1. Elapsed \in Nat /\ elapsed \in Nat /\ Elapsed <= elapsed
      BY NextWakes, Bounds DEF Types, TypeOK
    <3> QED
      BY <3>1, Floors
  <2> QED
    BY <1>8, <2>1 DEF NewReport
<1>9. CASE NewAgent \/ NewTick \/ NewFinal
  BY <1>9 DEF NewAgent, NewTick, NewFinal
<1> QED
  BY <1>2, <1>3, <1>4, <1>5, <1>6, <1>7, <1>8, <1>9 DEF NewStep

LEMMA NextOrder == Types /\ OrderInv /\ [Next]_vars => OrderInv'
<1>1. OrderInv /\ (EnvStep \/ UNCHANGED vars) => OrderInv'
  BY DEF OrderInv, EnvStep, vars
<1> QED
  BY <1>1, AdvanceOrder, OldOrder, NewOrder DEF Next

LEMMA ClockHolds == Spec => [](Types /\ ClearInv /\ OrderInv)
<1>1. Init => Types /\ ClearInv /\ OrderInv
  BY InitTypes, InitClear, InitOrder
<1>2. Types /\ ClearInv /\ OrderInv /\ [Next]_vars => (Types /\ ClearInv /\ OrderInv)'
  BY NextTypes, NextClear, NextOrder
<1> QED
  BY <1>1, <1>2, PTL DEF Spec

(* No command is reported before it has run for the threshold, however far *)
(* the wall clock steps back and however short a threshold is configured   *)
(* (the saturating subtraction of state.rs, the floors of config.rs).      *)
THEOREM ReportNotEarlyHolds == Spec => []ReportNotEarly
<1>1. OrderInv => ReportNotEarly
  BY DEF OrderInv, ReportNotEarly
<1> QED
  BY <1>1, ClockHolds, PTL

-----------------------------------------------------------------------------
(* The gap between the clear and the threshold.                            *)

(* What the old watcher may still be doing once its marker is gone.        *)
Gap == Spawn + 2 * Latency + AtLeast(Latency, Poll)
Leaving ==
    \/ old.pc = "gone"
    \/ old.pc \in {"linger", "release"} /\ elapsed + old.t <= Gap
    \/ old.pc \in {"check", "unlink"} /\ elapsed <= Gap

GapInv ==
    /\ new.pc \notin Before \cup {"gone"} /\ marker = "none" => Leaving
    /\ marker = "new" => old.pc = "gone"

LEMMA GapNat == Gap \in Nat /\ Spawn + 2 * Latency <= Gap
<1>1. Latency \in Nat /\ Poll \in Nat /\ Spawn \in Nat
  BY Constants
<1>2. AtLeast(Latency, Poll) \in Nat
  BY <1>1, Saturation
<1> QED
  BY <1>1, <1>2 DEF Gap

LEMMA AdvanceGap == Types /\ OrderInv /\ GapInv /\ Advance => GapInv'
<1> SUFFICES ASSUME Types, OrderInv, GapInv, Advance PROVE GapInv'
  OBVIOUS
<1>1. /\ UNCHANGED marker /\ new.pc' = new.pc
      /\ elapsed \in Nat /\ elapsed' \in Nat /\ elapsed' <= elapsed + 1
  BY AdvanceTimes DEF Advance
<1>2. /\ old.pc' = old.pc /\ old.pc \notin {"check", "unlink"}
      /\ old.pc # "gone" => old.t \in Nat /\ old.t > 0 /\ old.t' = old.t - 1
  <2>1. old.t \in Nat
    BY Constants, Saturation DEF Types, TypeOK
  <2> QED
    BY <2>1 DEF Advance, Types, TypeOK, OldDue, OldPlace
<1>3. Leaving => Leaving'
  BY <1>1, <1>2, GapNat DEF Leaving, Gap
<1> QED
  BY <1>1, <1>2, <1>3 DEF GapInv

LEMMA OldGap == Types /\ OrderInv /\ GapInv /\ OldStep => GapInv'
<1> SUFFICES ASSUME Types, OrderInv, GapInv, OldStep PROVE GapInv'
  OBVIOUS
<1>1. UNCHANGED <<new, elapsed>> /\ elapsed \in Nat
  BY Bounds DEF OldStep, Types, TypeOK
<1>2. marker \in {"none", "old", "new"} /\ old.pc # "gone"
  BY DEF Types, TypeOK, OldStep, OldLinger, OldRelease, OldCheck, OldUnlink
<1> USE <1>1, <1>2, GapNat DEF Types, TypeOK, OrderInv, GapInv, Leaving
<1>3. CASE OldLinger
  BY <1>3 DEF OldLinger
<1>4. CASE OldRelease \/ OldCheck \/ OldUnlink
  BY <1>4 DEF OldRelease, OldCheck, OldUnlink
<1> QED
  BY <1>3, <1>4 DEF OldStep

LEMMA NewGap ==
  ASSUME Gap < Threshold, Types, ClearInv, OrderInv, GapInv, NewStep
  PROVE  GapInv'
<1>1. UNCHANGED old /\ elapsed \in Nat
  BY Bounds DEF NewStep, Types, TypeOK
<1>2. marker \in {"none", "old", "new"} /\ old.pc \in OldPlace
        /\ old.t \in Nat /\ old.t <= AtLeast(Latency, Poll)
  <2>1. AtLeast(Latency, Poll) \in Nat
    BY Constants, Saturation
  <2> QED
    BY <2>1 DEF Types, TypeOK
<1> USE <1>1, <1>2, GapNat DEF OrderInv, GapInv, Before, At, Goto, Enter, Wait
<1>3. CASE NewType \/ NewBoot \/ NewKilled
  BY <1>3 DEF NewType, NewBoot, NewKilled
<1>4. CASE NewRead
  BY <1>4 DEF NewRead, Leaving
<1>5. CASE NewClears
  <2>1. new.pc = "unlink" => Leaving
    <3>1. AtLeast(Latency, Poll) \in Nat
      BY Constants, Saturation
    <3>2. new.pc = "unlink" => elapsed <= Spawn + 2 * Latency
      BY DEF ClearInv, Clearing
    <3> QED
      BY <3>1, <3>2, Constants DEF Leaving, Gap, OldPlace
  <2>2. UNCHANGED elapsed
    BY <1>5 DEF NewClears
  <2>3. Leaving' <=> Leaving
    BY <2>2 DEF Leaving
  <2> QED
    BY <1>5, <2>1, <2>3 DEF NewClears, Leaving
<1>6. CASE NewWake \/ NewFinish
  BY <1>6 DEF NewWake, NewFinish, Leaving
<1>7. CASE NewSpawnProbe \/ NewAnswer \/ NewProbeTimeout
  BY <1>7 DEF NewSpawnProbe, NewAnswer, NewProbeTimeout, Leaving
<1>8. CASE NewReport
  <2>1. Elapsed >= Threshold => elapsed > Gap
    <3>1. Elapsed \in Nat /\ Elapsed <= elapsed
      BY NextWakes DEF Types
    <3> QED
      BY <3>1, Floors
  <2> QED
    BY <1>8, <2>1 DEF NewReport, Leaving
<1>9. CASE NewAgent \/ NewTick \/ NewFinal
  BY <1>9 DEF NewAgent, NewTick, NewFinal, Leaving
<1> QED
  BY <1>3, <1>4, <1>5, <1>6, <1>7, <1>8, <1>9 DEF NewStep

(* A lingering watcher is gone before its replacement puts up its marker:  *)
(* the start of the new watcher, the two requests of its clear and then    *)
(* the old one's slice or release have to fit before the threshold         *)
(* (watch.rs:20-25).                                                       *)
THEOREM ReplacedInTimeHolds ==
  ASSUME Spawn + 2 * Latency + AtLeast(Latency, Poll) < Threshold
  PROVE  Spec => []ReplacedInTime
<1>1. Init => GapInv
  BY DEF Init, GapInv, Before
<1>2. Types /\ ClearInv /\ OrderInv /\ GapInv /\ [Next]_vars => GapInv'
  <2>1. Gap < Threshold
    BY DEF Gap
  <2>2. GapInv /\ (EnvStep \/ UNCHANGED vars) => GapInv'
    BY DEF GapInv, Leaving, EnvStep, vars
  <2> QED
    BY <2>1, <2>2, AdvanceGap, OldGap, NewGap DEF Next
<1>3. GapInv => ReplacedInTime
  BY DEF GapInv, ReplacedInTime
<1> QED
  BY <1>1, <1>2, <1>3, ClockHolds, PTL DEF Spec

-----------------------------------------------------------------------------
(* How long the end of the command and the death of the shell wait.        *)
WaitInv ==
    /\ late <= LateBound
    /\ new.pc = "wait" => orphan + new.t <= OrphanBound
    /\ old.pc = "linger" => orphan + old.t <= Poll

LEMMA AdvanceWait ==
  ASSUME Spawn <= Tick, Types, ClearInv, WaitInv, Advance
  PROVE  WaitInv'
<1> USE AdvanceTimes, Constants, Floors, Bounds DEF ClearInv, WaitInv
<1>1. late' <= LateBound
  <2>1. CASE ~sig \/ new.pc \in {"finish", "gone"}
    BY <2>1
  <2>2. CASE sig /\ new.pc \notin {"finish", "gone"}
    <3>1. new.pc \in {"boot", "metadata", "released", "probe", "agent", "tick"}
      BY <2>2 DEF NewTimed
    <3>2. new.t \in Nat /\ new.t > 0
      BY <3>1 DEF NewTimed
    <3>3. late + 1 <= Tick + 2 * Latency
      BY <3>1, <3>2 DEF Clearing, Reporting
    <3> QED
      BY <3>3
  <2> QED
    BY <2>1, <2>2
<1>2. (new.pc = "wait" => orphan + new.t <= OrphanBound)'
  BY DEF NewTimed
<1>3. (old.pc = "linger" => orphan + old.t <= Poll)'
  <2>1. old.pc = "linger" => old.t \in Nat /\ old.t > 0 /\ old.t' = old.t - 1
    <3>1. AtLeast(Latency, Poll) \in Nat
      BY Saturation
    <3> QED
      BY <3>1 DEF Advance, Types, TypeOK, OldDue
  <2> QED
    BY <2>1 DEF Advance, Types, TypeOK
<1> QED
  BY <1>1, <1>2, <1>3

LEMMA OldWait == Types /\ ClearInv /\ WaitInv /\ OldStep => WaitInv'
<1> SUFFICES ASSUME Types, ClearInv, WaitInv, OldStep PROVE WaitInv'
  OBVIOUS
<1>1. UNCHANGED <<new, late, orphan, alive>>
  BY DEF OldStep, env
<1>2. old'.pc = "linger" => alive /\ old'.t = AtMost(old.left, Poll)
  BY DEF OldStep, OldLinger, OldRelease, OldCheck, OldUnlink, Types, TypeOK
<1>3. AtMost(old.left, Poll) \in Nat /\ AtMost(old.left, Poll) <= Poll
  <2>1. old.left \in Nat /\ Poll \in Nat
    BY Constants DEF Types, TypeOK
  <2> QED
    BY <2>1, Saturation
<1> QED
  BY <1>1, <1>2, <1>3, Constants DEF WaitInv, ClearInv

LEMMA NewWait ==
  ASSUME Spawn <= Tick, Types, ClearInv, OrderInv, WaitInv, NewStep
  PROVE  WaitInv'
<1>1. /\ orphan \in Nat /\ UNCHANGED <<late, orphan, old>>
  BY Bounds DEF Types, TypeOK, NewStep
<1>2. /\ NextWake \in Nat /\ Tick + 2 * Latency + NextWake <= OrphanBound
      /\ ~reported => NextWake <= Threshold
  BY NextWakes DEF Types
<1>3. ASSUME new'.pc = "wait"
      PROVE  orphan + new'.t <= OrphanBound
  <2>1. Wait
    BY <1>3
    DEF NewStep, NewType, NewBoot, NewKilled, NewRead, NewClears, NewWake, NewSpawnProbe,
        NewAnswer, NewProbeTimeout, NewReport, NewAgent, NewTick, NewFinish, NewFinal,
        Enter, Goto
  <2>2. /\ new.pc \in {"read", "check", "unlink", "report", "tick"}
        /\ new.pc = "tick" => new.t = 0
    BY <1>3
    DEF NewStep, NewType, NewBoot, NewKilled, NewRead, NewClears, NewWake, NewSpawnProbe,
        NewAnswer, NewProbeTimeout, NewReport, NewAgent, NewTick, NewFinish, NewFinal,
        Enter, Goto, At
  <2>3. orphan <= Tick + 2 * Latency
    BY <1>1, <2>2, Constants, Floors DEF ClearInv, Clearing, Reporting
  <2> QED
    BY <1>1, <1>2, <2>1, <2>3, Constants, Floors, Bounds DEF Wait
<1> QED
  BY <1>1, <1>3 DEF WaitInv

LEMMA WaitHolds ==
  ASSUME Spawn <= Tick
  PROVE  Spec => [](Types /\ ClearInv /\ OrderInv /\ WaitInv)
<1>1. Init => WaitInv
  <2> SUFFICES ASSUME Init PROVE WaitInv
    OBVIOUS
  <2>1. old.t <= Poll
    BY InitTypes DEF Types, Init
  <2>2. old.t \in Nat
    <3>1. AtLeast(Latency, Poll) \in Nat
      BY Constants, Saturation
    <3> QED
      BY <3>1, InitTypes DEF Types, TypeOK
  <2> QED
    BY <2>1, <2>2, Bounds DEF Init, WaitInv
<1>2. Types /\ ClearInv /\ OrderInv /\ WaitInv /\ [Next]_vars => WaitInv'
  <2>1. ClearInv /\ WaitInv /\ EnvStep => WaitInv'
    BY DEF ClearInv, WaitInv, EnvStep, CommandEnds, ShellDies, ClockStepsBack
  <2>2. WaitInv /\ UNCHANGED vars => WaitInv'
    BY DEF WaitInv, vars
  <2> QED
    BY <2>1, <2>2, AdvanceWait, OldWait, NewWait DEF Next
<1> QED
  BY <1>1, <1>2, ClockHolds, PTL DEF Spec

(* The end of a command waits no longer than one tick interval and the two *)
(* requests of a report, even when keylock hangs (config.rs:195-203).  It  *)
(* is enough that a watcher starts within the interval.                    *)
THEOREM FinishPromptHolds ==
  ASSUME Spawn <= Tick
  PROVE  Spec => []FinishPrompt
<1>1. WaitInv => FinishPrompt
  BY DEF WaitInv, FinishPrompt
<1> QED
  BY <1>1, WaitHolds, PTL

(* A watcher notices the death of its shell within the longest wait it can *)
(* be in, and the old one within a slice, without any signal.              *)
THEOREM OrphanEndsHolds ==
  ASSUME Spawn <= Tick
  PROVE  Spec => []OrphanEnds
<1>1. Types /\ ClearInv /\ WaitInv => OrphanEnds
  <2> SUFFICES ASSUME Types, ClearInv, WaitInv, orphan > OrphanBound
               PROVE  old.pc # "linger" /\ new.pc \in {"idle", "finish", "gone"}
    BY DEF OrphanEnds
  <2>1. orphan \in Nat /\ new.t \in Nat /\ new.pc \in NewTimed \cup NewUntimed
    BY Bounds DEF Types, TypeOK
  <2>2. old.t \in Nat
    <3>1. AtLeast(Latency, Poll) \in Nat
      BY Constants, Saturation
    <3> QED
      BY <3>1 DEF Types, TypeOK
  <2>3. orphan > Tick + 2 * Latency
    BY <2>1, Floors, Bounds, Constants
  <2>4. old.pc # "linger"
    BY <2>1, <2>2, <2>3, Floors, Constants DEF WaitInv
  <2>5. new.pc # "wait"
    BY <2>1, Bounds DEF WaitInv
  <2>6. new.pc \notin {"boot", "read", "metadata", "released", "check", "unlink"}
    BY <2>1, <2>3, Floors, Constants DEF ClearInv, Clearing
  <2>7. new.pc \notin {"spawn", "probe", "report", "agent", "tick"}
    BY <2>1, <2>3, Floors, Constants DEF ClearInv, Reporting
  <2> QED
    BY <2>1, <2>4, <2>5, <2>6, <2>7 DEF NewTimed, NewUntimed
<1> QED
  BY <1>1, WaitHolds, PTL

-----------------------------------------------------------------------------
(* The lock in the row.                                                    *)
AnswerInv ==
    /\ locked = said
    /\ new.pc = "wait" /\ row = "new" => rowLocked = locked

(* The row shows the lock as keylock last reported it: a probe that fails, *)
(* hangs or says nothing neither sets nor drops it (LockProbe::poll).      *)
THEOREM ShowsLastAnswerHolds == Spec => []ShowsLastAnswer
<1>1. Init => AnswerInv
  BY DEF Init, AnswerInv
<1>2. Types /\ OrderInv /\ AnswerInv /\ [Next]_vars => AnswerInv'
  <2> SUFFICES ASSUME Types, OrderInv, AnswerInv, [Next]_vars PROVE AnswerInv'
    OBVIOUS
  <2>1. CASE Advance
    <3>1. /\ UNCHANGED <<locked, said, row, rowLocked>> /\ new.pc' = new.pc
      BY <2>1, AdvanceTimes DEF Advance, probe
    <3> QED
      BY <3>1 DEF AnswerInv
  <2>2. CASE OldStep
    <3>1. UNCHANGED <<new, locked, said, rowLocked>> /\ row' \in {row, "none"}
      BY <2>2 DEF OldStep, OldLinger, OldRelease, OldCheck, OldUnlink, probe
    <3> QED
      BY <3>1 DEF AnswerInv
  <2>3. CASE NewStep
    <3> USE <2>3 DEF AnswerInv, OrderInv, Before, At, Goto, Enter, Wait, probe
    <3>1. CASE NewType \/ NewBoot \/ NewKilled
      BY <3>1 DEF NewType, NewBoot, NewKilled
    <3>2. CASE NewRead \/ NewClears
      BY <3>2 DEF NewRead, NewClears
    <3>3. CASE NewWake \/ NewFinish \/ NewFinal
      BY <3>3 DEF NewWake, NewFinish, NewFinal
    <3>4. CASE NewSpawnProbe \/ NewProbeTimeout
      BY <3>4 DEF NewSpawnProbe, NewProbeTimeout
    <3>5. CASE NewAnswer
      BY <3>5 DEF NewAnswer
    <3>6. CASE NewReport \/ NewAgent \/ NewTick
      BY <3>6 DEF NewReport, NewAgent, NewTick
    <3> QED
      BY <3>1, <3>2, <3>3, <3>4, <3>5, <3>6 DEF NewStep
  <2>4. CASE EnvStep \/ UNCHANGED vars
    BY <2>4 DEF AnswerInv, EnvStep, vars, probe
  <2> QED
    BY <2>1, <2>2, <2>3, <2>4 DEF Next
<1>3. AnswerInv => ShowsLastAnswer
  BY DEF AnswerInv, ShowsLastAnswer
<1> QED
  BY <1>1, <1>2, <1>3, ClockHolds, PTL DEF Spec

=============================================================================
