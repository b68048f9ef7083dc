--------------------------- MODULE ReportsProofs ---------------------------
(***************************************************************************)
(* What Reports promises for any settings file, any commands and a record  *)
(* of any length.                                                          *)
(***************************************************************************)
EXTENDS Reports, TextsProofs

-----------------------------------------------------------------------------
(* write_tty, and the property at TtyWrite's end: a new call and a step of *)
(* the terminal keep it, however many pieces a record has.                 *)
Places == {"idle", "opening", "writing", "returned", "failed", "killed"}
TtyRecord == [pc : Places, nonblock : BOOLEAN, sent : 0..Parts]
TtyInv ==
    /\ TtyType
    /\ tty.pc = "opening" => tty.nonblock
    /\ WholeOrNothing

LEMMA TtyRecordKept ==
  ASSUME NEW r \in TtyRecord
  PROVE  /\ \A p \in Places : [r EXCEPT !.pc = p] \in TtyRecord
         /\ [r EXCEPT !.nonblock = FALSE] \in TtyRecord
         /\ \A p \in Places, n \in 0..Parts : [r EXCEPT !.sent = n, !.pc = p] \in TtyRecord
<1>1. [r EXCEPT !.nonblock = FALSE] \in TtyRecord
  BY Zenon DEF TtyRecord
<1>2. \A p \in Places : [r EXCEPT !.pc = p] \in TtyRecord
  BY DEF TtyRecord
<1>3. \A p \in Places, n \in 0..Parts : [r EXCEPT !.sent = n, !.pc = p] \in TtyRecord
  BY DEF TtyRecord
<1> QED
  BY <1>1, <1>2, <1>3

LEMMA TtyTypeIs == TtyType <=> tty \in TtyRecord
BY DEF TtyType, TtyRecord, Places

LEMMA TtyCallWhole ==
  ASSUME TtyCall
  PROVE  TtyInv'
<1>1. tty' = [pc |-> "opening", nonblock |-> TRUE, sent |-> 0]
  BY Zenon DEF TtyCall, TtyIdle
<1>2. TtyType'
  BY <1>1, TtyAssumption DEF TtyType
<1>3. WholeOrNothing' /\ tty'.nonblock
  BY <1>1 DEF WholeOrNothing
<1> QED
  BY <1>2, <1>3 DEF TtyInv

LEMMA TtyStepWhole ==
  ASSUME TtyInv, TtyStep
  PROVE  TtyInv'
<1>1. tty \in TtyRecord /\ tty.pc \in Places /\ tty.sent \in 0..Parts
  BY TtyTypeIs DEF TtyInv, TtyRecord
<1>2. ASSUME NEW p \in Places, p \notin {"opening", "writing", "returned"},
             tty' = [tty EXCEPT !.pc = p]
      PROVE  TtyInv'
  <2>1. tty' \in TtyRecord
    BY <1>1, <1>2, TtyRecordKept
  <2>2. tty'.pc = p
    BY <1>1, <1>2 DEF TtyRecord
  <2> QED
    BY <1>2, <2>1, <2>2 DEF TtyInv, TtyType, TtyRecord, Places, WholeOrNothing
<1>3. CASE OpenTty
  <2>1. CASE tty' = [tty EXCEPT !.pc = "writing"]
    <3>1. tty' \in TtyRecord
      BY <1>1, <2>1, TtyRecordKept DEF Places
    <3>2. tty'.pc = "writing" /\ tty'.nonblock = tty.nonblock
      BY <1>1, <2>1 DEF TtyRecord
    <3>3. tty.nonblock
      BY <1>3 DEF OpenTty, TtyInv
    <3> QED
      BY <3>1, <3>2, <3>3 DEF TtyInv, TtyType, TtyRecord, Places, WholeOrNothing
  <2> QED
    BY <1>2, <1>3, <2>1 DEF OpenTty, Places
<1>4. CASE WritePart
  <2>1. PICK n \in 1..(Parts - tty.sent) :
          tty' = [tty EXCEPT !.sent = @ + n,
                             !.pc = IF tty.sent + n = Parts THEN "returned" ELSE @]
    BY <1>4 DEF WritePart
  <2>2. tty.sent + n \in 1..Parts
    BY <1>1, TtyAssumption
  <2> DEFINE place == IF tty.sent + n = Parts THEN "returned" ELSE "writing"
             sum == tty.sent + n
  <2>5. tty' = [tty EXCEPT !.sent = sum, !.pc = place]
    BY <1>1, <1>4, <2>1 DEF TtyRecord, WritePart
  <2>6. sum \in 0..Parts /\ place \in Places
    BY <2>2 DEF Places
  <2>3. tty' \in TtyRecord
    <3> HIDE DEF sum, place
    <3> QED
      BY <1>1, <2>5, <2>6, TtyRecordKept
  <2>4. /\ tty'.sent = tty.sent + n
        /\ tty'.pc = (IF tty.sent + n = Parts THEN "returned" ELSE "writing")
    BY <1>1, <1>4, <2>1 DEF TtyRecord, WritePart
  <2> QED
    BY <2>2, <2>3, <2>4, TtyAssumption DEF TtyInv, TtyType, TtyRecord, Places, WholeOrNothing
<1>5. CASE WouldBlock
  <2>1. CASE tty.sent > 0
    <3>1. tty' = [tty EXCEPT !.nonblock = FALSE]
      BY <1>5, <2>1 DEF WouldBlock
    <3>2. tty' \in TtyRecord
      BY <1>1, <3>1, TtyRecordKept
    <3>3. tty'.pc = "writing" /\ tty'.sent = tty.sent
      BY <1>1, <1>5, <3>1 DEF TtyRecord, WouldBlock
    <3> QED
      BY <2>1, <3>2, <3>3 DEF TtyInv, TtyType, TtyRecord, Places, WholeOrNothing
  <2>2. CASE ~(tty.sent > 0)
    <3>1. tty' = [tty EXCEPT !.pc = "returned"]
      BY <1>5, <2>2 DEF WouldBlock
    <3>2. tty' \in TtyRecord
      BY <1>1, <3>1, TtyRecordKept DEF Places
    <3>3. tty'.pc = "returned" /\ tty'.sent = 0
      BY <1>1, <2>2, <3>1, TtyAssumption DEF TtyRecord
    <3> QED
      BY <3>2, <3>3 DEF TtyInv, TtyType, TtyRecord, Places, WholeOrNothing
  <2> QED
    BY <2>1, <2>2
<1>6. CASE WriteFails
  BY <1>2, <1>6 DEF WriteFails, Places
<1>7. CASE WriterKilled
  BY <1>2, <1>7 DEF WriterKilled, Places
<1> QED
  BY <1>3, <1>4, <1>5, <1>6, <1>7 DEF TtyStep

LEMMA TtyNext == TtyInv /\ [Next]_vars => TtyInv'
<1> SUFFICES ASSUME TtyInv, [Next]_vars PROVE TtyInv'
  OBVIOUS
<1>1. CASE TtyCall
  BY <1>1, TtyCallWhole
<1>2. CASE TtyStep
  BY <1>2, TtyStepWhole
<1>3. CASE UNCHANGED tty
  BY <1>3 DEF TtyInv, TtyType, WholeOrNothing
<1> QED
  BY <1>1, <1>2, <1>3 DEF Next, Preexec, Boot, EarlyTick, OnTick, CommandEnds, OnFinish,
     ReportWorking, Finish, Terminal, vars

LEMMA WholeInit == Init => TtyInv
<1> SUFFICES ASSUME tty = [pc |-> "idle", nonblock |-> TRUE, sent |-> 0]
             PROVE  TtyInv
  BY DEF Init, TtyIdle
<1>1. TtyType
  BY TtyAssumption DEF TtyType
<1> QED
  BY <1>1 DEF TtyInv, WholeOrNothing

(* A call of write_tty that returns has written all of its record or       *)
(* nothing, and waits only in the middle of one (WholeOrNothing;           *)
(* osc_watch.rs:73-83).                                                    *)
THEOREM WholeOrNothingHolds == Spec => []WholeOrNothing
<1>1. Init => TtyInv
  BY WholeInit
<1>2. TtyInv => WholeOrNothing
  BY DEF TtyInv
<1> QED
  BY <1>1, <1>2, TtyNext, PTL DEF Spec

-----------------------------------------------------------------------------
(* The settings.                                                           *)
Fits(c) ==
    /\ c.tick_ms >= 250 /\ c.threshold_ms >= 250 /\ c.max_display_len >= 8
    /\ c.lock_timeout_ms \in 50..c.tick_ms

Limits(c) == c.max_title_len \in Nat /\ c.max_display_len \in Nat /\ c.success_sticky_ms \in Nat

LEMMA DefaultNumbers ==
  /\ Numbers \subseteq DOMAIN Default
  /\ \A field \in Numbers : Default[field] \in Nat
  /\ Fits(Default) /\ Limits(Default)
BY DEF Default, Numbers, Fits, Limits

LEMMA ParsedNumbers ==
  ASSUME NEW f, Unsigned(f)
  PROVE  /\ DOMAIN Parsed(f) = DOMAIN Default
         /\ \A field \in Numbers : Parsed(f)[field] \in Nat
<1>1. CASE f \in {NoFile, Malformed}
  <2>1. Parsed(f) = Default
    BY <1>1 DEF Parsed
  <2> QED
    BY <2>1, DefaultNumbers
<1>2. CASE f \notin {NoFile, Malformed}
  <2>1. Parsed(f) = [k \in DOMAIN Default |-> IF k \in DOMAIN f THEN f[k] ELSE Default[k]]
    BY <1>2 DEF Parsed
  <2> QED
    BY <2>1, DefaultNumbers DEF Unsigned
<1> QED
  BY <1>1, <1>2

(* sanitize puts every number at or above its floor, and the timeout of    *)
(* keylock between its floor and the tick; the clamp never meets an empty  *)
(* range.                                                                  *)
LEMMA SanitizeFits ==
  ASSUME NEW c, Numbers \subseteq DOMAIN c,
         \A field \in Numbers : c[field] \in Nat
  PROVE  Fits(Sanitize(c)) /\ Limits(Sanitize(c))
<1> DEFINE tick == AtLeast(c.tick_ms, MIN_INTERVAL_MS)
           s == Sanitize(c)
<1>1. /\ s.tick_ms = tick
      /\ s.threshold_ms = AtLeast(c.threshold_ms, MIN_INTERVAL_MS)
      /\ s.max_display_len = AtLeast(c.max_display_len, MIN_DISPLAY_LEN)
      /\ s.lock_timeout_ms = Clamp(c.lock_timeout_ms, MIN_LOCK_TIMEOUT_MS, tick)
  BY DEF Sanitize, Numbers
<1>2. /\ c.tick_ms \in Nat /\ c.threshold_ms \in Nat /\ c.max_display_len \in Nat
      /\ c.lock_timeout_ms \in Nat
  BY DEF Numbers
<1>3. tick \in Nat /\ tick >= 250
  BY <1>2 DEF AtLeast, MIN_INTERVAL_MS
<1>4. Clamp(c.lock_timeout_ms, MIN_LOCK_TIMEOUT_MS, tick) \in 50..tick
  <2> HIDE DEF tick
  <2> QED
    BY <1>2, <1>3 DEF Clamp, AtLeast, MIN_LOCK_TIMEOUT_MS
<1>5. s.threshold_ms >= 250 /\ s.max_display_len >= 8
  BY <1>1, <1>2 DEF AtLeast, MIN_INTERVAL_MS, MIN_DISPLAY_LEN
<1>6. Limits(s)
  <2>1. s.max_title_len = c.max_title_len /\ s.success_sticky_ms = c.success_sticky_ms
    BY DEF Sanitize
  <2>2. c.max_title_len \in Nat /\ c.success_sticky_ms \in Nat
    BY DEF Numbers
  <2>3. s.max_display_len \in Nat
    BY <1>1, <1>2 DEF AtLeast, MIN_DISPLAY_LEN
  <2> QED
    BY <2>1, <2>2, <2>3 DEF Limits
<1> QED
  BY <1>1, <1>3, <1>4, <1>5, <1>6 DEF Fits

LEMMA LoadFits ==
  ASSUME NEW f, Unsigned(f)
  PROVE  Fits(Load(f)) /\ Limits(Load(f))
BY ParsedNumbers, DefaultNumbers, SanitizeFits DEF Load

(* A start that the hook passed is the number it passed, and one that it   *)
(* did not pass is left to the watcher's clock.                            *)
Started(c) == c.start \in Nat \cup {NaN}

LEMMA NumberIs == \A word : Number(word) \in Nat \cup {NaN}
BY InvocationAssumption DEF Number, NaN

LEMMA ParseStarts ==
  ASSUME NEW words, Parse(words) # None
  PROVE  Started(Parse(words))
BY NumberIs DEF Parse, Started

LEMMA WatchStarts ==
  ASSUME NEW shell, NEW hook, Invoke(WatchCall(shell, hook)) # None
  PROVE  Started(Invoke(WatchCall(shell, hook)))
<1> DEFINE words == WatchCall(shell, hook)
<1>1. words # <<>> /\ words[1] = "watch"
  BY DEF WatchCall, Words
<1>2. Invoke(words) = Parse(words)
  <2> HIDE DEF words
  <2> QED
    BY <1>1 DEF Invoke
<1> QED
  BY <1>2, ParseStarts

(* A start is a natural number, so that what has passed since it is one.   *)
TypeInv ==
    /\ TypeOK
    /\ phase = "called" /\ call # None => Started(call)
    /\ machine.start \in Nat

LEMMA ElapsedNatural ==
  ASSUME machine.start \in Nat, NEW now \in Instants
  PROVE  Elapsed(now) \in Nat
BY ReportsAssumption DEF Elapsed

LEMMA TypeInit == Init => TypeInv
<1> SUFFICES ASSUME Init PROVE TypeInv
  OBVIOUS
<1>1. TtyType
  <2>1. tty = [pc |-> "idle", nonblock |-> TRUE, sent |-> 0]
    BY DEF Init, TtyIdle
  <2> QED
    BY <2>1, TtyAssumption DEF TtyType
<1>2. Fits(cfg)
  BY DefaultNumbers DEF Init
<1>3. machine.start \in Nat
  BY DEF Init, NoMachine
<1> QED
  BY <1>1, <1>2, <1>3 DEF Init, TypeInv, TypeOK, Fits

LEMMA TypeNext == TypeInv /\ TtyInv /\ [Next]_vars => TypeInv'
<1> SUFFICES ASSUME TypeInv, TtyInv, [Next]_vars PROVE TypeInv'
  OBVIOUS
<1>1. TtyType'
  BY TtyNext DEF TtyInv
<1>2. job' = job /\ file' = file
  BY DEF Next, Preexec, Boot, EarlyTick, OnTick, CommandEnds, OnFinish, ReportWorking, Finish,
         Terminal, vars
<1>3. CASE Preexec
  <2>1. call' # None => Started(call')
    BY <1>3, WatchStarts DEF Preexec
  <2> QED
    BY <1>1, <1>2, <1>3, <2>1 DEF Preexec, TypeInv, TypeOK
<1>4. CASE Boot
  <2>1. cfg' = Load(file) /\ phase' \in {"parked", "watching"} /\ UNCHANGED asked
    BY <1>4 DEF Boot
  <2>2. Fits(cfg')
    BY <2>1, LoadFits, ReportsAssumption DEF TypeInv, TypeOK
  <2>3. machine'.start = IF call.start = NaN THEN SpawnedAt ELSE call.start
    BY <1>4 DEF Boot, NoMachine
  <2>4. machine'.start \in Nat
    BY <1>4, <2>3 DEF Boot, TypeInv, Started, SpawnedAt
  <2> QED
    BY <1>1, <1>2, <2>1, <2>2, <2>4 DEF TypeInv, TypeOK, Fits
<1>5. CASE OnTick
  <2>1. machine'.start = machine.start
    BY <1>5 DEF OnTick
  <2>2. asked' \in Nat
    BY <1>5, ElapsedNatural DEF OnTick, TypeInv
  <2> QED
    BY <1>1, <1>2, <1>5, <2>1, <2>2 DEF OnTick, TypeInv, TypeOK
<1>6. CASE CommandEnds
  BY <1>1, <1>2, <1>6 DEF CommandEnds, TypeInv, TypeOK
<1>7. CASE OnFinish
  <2>1. asked' \in Nat
    BY <1>7, ElapsedNatural DEF OnFinish, TypeInv
  <2> QED
    BY <1>1, <1>2, <1>7, <2>1 DEF OnFinish, TypeInv, TypeOK
<1>8. CASE ReportWorking
  <2>1. machine'.start = machine.start
    BY <1>8 DEF ReportWorking
  <2>2. asked' \in Nat
    BY <1>8, ElapsedNatural DEF ReportWorking, TypeInv
  <2> QED
    BY <1>1, <1>2, <1>8, <2>1, <2>2 DEF ReportWorking, TypeInv, TypeOK
<1>9. CASE Finish
  <2>1. asked' \in Nat
    BY <1>9, ElapsedNatural DEF Finish, TypeInv
  <2> QED
    BY <1>1, <1>2, <1>9, <2>1 DEF Finish, TypeInv, TypeOK
<1>10. CASE Terminal \/ UNCHANGED vars
  BY <1>1, <1>2, <1>10 DEF Terminal, vars, TypeInv, TypeOK
<1>11. CASE EarlyTick
  <2>1. machine'.start = machine.start
    BY <1>11 DEF EarlyTick
  <2> QED
    BY <1>1, <1>2, <1>11, <2>1 DEF EarlyTick, TypeInv, TypeOK
<1> QED
  BY <1>3, <1>4, <1>5, <1>6, <1>7, <1>8, <1>9, <1>10, <1>11 DEF Next

(* Types, and with them the floors and the cap that sanitize puts under    *)
(* and over the settings of any file (TypeOK; config.rs:187-204).          *)
THEOREM TypesHold == Spec => []TypeOK
<1>1. Init => TtyInv
  BY WholeInit
<1>2. TypeInv => TypeOK
  BY DEF TypeInv
<1> QED
  BY <1>1, <1>2, TypeInit, TypeNext, TtyNext, PTL DEF Spec

-----------------------------------------------------------------------------
(* What is ignored.  The property speaks of the program a line runs; that  *)
(* agent_name finds it in the line is a fact about each line, which TLC    *)
(* checks of the lines it is given.                                        *)
Told(j) == j.shell \in {"zsh", "bash"}
NamedLine(j) ==
    IF j.shell = "zsh" \/ (j.shell = "bash" /\ j.ran # NoLine) THEN j.ran ELSE j.typed
ProgramNamed ==
    \A j \in Jobs, f \in Files :
        Told(j) /\ IsIgnored(Load(f), j.program) => AgentName(NamedLine(j)) = j.program

(* The files the hook writes name the command that it knows most about.    *)
NameInv == phase = "called" => IgnoreName = AgentName(NamedLine(job))

LEMMA NameNext == NameInv /\ [Next]_vars => NameInv'
<1> SUFFICES ASSUME NameInv, [Next]_vars PROVE NameInv'
  OBVIOUS
<1>1. CASE Preexec
  <2>1. /\ job' = job
        /\ cmd' = IF job.shell = "zsh" THEN job.ran ELSE job.typed
        /\ name' = IF job.shell = "bash" THEN job.ran ELSE NoLine
    BY <1>1 DEF Preexec
  <2>2. (IF name' # NoLine THEN AgentName(name') ELSE AgentName(cmd'))
          = AgentName(NamedLine(job))
    BY <2>1, Zenon DEF NamedLine
  <2> QED
    BY <2>1, <2>2, Zenon DEF NameInv, IgnoreName
<1>2. CASE phase' # "called"
  BY <1>2 DEF NameInv
<1>3. CASE UNCHANGED <<job, phase, cmd, name>>
  BY <1>3 DEF NameInv, IgnoreName
<1> QED
  BY <1>1, <1>2, <1>3 DEF Next, Boot, EarlyTick, OnTick, CommandEnds, OnFinish, ReportWorking,
     Finish, Terminal, vars

Silent == wire = <<>> /\ record = NoRecord /\ machine.reported = FALSE /\ osc_start = NoStart

SilentInv ==
    /\ job \in Jobs /\ file \in Files
    /\ phase \in {"prompt", "called"} => Silent
    /\ phase \notin {"prompt", "called"} /\ Told(job) /\ IsIgnored(cfg, job.program)
         => phase # "watching" /\ Silent

LEMMA SilentNext == ProgramNamed /\ SilentInv /\ NameInv /\ [Next]_vars => SilentInv'
<1> SUFFICES ASSUME ProgramNamed, SilentInv, NameInv, [Next]_vars PROVE SilentInv'
  OBVIOUS
<1>1. job' = job /\ file' = file
  BY DEF Next, Preexec, Boot, EarlyTick, OnTick, CommandEnds, OnFinish, ReportWorking, Finish,
         Terminal, vars
<1>2. CASE Preexec
  BY <1>1, <1>2 DEF Preexec, SilentInv, Silent
<1>3. CASE Boot
  <2>1. cfg' = Load(file) /\ machine'.reported = FALSE /\ UNCHANGED <<wire, record, osc_start>>
    BY <1>3 DEF Boot, NoMachine
  <2>2. phase' = IF IsIgnored(cfg', IgnoreName) THEN "parked" ELSE "watching"
    BY <1>3 DEF Boot
  <2>3. ASSUME Told(job), IsIgnored(cfg', job.program)
        PROVE  IgnoreName = job.program
    <3>1. AgentName(NamedLine(job)) = job.program
      BY <2>1, <2>3, Zenon DEF ProgramNamed, SilentInv
    <3> QED
      BY <1>3, <3>1 DEF Boot, NameInv
  <2>4. Silent'
    BY <1>3, <2>1 DEF Boot, SilentInv, Silent
  <2> QED
    BY <1>1, <2>2, <2>3, <2>4 DEF SilentInv
<1>4. CASE EarlyTick \/ OnTick
  BY <1>1, <1>4 DEF EarlyTick, OnTick, SilentInv
<1>5. CASE CommandEnds
  BY <1>1, <1>5 DEF CommandEnds, SilentInv, Silent
<1>6. CASE OnFinish
  BY <1>1, <1>6 DEF OnFinish, SilentInv, Silent
<1>7. CASE ReportWorking
  BY <1>1, <1>7 DEF ReportWorking, SilentInv
<1>8. CASE Finish
  BY <1>1, <1>8 DEF Finish, SilentInv, Silent
<1>9. CASE Terminal \/ UNCHANGED vars
  BY <1>1, <1>9 DEF Terminal, vars, SilentInv, Silent
<1> QED
  BY <1>2, <1>3, <1>4, <1>5, <1>6, <1>7, <1>8, <1>9 DEF Next

(* Nothing is said about a command of the ignore list, in either backend   *)
(* (IgnoredSilent; watch.rs:88-113).                                       *)
THEOREM IgnoredSilentHolds ==
  ASSUME ProgramNamed
  PROVE  Spec => []IgnoredSilent
<1>1. Init => SilentInv
  <2>1. Init => machine.reported = FALSE
    <3>1. NoMachine.reported = FALSE
      BY DEF NoMachine
    <3> QED
      BY <3>1, Zenon DEF Init
  <2> QED
    BY <2>1 DEF Init, SilentInv, Silent
<1>2. SilentInv => IgnoredSilent
  BY DEF SilentInv, Silent, IgnoredSilent, Told
<1>3. Init => NameInv
  BY DEF Init, NameInv
<1> QED
  BY <1>1, <1>2, <1>3, SilentNext, NameNext, ProgramNamed, PTL DEF Spec

-----------------------------------------------------------------------------
(* What the sidebar is told.  The lines are made of words of any symbols.  *)
Symbols(S) == " " \in S /\ "ellipsis" \in S
LinesSpelled(S) ==
    \A j \in Jobs : j.typed \in Seq(Spelled(S)) /\ j.ran \in Seq(Spelled(S))

LockBefore(state, locked) == IF locked /\ state = "working" THEN cfg.prefix ELSE <<>>
Request(r, title, display, locked) ==
    /\ r.method = "report_metadata" =>
          /\ r.cmd = title
          /\ r.ttl <= MAX_TTL_MS
          /\ r.title = LockBefore(r.state, locked) \o title
          /\ r.display = LockBefore(r.state, locked) \o display
          /\ AllLiteral => r.label = title
    /\ r.method = "report_agent" => r.message \subseteq {title}

RowInv(S) ==
    /\ phase = "called" => cmd \in {job.typed, job.ran}
    /\ phase \in {"prompt", "called"} => wire = <<>>
    /\ phase \notin {"prompt", "called"} =>
          /\ cmd \in Seq(Spelled(S))
          /\ machine.title = Truncate(Joined(cmd), cfg.max_title_len)
          /\ machine.display = DisplayName(cmd, cfg.max_display_len)
          /\ Limits(cfg)
    /\ DOMAIN machine = DOMAIN NoMachine
    /\ machine.locked => IsKeylock(machine.agent)
    /\ machine.reported \/ wire = <<>>
    /\ \A i \in DOMAIN wire :
          Request(wire[i], machine.title, machine.display, machine.locked)

LEMMA TitleIsText ==
  ASSUME NEW S, Symbols(S), RowInv(S), phase \notin {"prompt", "called"}
  PROVE  machine.title \in Seq(S) /\ Len(machine.title) <= cfg.max_title_len
<1>1. cmd \in Seq(Spelled(S)) /\ cfg.max_title_len \in Nat
  BY Zenon DEF RowInv, Limits
<1>2. Joined(cmd) \in Seq(S)
  BY <1>1, JoinedIsText, Zenon DEF Symbols
<1>3. machine.title = Truncate(Joined(cmd), cfg.max_title_len)
  BY Zenon DEF RowInv
<1>4. "ellipsis" \in S
  BY Zenon DEF Symbols
<1> HIDE DEF RowInv
<1> QED
  BY <1>1, <1>2, <1>3, <1>4, TruncateFits, ZenonT(60)

(* The name of a row is a text too, the fallback for an empty line         *)
(* included.                                                               *)
LEMMA DisplayIsText ==
  ASSUME NEW S, Symbols(S), RowInv(S), phase \notin {"prompt", "called"}
  PROVE  machine.display \in Seq(S \cup {FALLBACK})
<1>1. /\ cmd \in Seq(Spelled(S)) /\ cfg.max_display_len \in Nat
      /\ machine.display = DisplayName(cmd, cfg.max_display_len)
  BY Zenon DEF RowInv, Limits
<1>2. CASE cmd = <<>>
  BY <1>1, <1>2 DEF DisplayName
<1>3. CASE cmd # <<>>
  <2> DEFINE T == S \cup {FALLBACK}
             line == Joined(cmd)
  <2>1. line \in Seq(S)
    BY <1>1, JoinedIsText, Zenon DEF Symbols
  <2> HIDE DEF line
  <2>2. line \in Seq(T) /\ "ellipsis" \in T
    <3>1. S \subseteq T /\ "ellipsis" \in T
      BY Zenon DEF Symbols
    <3> HIDE DEF T
    <3> QED
      BY <2>1, <3>1
  <2> HIDE DEF T
  <2>3. Truncate(line, cfg.max_display_len) \in Seq(T)
    BY <1>1, <2>2, TruncateFits, Zenon
  <2>4. machine.display = Truncate(line, cfg.max_display_len)
    BY <1>1, <1>3 DEF DisplayName, line
  <2> QED
    BY <2>3, <2>4 DEF T
<1> QED
  BY <1>2, <1>3

LEMMA LabelsLiteral ==
  ASSUME NEW S, machine.title \in Seq(S), AllLiteral, NEW e, NEW code
  PROVE  RunningLabel(e) = machine.title /\ FinishLabel(Classify(code), e) = machine.title
<1>1. \A field \in {"running", "success", "failure", "signal", "unknown"} : cfg[field] = CmdOnly
  BY DEF AllLiteral
<1>2. RunningLabel(e) = machine.title
  <2> DEFINE vals == [elapsed |-> FormatElapsed(e), cmd |-> machine.title,
                      agent |-> <<machine.agent>>]
  <2>1. "cmd" \in DOMAIN vals /\ vals["cmd"] = machine.title
    OBVIOUS
  <2>2. RunningLabel(e) = Render(CmdOnly, vals)
    BY <1>1 DEF RunningLabel
  <2> HIDE DEF vals
  <2>3. Render(CmdOnly, vals) = vals["cmd"]
    BY <2>1, CmdRendered, Zenon DEF CmdOnly
  <2> QED
    BY <2>1, <2>2, <2>3
<1>3. FinishLabel(Classify(code), e) = machine.title
  <2> DEFINE outcome == Classify(code)
             Only(kind) == IF outcome.kind = kind THEN outcome.value ELSE <<>>
             vals == [elapsed |-> FormatElapsed(e), code |-> Only("failure"),
                      signal |-> Only("signal"), cmd |-> machine.title,
                      agent |-> <<machine.agent>>]
  <2>1. "cmd" \in DOMAIN vals /\ vals["cmd"] = machine.title
    OBVIOUS
  <2>2. outcome.kind \in {"success", "failure", "signal", "unknown"}
    BY DEF Classify
  <2>3. FinishLabel(outcome, e) = Render(cfg[outcome.kind], vals)
    BY DEF FinishLabel
  <2> HIDE DEF vals, outcome
  <2>4. Render(CmdOnly, vals) = vals["cmd"]
    BY <2>1, CmdRendered, Zenon DEF CmdOnly
  <2> QED
    BY <1>1, <2>1, <2>2, <2>3, <2>4 DEF outcome
<1> QED
  BY <1>2, <1>3

LEMMA MetadataRequest ==
  ASSUME NEW S, machine.title \in Seq(S), NEW state, NEW locked, NEW display, NEW label,
         NEW ttl, ttl <= MAX_TTL_MS, AllLiteral => label = machine.title,
         NEW title, title = LockBefore(state, locked) \o machine.title,
         display = LockBefore(state, locked) \o machine.display
  PROVE  Request(Metadata(state, title, display, label, ttl), machine.title, machine.display,
                 locked)
<1> DEFINE r == Metadata(state, title, display, label, ttl)
<1>1. /\ r.method = "report_metadata" /\ r.cmd = machine.title /\ r.ttl = ttl
      /\ r.title = title /\ r.display = display /\ r.state = state /\ r.label = label
  BY DEF Metadata
<1> HIDE DEF r
<1>2. Request(r, machine.title, machine.display, locked)
  <2>1. /\ r.cmd = machine.title
        /\ r.ttl <= MAX_TTL_MS
        /\ r.title = LockBefore(r.state, locked) \o machine.title
        /\ r.display = LockBefore(r.state, locked) \o machine.display
    BY <1>1
  <2>2. AllLiteral => r.label = machine.title
    BY <1>1
  <2>3. r.method # "report_agent"
    BY <1>1
  <2> QED
    BY <2>1, <2>2, <2>3 DEF Request
<1> QED
  BY <1>2 DEF r

LEMMA AgentRequest ==
  ASSUME NEW state, NEW message, NEW title, message \subseteq {title}, NEW display, NEW locked
  PROVE  Request(ReportAgent(state, message), title, display, locked)
<1> DEFINE r == ReportAgent(state, message)
<1>1. r.method = "report_agent" /\ r.message = message
  BY DEF ReportAgent
<1> HIDE DEF r
<1> QED
  BY <1>1 DEF Request, r

LEMMA ReleaseRequest ==
  ASSUME NEW title, NEW display, NEW locked
  PROVE  Request(Release, title, display, locked)
<1>1. Release.method = "release_agent"
  BY DEF Release
<1> QED
  BY <1>1 DEF Request

LEMMA RunningIs ==
  ASSUME NEW S, NEW text \in Seq(S), NEW locked
  PROVE  Running(text, locked) = LockBefore("working", locked) \o text
<1>1. <<>> \o text = text
  OBVIOUS
<1>2. CASE locked
  BY <1>2, Zenon DEF Running, Decorate, LockBefore
<1>3. CASE ~locked
  BY <1>1, <1>3, Zenon DEF Running, LockBefore
<1> QED
  BY <1>2, <1>3

LEMMA TickRequests ==
  ASSUME NEW S, Symbols(S), RowInv(S), TypeInv, OnTick
  PROVE  /\ \A i \in DOMAIN wire' :
               Request(wire'[i], machine.title, machine.display, machine'.locked)
         /\ machine'.reported
         /\ machine'.title = machine.title /\ machine'.display = machine.display
         /\ machine'.agent = machine.agent
         /\ DOMAIN machine' = DOMAIN machine
         /\ machine'.locked => IsKeylock(machine.agent)
<1>1. phase \notin {"prompt", "called"}
  BY DEF OnTick
<1>2. machine.title \in Seq(S)
  BY <1>1, TitleIsText, Zenon
<1>3. PICK now \in Instants, reply \in Replies :
        LET locked == Probed(reply)
            metadata == Metadata("working", Running(machine.title, locked),
                          Running(machine.display, locked),
                          RunningLabel(Elapsed(now)), 0)
        IN  /\ machine' = [machine EXCEPT !.locked = locked, !.reported = TRUE]
            /\ wire' = IF machine.reported THEN <<metadata>>
                       ELSE <<ReportAgent("working", {machine.title}), metadata>>
  BY Zenon DEF OnTick
<1> DEFINE locked == Probed(reply)
           metadata == Metadata("working", Running(machine.title, locked),
                         Running(machine.display, locked),
                         RunningLabel(Elapsed(now)), 0)
<1>4. /\ machine' = [machine EXCEPT !.locked = locked, !.reported = TRUE]
      /\ wire' = IF machine.reported THEN <<metadata>>
                 ELSE <<ReportAgent("working", {machine.title}), metadata>>
  BY <1>3, Zenon
<1>5. /\ Running(machine.title, locked) = LockBefore("working", locked) \o machine.title
      /\ Running(machine.display, locked) = LockBefore("working", locked) \o machine.display
  <2>1. machine.display \in Seq(S \cup {FALLBACK})
    BY <1>1, DisplayIsText
  <2> HIDE DEF locked
  <2> QED
    BY <1>2, <2>1, RunningIs, Zenon
<1>6. AllLiteral => RunningLabel(Elapsed(now)) = machine.title
  BY <1>2, LabelsLiteral, Zenon
<1>7. Request(metadata, machine.title, machine.display, locked)
  <2>1. 0 <= MAX_TTL_MS
    BY SMT DEF MAX_TTL_MS
  <2> HIDE DEF locked
  <2> QED
    BY <1>2, <1>5, <1>6, <2>1, MetadataRequest, Zenon
<1>8. Request(ReportAgent("working", {machine.title}), machine.title, machine.display, locked)
  BY AgentRequest
<1>9. locked => IsKeylock(machine.agent)
  BY DEF Probed, RowInv
<1> HIDE DEF locked, metadata
<1>10. \A i \in DOMAIN wire' : Request(wire'[i], machine.title, machine.display, locked)
  BY <1>4, <1>7, <1>8
<1>11. machine'.locked = locked /\ machine'.reported
  <2>1. {"locked", "reported"} \subseteq DOMAIN machine
    <3>1. {"locked", "reported"} \subseteq DOMAIN NoMachine
      BY DEF NoMachine
    <3> QED
      BY <3>1, Zenon DEF RowInv
  <2> QED
    BY <1>4, <2>1, Zenon
<1>12. /\ machine'.title = machine.title /\ machine'.display = machine.display
       /\ machine'.agent = machine.agent /\ DOMAIN machine' = DOMAIN machine
  BY <1>4
<1> QED
  BY <1>9, <1>10, <1>11, <1>12, Zenon

LEMMA FinishRequests ==
  ASSUME NEW S, Symbols(S), RowInv(S), TypeInv, OnFinish
  PROVE  \A i \in DOMAIN wire' :
            Request(wire'[i], machine.title, machine.display, machine.locked)
<1>1. phase \notin {"prompt", "called"}
  BY DEF OnFinish
<1>2. machine.title \in Seq(S)
  BY <1>1, TitleIsText, Zenon
<1> DEFINE outcome == Classify(ExitCode)
           ttl == IF cfg.success_sticky_ms > MAX_TTL_MS THEN MAX_TTL_MS
                  ELSE cfg.success_sticky_ms
           LabelAt(now) == FinishLabel(outcome, Elapsed(now))
           SettledAt(now, t) ==
               <<ReportAgent("idle", {}),
                 Metadata("idle", machine.title, machine.display, LabelAt(now), t)>>
<1>3. PICK now \in Instants :
        wire' = CASE outcome.kind = "failure" /\ cfg.failure_sticky -> SettledAt(now, 0)
                  [] ~(outcome.kind = "failure" /\ cfg.failure_sticky)
                       /\ ttl = 0 -> <<Release>>
                  [] OTHER -> SettledAt(now, ttl)
  BY DEF OnFinish
<1> DEFINE label == LabelAt(now)
           Settled(t) == SettledAt(now, t)
<1>4. wire' \in {Settled(0), Settled(ttl), <<Release>>}
  BY <1>3
<1>5. AllLiteral => label = machine.title
  BY <1>2, LabelsLiteral, Zenon
<1>6. /\ machine.title = LockBefore("idle", machine.locked) \o machine.title
      /\ machine.display = LockBefore("idle", machine.locked) \o machine.display
  <2>1. machine.display \in Seq(S \cup {FALLBACK})
    BY <1>1, DisplayIsText
  <2> QED
    BY <1>2, <2>1 DEF LockBefore
<1>7. ttl <= MAX_TTL_MS
  BY <1>1, SMT DEF RowInv, Limits, MAX_TTL_MS
<1> HIDE DEF label, ttl
<1>8. ASSUME NEW t, t <= MAX_TTL_MS
      PROVE  \A i \in DOMAIN Settled(t) :
                Request(Settled(t)[i], machine.title, machine.display, machine.locked)
  <2> DEFINE agent == ReportAgent("idle", {})
             metadata == Metadata("idle", machine.title, machine.display, label, t)
  <2>1. Request(metadata, machine.title, machine.display, machine.locked)
    BY <1>2, <1>5, <1>6, <1>8, MetadataRequest
  <2>2. Request(agent, machine.title, machine.display, machine.locked)
    BY AgentRequest
  <2>3. Settled(t) = <<agent, metadata>>
    BY DEF label
  <2> HIDE DEF agent, metadata, Settled
  <2> QED
    BY <2>1, <2>2, <2>3
<1>9. \A i \in DOMAIN <<Release>> :
         Request(<<Release>>[i], machine.title, machine.display, machine.locked)
  BY ReleaseRequest
<1>10. 0 <= MAX_TTL_MS
  BY SMT DEF MAX_TTL_MS
<1> HIDE DEF Settled
<1> QED
  BY <1>4, <1>7, <1>8, <1>9, <1>10

LEMMA RowInit ==
  ASSUME NEW S, Init
  PROVE  RowInv(S)
<1>1. machine = NoMachine /\ wire = <<>> /\ phase = "prompt"
  BY DEF Init
<1>2. NoMachine.locked = FALSE /\ NoMachine.agent = ""
  BY DEF NoMachine
<1>3. DOMAIN wire = {}
  BY <1>1
<1> QED
  BY <1>1, <1>2, <1>3, Zenon DEF RowInv, IsKeylock

(* A step that leaves the row, its command and its settings alone.         *)
LEMMA RowStutter ==
  ASSUME NEW S, RowInv(S), UNCHANGED <<job, cmd, cfg, machine, wire>>,
         \/ phase' = phase
         \/ (phase \notin {"prompt", "called"} /\ phase' \notin {"prompt", "called"})
  PROVE  RowInv(S)'
<1> USE DEF RowInv
<1>1. /\ phase' = "called" => cmd' \in {job'.typed, job'.ran}
      /\ phase' \in {"prompt", "called"} => wire' = <<>>
  OBVIOUS
<1>2. phase' \notin {"prompt", "called"} =>
          /\ cmd' \in Seq(Spelled(S))
          /\ machine'.title = Truncate(Joined(cmd'), cfg'.max_title_len)
          /\ machine'.display = DisplayName(cmd', cfg'.max_display_len)
          /\ Limits(cfg')
  OBVIOUS
<1>3. /\ DOMAIN machine' = DOMAIN NoMachine
      /\ machine'.locked => IsKeylock(machine'.agent)
      /\ machine'.reported \/ wire' = <<>>
  OBVIOUS
<1>4. \A i \in DOMAIN wire' :
         Request(wire[i], machine.title, machine.display, machine.locked)'
  BY DEF Request, AllLiteral, LockBefore
<1> QED
  BY <1>1, <1>2, <1>3, <1>4

LEMMA RowBoot ==
  ASSUME NEW S, LinesSpelled(S), TypeInv, RowInv(S), Boot
  PROVE  RowInv(S)'
<1>1. phase = "called" /\ phase' \in {"parked", "watching"} /\ cfg' = Load(file)
  BY DEF Boot
<1>2. /\ machine'.agent = IgnoreName
      /\ machine'.title = Truncate(Joined(cmd), cfg'.max_title_len)
      /\ machine'.display = DisplayName(cmd, cfg'.max_display_len)
      /\ DOMAIN machine' = DOMAIN NoMachine
      /\ machine'.locked = FALSE
  BY DEF Boot, NoMachine
<1>3. cmd \in {job.typed, job.ran} /\ wire = <<>>
  BY <1>1 DEF RowInv
<1>4. job \in Jobs /\ Limits(cfg')
  BY <1>1, LoadFits, ReportsAssumption DEF TypeInv, TypeOK
<1>5. cmd \in Seq(Spelled(S))
  BY <1>3, <1>4, Zenon DEF LinesSpelled
<1>6. UNCHANGED <<job, cmd, wire>> /\ DOMAIN wire' = {}
  BY <1>3 DEF Boot
<1> QED
  BY <1>1, <1>2, <1>3, <1>4, <1>5, <1>6 DEF RowInv

LEMMA RowNext ==
  ASSUME NEW S, Symbols(S), LinesSpelled(S)
  PROVE  RowInv(S) /\ TypeInv /\ [Next]_vars => RowInv(S)'
<1> SUFFICES ASSUME RowInv(S), TypeInv, [Next]_vars PROVE RowInv(S)'
  OBVIOUS
<1>1. CASE Preexec
  <2>1. UNCHANGED <<job, cfg, machine, wire>> /\ phase = "prompt" /\ phase' = "called"
    BY <1>1 DEF Preexec
  <2>2. cmd' \in {job.typed, job.ran}
    BY <1>1 DEF Preexec
  <2>3. wire' = <<>> /\ DOMAIN wire' = {}
    BY <2>1 DEF RowInv
  <2> QED
    BY <2>1, <2>2, <2>3 DEF RowInv
<1>2. CASE Boot
  BY <1>2, RowBoot
<1>3. CASE OnTick
  <2>1. UNCHANGED <<job, phase, cmd, cfg>> /\ phase = "watching"
    BY <1>3 DEF OnTick
  <2>2. /\ \A i \in DOMAIN wire' :
              Request(wire'[i], machine.title, machine.display, machine'.locked)
        /\ machine'.reported
        /\ machine'.title = machine.title /\ machine'.display = machine.display
        /\ machine'.agent = machine.agent
        /\ DOMAIN machine' = DOMAIN machine
        /\ machine'.locked => IsKeylock(machine.agent)
    BY <1>3, TickRequests
  <2>3. \A i \in DOMAIN wire' :
           Request(wire[i], machine.title, machine.display, machine.locked)'
    BY <2>1, <2>2 DEF Request, AllLiteral, LockBefore
  <2> QED
    BY <2>1, <2>2, <2>3 DEF RowInv
<1>4. CASE CommandEnds
  BY <1>4, RowStutter DEF CommandEnds
<1>5. CASE OnFinish
  <2>1. /\ UNCHANGED <<job, cmd, cfg, machine>> /\ phase = "ended" /\ phase' = "finished"
        /\ machine.reported
    BY <1>5 DEF OnFinish
  <2>2. \A i \in DOMAIN wire' :
           Request(wire'[i], machine.title, machine.display, machine.locked)
    BY <1>5, FinishRequests
  <2>3. \A i \in DOMAIN wire' :
           Request(wire[i], machine.title, machine.display, machine.locked)'
    BY <2>1, <2>2 DEF Request, AllLiteral, LockBefore
  <2> QED
    BY <2>1, <2>3 DEF RowInv
<1>6. CASE ReportWorking
  <2>1. /\ UNCHANGED <<job, phase, cmd, cfg, wire>>
        /\ machine' = [machine EXCEPT !.reported = TRUE]
    BY <1>6 DEF ReportWorking
  <2>2. /\ machine'.title = machine.title /\ machine'.display = machine.display
        /\ machine'.agent = machine.agent /\ DOMAIN machine' = DOMAIN machine
        /\ machine'.locked = machine.locked
    BY <2>1
  <2>3. \A i \in DOMAIN wire' :
           Request(wire[i], machine.title, machine.display, machine.locked)'
    BY <2>1, <2>2 DEF Request, AllLiteral, LockBefore, RowInv
  <2> QED
    BY <2>1, <2>2, <2>3 DEF RowInv
<1>7. CASE Finish
  BY <1>7, RowStutter DEF Finish
<1>8. CASE Terminal \/ UNCHANGED vars
  BY <1>8, RowStutter DEF Terminal, vars
<1>9. CASE EarlyTick
  <2>1. PICK reply \in Replies : machine' = [machine EXCEPT !.locked = Probed(reply)]
    BY <1>9 DEF EarlyTick
  <2>2. UNCHANGED <<job, phase, cmd, cfg, wire>> /\ wire = <<>>
    BY <1>9 DEF EarlyTick, RowInv
  <2>3. /\ machine'.title = machine.title /\ machine'.display = machine.display
        /\ machine'.agent = machine.agent /\ DOMAIN machine' = DOMAIN machine
        /\ machine'.locked => IsKeylock(machine.agent)
    BY <2>1 DEF Probed, RowInv
  <2>4. DOMAIN wire' = {} /\ wire' = <<>>
    BY <2>2
  <2> QED
    BY <2>2, <2>3, <2>4 DEF RowInv
<1> QED
  BY <1>1, <1>2, <1>3, <1>4, <1>5, <1>6, <1>7, <1>8, <1>9 DEF Next

(* The settings in force are those of the file, and their texts are made   *)
(* of symbols too.                                                         *)
LoadedInv == phase \notin {"prompt", "called"} => cfg = Load(file) /\ file \in Files
SettingsSpelled(S) ==
    \A f \in Files : {Load(f).prefix, Load(f).running, Load(f).success, Load(f).failure,
                      Load(f).signal, Load(f).unknown} \subseteq Seq(S)

LEMMA LoadedInit == Init => LoadedInv
BY DEF Init, LoadedInv

LEMMA LoadedNext == TypeInv /\ LoadedInv /\ [Next]_vars => LoadedInv'
<1> SUFFICES ASSUME TypeInv, LoadedInv, [Next]_vars PROVE LoadedInv'
  OBVIOUS
<1>1. CASE Boot
  BY <1>1 DEF Boot, LoadedInv, TypeInv, TypeOK
<1>2. CASE Preexec
  BY <1>2 DEF Preexec, LoadedInv
<1>3. CASE UNCHANGED <<cfg, file>> /\ phase \notin {"prompt", "called"}
  BY <1>3 DEF LoadedInv
<1>4. CASE UNCHANGED <<cfg, file, phase>>
  BY <1>4 DEF LoadedInv
<1> QED
  BY <1>1, <1>2, <1>3, <1>4 DEF Next, EarlyTick, OnTick, CommandEnds, OnFinish, ReportWorking,
     Finish, Terminal, vars

(* What comes after the first of two texts is the second.                  *)
LEMMA AfterFirst ==
  ASSUME NEW S, NEW a \in Seq(S), NEW b \in Seq(S)
  PROVE  SubSeq(a \o b, Len(a) + 1, Len(a \o b)) = b
<1> DEFINE c == SubSeq(a \o b, Len(a) + 1, Len(a \o b))
<1>1. /\ a \o b \in Seq(S) /\ Len(a \o b) = Len(a) + Len(b)
      /\ Len(a) \in Nat /\ Len(b) \in Nat
      /\ \A i \in 1..Len(b) : (a \o b)[Len(a) + i] = b[i]
  OBVIOUS
<1>2. /\ c \in Seq(S) /\ Len(c) = Len(b)
      /\ \A i \in 1..Len(b) : c[i] = (a \o b)[Len(a) + i]
  BY <1>1
<1> HIDE DEF c
<1>3. c = b
  BY <1>1, <1>2
<1> QED
  BY <1>3 DEF c

(* The name a row is sent, without the lock: what a line of any length and *)
(* any symbols is cut to (RowNamed; command.rs:34-63, state.rs:5-6,        *)
(* 111-119).                                                               *)
THEOREM RowNamedHolds ==
  ASSUME NEW S, Symbols(S), LinesSpelled(S), SettingsSpelled(S)
  PROVE  Spec => []RowNamed
<1>1. Init => RowInv(S)
  BY RowInit
<1>2. RowInv(S) /\ TypeInv /\ LoadedInv => RowNamed
  <2> SUFFICES ASSUME RowInv(S), TypeInv, LoadedInv, NEW i \in DOMAIN wire,
                      wire[i].method = "report_metadata"
               PROVE  /\ NameFits(Unlocked(wire[i]), Joined(cmd), cfg.max_display_len)
                      /\ Len(wire[i].cmd) <= cfg.max_title_len
                      /\ wire[i].ttl <= MAX_TTL_MS
    BY SMT DEF RowNamed, MAX_TTL_MS
  <2> DEFINE max == cfg.max_display_len
  <2>1. phase \notin {"prompt", "called"}
    BY DEF RowInv
  <2>2. wire[i].cmd = machine.title /\ wire[i].ttl <= MAX_TTL_MS
    BY Zenon DEF RowInv, Request
  <2>3. Len(machine.title) <= cfg.max_title_len
    BY <2>1, TitleIsText
  <2>4. cmd \in Seq(Spelled(S)) /\ machine.display = DisplayName(cmd, max) /\ max \in Nat
    BY <2>1, Zenon DEF RowInv, Limits
  <2>5. max >= 8
    BY DEF TypeInv, TypeOK
  <2>6. Unlocked(wire[i]) = machine.display
    <3> DEFINE T == S \cup {FALLBACK}
               lock == LockOf(wire[i])
               display == machine.display
    <3>1. wire[i].display = lock \o display
      <4>1. LockOf(wire[i]) = LockBefore(wire[i].state, machine.locked)
        BY Zenon DEF LockOf, LockBefore
      <4> QED
        BY <4>1, Zenon DEF RowInv, Request
    <3>2. display \in Seq(T)
      BY <2>1, DisplayIsText
    <3>3. lock \in Seq(T)
      <4>1. cfg.prefix \in Seq(S)
        BY <2>1, Zenon DEF LoadedInv, SettingsSpelled
      <4>2. cfg.prefix \in Seq(T) /\ <<>> \in Seq(T)
        BY <4>1
      <4> QED
        BY <4>2, Zenon DEF LockOf
    <3>4. Unlocked(wire[i]) = SubSeq(wire[i].display, Len(lock) + 1, Len(wire[i].display))
      BY DEF Unlocked
    <3> HIDE DEF T, lock, display
    <3>5. Unlocked(wire[i]) = display
      BY <3>1, <3>2, <3>3, <3>4, AfterFirst, Zenon
    <3> QED
      BY <3>5 DEF display
  <2>7. NameFits(machine.display, Joined(cmd), max)
    <3>1. CASE cmd = <<>>
      <4>1. Joined(cmd) = <<>>
        BY <3>1 DEF Joined, FlattenSeq
      <4>2. machine.display = <<FALLBACK>>
        BY <2>4, <3>1 DEF DisplayName
      <4> QED
        BY <2>4, <2>5, <4>1, <4>2 DEF NameFits
    <3>2. CASE cmd # <<>>
      <4>1. Joined(cmd) \in Seq(S) /\ Joined(cmd) # <<>>
        BY <2>4, <3>2, JoinedIsText, Zenon DEF Symbols
      <4>2. machine.display = Truncate(Joined(cmd), max)
        BY <2>4, <3>2 DEF DisplayName
      <4>3. "ellipsis" \in S
        BY Zenon DEF Symbols
      <4> DEFINE line == Joined(cmd)
                 shown == Truncate(line, max)
      <4>4. max # 0
        BY <2>4, <2>5
      <4> HIDE DEF max, line
      <4>5. /\ Len(shown) <= max /\ shown # <<>>
            /\ shown # line => Len(shown) = max /\ shown[max] = "ellipsis"
        <5>1. line \in Seq(S) /\ line # <<>>
          BY <4>1 DEF line
        <5> QED
          BY <2>4, <4>3, <4>4, <5>1, TruncateFits, Zenon
      <4> QED
        BY <4>2, <4>5 DEF NameFits, line, max
    <3> QED
      BY <3>1, <3>2
  <2> QED
    BY <2>2, <2>3, <2>6, <2>7
<1>3. RowInv(S) /\ TypeInv /\ [Next]_vars => RowInv(S)'
  BY RowNext
<1> QED
  BY <1>1, <1>2, <1>3, LoadedInit, LoadedNext, WholeInit, TypeInit, TypeNext, TtyNext, PTL
  DEF Spec

-----------------------------------------------------------------------------
(* Keylock.  A line that agent_name finds keylock in runs keylock.         *)
KeylockNamed ==
    \A j \in Jobs : AgentName(NamedLine(j)) = "keylock" => j.program = "keylock"

KeylockInv == IsKeylock(machine.agent) => job.program = "keylock"

LEMMA KeylockNext ==
  KeylockNamed /\ KeylockInv /\ NameInv /\ TypeInv /\ [Next]_vars => KeylockInv'
<1> SUFFICES ASSUME KeylockNamed, KeylockInv, NameInv, TypeInv, [Next]_vars
             PROVE  KeylockInv'
  OBVIOUS
<1>1. CASE Boot
  <2>1. machine'.agent = IgnoreName /\ job' = job /\ phase = "called"
    BY <1>1 DEF Boot, NoMachine
  <2>2. job \in Jobs
    BY DEF TypeInv, TypeOK
  <2> QED
    BY <2>1, <2>2, Zenon DEF KeylockNamed, IsKeylock, KeylockInv, NameInv
<1>2. ASSUME job' = job, machine'.agent = machine.agent
      PROVE  KeylockInv'
  BY <1>2 DEF KeylockInv
<1>3. CASE EarlyTick
  <2>1. PICK reply \in Replies : machine' = [machine EXCEPT !.locked = Probed(reply)]
    BY <1>3, Zenon DEF EarlyTick
  <2>2. machine'.agent = machine.agent
    BY <2>1
  <2> QED
    BY <1>2, <1>3, <2>2 DEF EarlyTick
<1>6. CASE OnTick
  BY <1>2, <1>6 DEF OnTick
<1>4. CASE ReportWorking
  BY <1>2, <1>4 DEF ReportWorking
<1>5. CASE UNCHANGED <<job, machine>>
  BY <1>2, <1>5
<1> QED
  BY <1>1, <1>3, <1>4, <1>5, <1>6 DEF Next, Preexec, CommandEnds, OnFinish, Finish, Terminal,
     vars

(* The lock is in front of the title and the row's name of a running       *)
(* keylock session that is locked, and of nothing else (LockShown;         *)
(* state.rs:17-20, 102-119, 135-147).                                      *)
THEOREM LockShownHolds ==
  ASSUME NEW S, Symbols(S), LinesSpelled(S), KeylockNamed
  PROVE  Spec => []LockShown
<1>1. Init => RowInv(S) /\ KeylockInv
  <2>1. Init => ~IsKeylock(machine.agent)
    <3>1. NoMachine.agent = ""
      BY DEF NoMachine
    <3> QED
      BY <3>1, Zenon DEF Init, IsKeylock
  <2> QED
    BY <2>1, RowInit DEF KeylockInv
<1>2. RowInv(S) /\ KeylockInv => LockShown
  <2> SUFFICES ASSUME RowInv(S), KeylockInv, NEW i \in DOMAIN wire
               PROVE  /\ wire[i].method = "report_metadata" =>
                            /\ wire[i].title = LockOf(wire[i]) \o wire[i].cmd
                            /\ wire[i].display = LockOf(wire[i]) \o machine.display
                            /\ machine.locked => job.program = "keylock"
                      /\ wire[i].method = "report_agent" =>
                            wire[i].message \subseteq {machine.title}
    BY Zenon DEF LockShown
  <2>1. LockOf(wire[i]) = LockBefore(wire[i].state, machine.locked)
    BY Zenon DEF LockOf, LockBefore
  <2> QED
    BY <2>1, Zenon DEF RowInv, Request, KeylockInv
<1>3. RowInv(S) /\ TypeInv /\ [Next]_vars => RowInv(S)'
  BY RowNext
<1>4. Init => NameInv
  BY DEF Init, NameInv
<1> QED
  BY <1>1, <1>2, <1>3, <1>4, KeylockNext, NameNext, KeylockNamed, WholeInit, TypeInit, TypeNext,
     TtyNext, PTL DEF Spec

-----------------------------------------------------------------------------
(* The call.                                                               *)
(* What the parser reads from the i-th word on, `r` being the rest.        *)
FlagsAt(words, known, r, i) ==
    CASE i > Len(words) -> <<>>
      [] i <= Len(words) /\ words[i] \notin known -> << <<"refused", "">> >>
      [] i <= Len(words) /\ words[i] \in known \ WithValue ->
            << <<words[i], "">> >> \o r[i + 1]
      [] i = Len(words) /\ words[i] \in known \cap WithValue -> << <<"refused", "">> >>
      [] OTHER -> << <<words[i], words[i + 1]>> >> \o r[i + 2]

(* What the parser makes of the words of a call is read from the second    *)
(* on.                                                                     *)
LEMMA FlagsRead ==
  ASSUME NEW words, NEW known, Len(words) \in Nat
  PROVE  \E read : /\ ReadFlags(words, known) = read[2]
                   /\ \A i \in 1..(Len(words) + 2) : read[i] = FlagsAt(words, known, read, i)
<1> DEFINE n == Len(words) + 2
           Piece(r, i) == FlagsAt(words, known, r, i)
           Rest(r, first) == r = [i \in first..n |-> Piece(r, i)]
           read == CHOOSE r : Rest(r, 1)
<1>1. ReadFlags(words, known) = read[2]
  BY DEF ReadFlags, FlagsAt
<1>2. n \in Nat /\ n >= 2
  OBVIOUS
<1>3. ASSUME NEW r, NEW q, NEW i \in 1..n, \A j \in (i + 1)..n : r[j] = q[j]
      PROVE  Piece(r, i) = Piece(q, i)
  <2>1. CASE i > Len(words)
    <3>1. Piece(r, i) = <<>> /\ Piece(q, i) = <<>>
      BY <2>1 DEF FlagsAt
    <3> QED
      BY <3>1
  <2>2. CASE ~(i > Len(words))
    <3>1. i + 1 \in (i + 1)..n /\ i + 2 \in (i + 1)..n
      BY <2>2
    <3>2. r[i + 1] = q[i + 1] /\ r[i + 2] = q[i + 2]
      BY <1>3, <3>1
    <3> QED
      BY <3>2, Zenon DEF FlagsAt
  <2> QED
    BY <2>1, <2>2
<1> HIDE DEF n, Piece
<1>4. \E r : Rest(r, 1)
  <2> DEFINE Done == {m \in Nat : m <= n => \E r : Rest(r, n - m + 1)}
  <2>1. 0 \in Done
    <3>1. [i \in (n + 1)..n |-> Piece(<<>>, i)] = <<>>
      BY <1>2
    <3>2. (n - 0 + 1)..n = {}
      BY <1>2
    <3>3. Rest(<<>>, n - 0 + 1)
      BY <3>2
    <3> QED
      BY <3>3
  <2>2. ASSUME NEW m \in Nat, m \in Done PROVE m + 1 \in Done
    <3> SUFFICES ASSUME m + 1 <= n PROVE \E r : Rest(r, n - (m + 1) + 1)
      OBVIOUS
    <3> DEFINE f == n - m
    <3>1. f \in 1..n /\ n - (m + 1) + 1 = f /\ n - m + 1 = f + 1
      BY <1>2
    <3>2. PICK q : Rest(q, f + 1)
      <4>1. m <= n
        BY <1>2
      <4>2. \E q : Rest(q, n - m + 1)
        BY <2>2, <4>1
      <4> QED
        BY <3>1, <4>2
    <3> HIDE DEF f
    <3> DEFINE r == [i \in f..n |-> IF i = f THEN Piece(q, f) ELSE q[i]]
    <3>3. \A j \in (f + 1)..n : r[j] = q[j]
      BY <1>2, <3>1
    <3>4. ASSUME NEW i \in f..n PROVE r[i] = Piece(r, i)
      <4>1. i \in 1..n /\ \A j \in (i + 1)..n : r[j] = q[j]
        <5>1. \A j \in (i + 1)..n : j \in (f + 1)..n
          BY <1>2, <3>1
        <5> HIDE DEF r
        <5> QED
          BY <1>2, <3>1, <3>3, <5>1
      <4>2. Piece(r, i) = Piece(q, i)
        <5> HIDE DEF r
        <5> QED
          BY <1>3, <4>1
      <4>3. CASE i = f
        BY <4>2, <4>3, Zenon
      <4>4. CASE i # f
        <5>1. i \in (f + 1)..n
          BY <1>2, <3>1, <4>4
        <5>2. q[i] = Piece(q, i)
          BY <3>2, <5>1, Zenon
        <5> QED
          BY <3>3, <4>2, <5>1, <5>2, Zenon
      <4> QED
        BY <4>3, <4>4
    <3>5. r = [i \in f..n |-> r[i]]
      OBVIOUS
    <3> HIDE DEF r
    <3>6. Rest(r, f)
      <4>1. [i \in f..n |-> r[i]] = [i \in f..n |-> Piece(r, i)]
        BY <3>4
      <4> QED
        BY <3>5, <4>1, Zenon
    <3> QED
      BY <3>1, <3>6
  <2> HIDE DEF Done
  <2>3. n \in Done
    BY <1>2, <2>1, <2>2, SetInduction
  <2>4. n - n + 1 = 1 /\ n <= n
    BY <1>2
  <2> QED
    BY <2>3, <2>4 DEF Done
<1>5. Rest(read, 1)
  <2> HIDE DEF Rest
  <2> QED
    BY <1>4
<1> HIDE DEF read
<1>6. \A i \in 1..n : read[i] = Piece(read, i)
  BY <1>5, Zenon
<1> QED
  BY <1>1, <1>6 DEF n, Piece

(* A known flag with its value, a known switch, and the end of the words.  *)
LEMMA ReadValue ==
  ASSUME NEW words, NEW known, NEW r, NEW i, Len(words) \in Nat, i \in Nat, i < Len(words),
         words[i] \in known \cap WithValue
  PROVE  FlagsAt(words, known, r, i) = << <<words[i], words[i + 1]>> >> \o r[i + 2]
<1>1. /\ words[i] \in known /\ words[i] \in WithValue
      /\ ~(i > Len(words)) /\ i # Len(words)
  OBVIOUS
<1> QED
  BY <1>1, Zenon DEF FlagsAt

NoValue == ""

LEMMA ReadSwitch ==
  ASSUME NEW words, NEW known, NEW r, NEW i, Len(words) \in Nat, i \in Nat, i <= Len(words),
         words[i] \in known, words[i] \notin WithValue
  PROVE  FlagsAt(words, known, r, i) = << <<words[i], NoValue>> >> \o r[i + 1]
<1>1. words[i] \in known /\ ~(i > Len(words)) /\ words[i] \notin WithValue
  OBVIOUS
<1>2. i <= Len(words)
  OBVIOUS
<1> QED
  BY <1>1, <1>2, Zenon DEF FlagsAt, NoValue

LEMMA ReadEnd ==
  ASSUME NEW words, NEW known, NEW r, NEW i, Len(words) \in Nat, i \in Nat, i > Len(words)
  PROVE  FlagsAt(words, known, r, i) = <<>>
BY DEF FlagsAt

(* One more element in front, and short tuples.                            *)
LEMMA Consed ==
  ASSUME NEW T, NEW e \in T, NEW s \in Seq(T)
  PROVE  /\ <<e>> \o s \in Seq(T) /\ Len(<<e>> \o s) = Len(s) + 1
         /\ (<<e>> \o s)[1] = e
         /\ \A j \in 1..Len(s) : (<<e>> \o s)[j + 1] = s[j]
OBVIOUS

LEMMA SmallTuples ==
  /\ \A S : <<>> \in Seq(S)
  /\ \A S : \A e \in S : <<e>> \in Seq(S)
OBVIOUS

LEMMA Tuples ==
  ASSUME NEW S, NEW a \in S, NEW b \in S, NEW c \in S, NEW d \in S, NEW e \in S
  PROVE  <<>> \in Seq(S) /\ <<a>> \in Seq(S) /\ <<a, b>> \in Seq(S) /\ <<a, b, c, d, e>> \in Seq(S)
OBVIOUS

Laid(w, S, a, b, c, x, y) ==
    /\ w \in Seq(S)
    /\ Len(w) = Len(a) + Len(b) + Len(c) + Len(x) + Len(y)
    /\ \A i \in 1..Len(a) : w[i] = a[i]
    /\ \A i \in 1..Len(b) : w[Len(a) + i] = b[i]
    /\ \A i \in 1..Len(c) : w[Len(a) + Len(b) + i] = c[i]
    /\ \A i \in 1..Len(x) : w[Len(a) + Len(b) + Len(c) + i] = x[i]
    /\ \A i \in 1..Len(y) : w[Len(a) + Len(b) + Len(c) + Len(x) + i] = y[i]

(* Where the words of the five parts of a call are.                        *)
LEMMA CallWords ==
  ASSUME NEW S, NEW a \in Seq(S), NEW b \in Seq(S), NEW c \in Seq(S), NEW x \in Seq(S),
         NEW y \in Seq(S), NEW w, w = a \o b \o c \o x \o y
  PROVE  Laid(w, S, a, b, c, x, y)
<1>1. ASSUME NEW s \in Seq(S), NEW t \in Seq(S)
      PROVE  /\ s \o t \in Seq(S) /\ Len(s \o t) = Len(s) + Len(t)
             /\ \A i \in 1..Len(s) : (s \o t)[i] = s[i]
             /\ \A i \in 1..Len(t) : (s \o t)[Len(s) + i] = t[i]
  OBVIOUS
<1> DEFINE ab == a \o b
           abc == ab \o c
           abcx == abc \o x
<1>2. /\ ab \in Seq(S) /\ Len(ab) = Len(a) + Len(b)
      /\ \A i \in 1..Len(a) : ab[i] = a[i]
      /\ \A i \in 1..Len(b) : ab[Len(a) + i] = b[i]
  BY <1>1
<1> HIDE DEF ab
<1>3. /\ abc \in Seq(S) /\ Len(abc) = Len(ab) + Len(c)
      /\ \A i \in 1..Len(ab) : abc[i] = ab[i]
      /\ \A i \in 1..Len(c) : abc[Len(ab) + i] = c[i]
  BY <1>1, <1>2
<1> HIDE DEF abc
<1>4. /\ abcx \in Seq(S) /\ Len(abcx) = Len(abc) + Len(x)
      /\ \A i \in 1..Len(abc) : abcx[i] = abc[i]
      /\ \A i \in 1..Len(x) : abcx[Len(abc) + i] = x[i]
  BY <1>1, <1>3
<1> HIDE DEF abcx
<1>5. w = abcx \o y
  BY DEF abcx, abc, ab
<1>6. /\ w \in Seq(S) /\ Len(w) = Len(abcx) + Len(y)
      /\ \A i \in 1..Len(abcx) : w[i] = abcx[i]
      /\ \A i \in 1..Len(y) : w[Len(abcx) + i] = y[i]
  <2> DEFINE v == abcx \o y
  <2>1. /\ v \in Seq(S) /\ Len(v) = Len(abcx) + Len(y)
        /\ \A i \in 1..Len(abcx) : v[i] = abcx[i]
        /\ \A i \in 1..Len(y) : v[Len(abcx) + i] = y[i]
    BY <1>1, <1>4
  <2> QED
    BY <1>5, <2>1
<1>7. Len(a) \in Nat /\ Len(b) \in Nat /\ Len(c) \in Nat /\ Len(x) \in Nat /\ Len(y) \in Nat
  OBVIOUS
<1>8. \A i \in 1..Len(abc) : w[i] = abc[i]
  BY <1>3, <1>4, <1>6, <1>7
<1>9. \A i \in 1..Len(ab) : w[i] = ab[i]
  BY <1>2, <1>3, <1>7, <1>8
<1>10. /\ \A i \in 1..Len(a) : w[i] = a[i]
       /\ \A i \in 1..Len(b) : w[Len(a) + i] = b[i]
  BY <1>2, <1>7, <1>9
<1>11. \A i \in 1..Len(c) : w[Len(a) + Len(b) + i] = c[i]
  BY <1>2, <1>3, <1>7, <1>8
<1>12. \A i \in 1..Len(x) : w[Len(a) + Len(b) + Len(c) + i] = x[i]
  BY <1>2, <1>3, <1>4, <1>6, <1>7
<1>13. \A i \in 1..Len(y) : w[Len(a) + Len(b) + Len(c) + Len(x) + i] = y[i]
  BY <1>2, <1>3, <1>4, <1>6, <1>7
<1> QED
  BY <1>2, <1>3, <1>4, <1>6, <1>10, <1>11, <1>12, <1>13 DEF Laid

(* A flag that is given once has the value it is given.                    *)
LEMMA ValueOf ==
  ASSUME NEW flags, NEW i \in DOMAIN flags, DOMAIN flags \subseteq Nat, NEW flag,
         flags[i][1] = flag, \A j \in DOMAIN flags : flags[j][1] = flag => j = i
  PROVE  Has(flags, flag) /\ Value(flags, flag) = flags[i][2]
<1> DEFINE Latest(k) == /\ flags[k][1] = flag
                        /\ \A j \in DOMAIN flags : flags[j][1] = flag => j <= k
           last == CHOOSE k \in DOMAIN flags : Latest(k)
<1>1. Latest(i)
  OBVIOUS
<1>2. last \in DOMAIN flags /\ Latest(last)
  <2> HIDE DEF Latest
  <2> QED
    BY <1>1
<1>3. last = i
  BY <1>2
<1>4. Value(flags, flag) = flags[last][2]
  BY Zenon DEF Value
<1> HIDE DEF last
<1> QED
  BY <1>3, <1>4 DEF Has

(* The last words of a call are switches, C and O, that are there or not.  *)
Switches(opts, T, C, clear, O, osc) ==
    /\ opts \in Seq(T)
    /\ \A j \in 1..Len(opts) : opts[j][1] \in {C, O}
    /\ clear <=> \E j \in 1..Len(opts) : opts[j][1] = C
    /\ osc <=> \E j \in 1..Len(opts) : opts[j][1] = O

(* The words from n on are those of x and y, and what is read of a switch. *)
EndIn(words, n, x, y) ==
    /\ Len(words) = n + Len(x) + Len(y)
    /\ \A i \in 1..Len(x) : words[n + i] = x[i]
    /\ \A i \in 1..Len(y) : words[n + Len(x) + i] = y[i]
SwitchesAsRead(words, read, C, O, nothing) ==
    /\ \A i \in 1..Len(words) : words[i] \in {C, O} =>
          read[i] = << <<words[i], nothing>> >> \o read[i + 1]
    /\ read[Len(words) + 1] = <<>>

(* The switches at the end are read as they are there.                     *)
LEMMA SwitchesRead ==
  ASSUME NEW T, NEW C, NEW O, NEW nothing, C # O, <<C, nothing>> \in T, <<O, nothing>> \in T,
         NEW words, NEW read, NEW n \in Nat, NEW clear \in BOOLEAN, NEW osc \in BOOLEAN,
         EndIn(words, n, Words(clear, C), Words(osc, O)),
         SwitchesAsRead(words, read, C, O, nothing)
  PROVE  Switches(read[n + 1], T, C, clear, O, osc)
<1> DEFINE x == Words(clear, C)
           y == Words(osc, O)
<1>1. x = (IF clear THEN <<C>> ELSE <<>>) /\ y = (IF osc THEN <<O>> ELSE <<>>)
  BY Zenon DEF Words
<1> HIDE DEF x, y
<1>2. /\ Len(words) = n + Len(x) + Len(y)
      /\ \A i \in 1..Len(x) : words[n + i] = x[i]
      /\ \A i \in 1..Len(y) : words[n + Len(x) + i] = y[i]
      /\ \A i \in 1..Len(words) : words[i] \in {C, O} =>
            read[i] = << <<words[i], nothing>> >> \o read[i + 1]
      /\ read[Len(words) + 1] = <<>>
  BY Zenon DEF EndIn, SwitchesAsRead, x, y
<1>5. CASE clear /\ osc
  <2>1. Len(x) = 1 /\ Len(y) = 1 /\ Len(words) = n + 2
    BY <1>1, <1>2, <1>5
  <2>2. words[n + 1] = C /\ words[n + 2] = O
    <3>1. x[1] = C /\ y[1] = O /\ 1 \in 1..Len(x) /\ 1 \in 1..Len(y) /\ n + 1 + 1 = n + 2
      BY <1>1, <1>5, <2>1
    <3>2. words[n + 1] = x[1] /\ words[n + 1 + 1] = y[1]
      BY <1>2, <2>1, <3>1
    <3> QED
      BY <3>1, <3>2
  <2>3. read[n + 3] = <<>> /\ read[n + 2] = << <<O, nothing>> >> \o read[n + 3]
        /\ read[n + 1] = << <<C, nothing>> >> \o read[n + 2]
    <3>1. /\ n + 1 \in 1..Len(words) /\ n + 2 \in 1..Len(words) /\ Len(words) + 1 = n + 3
          /\ n + 1 + 1 = n + 2 /\ n + 2 + 1 = n + 3
      BY <2>1
    <3>2. /\ read[n + 1] = << <<words[n + 1], nothing>> >> \o read[n + 1 + 1]
          /\ read[n + 2] = << <<words[n + 2], nothing>> >> \o read[n + 2 + 1]
      BY <1>2, <2>2, <3>1
    <3> QED
      BY <1>2, <2>2, <3>1, <3>2, Zenon
  <2> DEFINE a == <<C, nothing>>
             b == <<O, nothing>>
  <2>4. a \in T /\ b \in T /\ a[1] = C /\ b[1] = O
    OBVIOUS
  <2> HIDE DEF a, b
  <2>5. <<b>> \o <<>> = <<b>> /\ <<a>> \o <<b>> = <<a, b>>
    <3>1. <<b>> \in Seq(T) /\ <<>> \in Seq(T) /\ <<a, b>> \in Seq(T)
      BY <2>4
    <3>2. <<b>> \o <<>> = <<b>>
      BY <3>1
    <3> DEFINE ab == <<a>> \o <<b>>
               both == <<a, b>>
    <3>3. ab \in Seq(T) /\ Len(ab) = 2 /\ ab[1] = a /\ ab[2] = b
      BY <2>4, <3>1
    <3>4. both \in Seq(T) /\ Len(both) = 2 /\ both[1] = a /\ both[2] = b
      BY <3>1
    <3> HIDE DEF ab, both
    <3>5. ab = both
      <4>1. \A k \in 1..2 : ab[k] = both[k]
        BY <3>3, <3>4
      <4> QED
        BY <3>3, <3>4, <4>1, SeqEqual
    <3> QED
      BY <3>2, <3>5 DEF ab, both
  <2>6. read[n + 1] = <<a, b>>
    BY <2>3, <2>5 DEF a, b
  <2>7. <<a, b>> \in Seq(T) /\ Len(<<a, b>>) = 2 /\ <<a, b>>[1] = a /\ <<a, b>>[2] = b
    BY <2>4
  <2> QED
    BY <1>5, <2>4, <2>6, <2>7 DEF Switches
<1>6. ASSUME NEW D \in {C, O}, clear <=> D = C, osc <=> D = O, Len(words) = n + 1,
             words[n + 1] = D
      PROVE  Switches(read[n + 1], T, C, clear, O, osc)
  <2> DEFINE a == <<D, nothing>>
  <2>1. a \in T /\ a[1] = D
    OBVIOUS
  <2>2. read[n + 2] = <<>> /\ read[n + 1] = <<a>> \o read[n + 2]
    BY <1>2, <1>6
  <2> HIDE DEF a
  <2>3. read[n + 1] = <<a>>
    BY <2>1, <2>2
  <2>4. <<a>> \in Seq(T) /\ Len(<<a>>) = 1 /\ <<a>>[1] = a
    BY <2>1
  <2> QED
    BY <1>6, <2>1, <2>3, <2>4 DEF Switches
<1>7. CASE clear /\ ~osc
  <2>1. Len(x) = 1 /\ Len(y) = 0 /\ Len(words) = n + 1
    BY <1>1, <1>2, <1>7
  <2>2. words[n + 1] = C
    BY <1>1, <1>2, <1>7, <2>1
  <2> QED
    BY <1>6, <1>7, <2>1, <2>2
<1>8. CASE ~clear /\ osc
  <2>1. Len(x) = 0 /\ Len(y) = 1 /\ Len(words) = n + 1
    BY <1>1, <1>2, <1>8
  <2>2. words[n + 1] = O
    BY <1>1, <1>2, <1>8, <2>1
  <2> QED
    BY <1>6, <1>8, <2>1, <2>2
<1>9. CASE ~clear /\ ~osc
  <2>1. Len(words) = n
    BY <1>1, <1>2, <1>9
  <2>2. read[n + 1] = <<>>
    BY <1>2, <2>1
  <2> QED
    BY <1>9, <2>2 DEF Switches
<1> QED
  BY <1>5, <1>7, <1>8, <1>9

FourThen(flags, T, a, b, c, d, opts) ==
    /\ flags \in Seq(T) /\ Len(flags) = Len(opts) + 4
    /\ flags[1] = a /\ flags[2] = b /\ flags[3] = c /\ flags[4] = d
    /\ \A j \in 1..Len(opts) : flags[j + 4] = opts[j]

(* Four flags and the switches, put together.                              *)
LEMMA FourPairs ==
  ASSUME NEW T, NEW a \in T, NEW b \in T, NEW c \in T, NEW d \in T, NEW opts \in Seq(T),
         NEW s3, s3 = <<d>> \o opts, NEW s2, s2 = <<c>> \o s3, NEW s1, s1 = <<b>> \o s2,
         NEW flags, flags = <<a>> \o s1
  PROVE  FourThen(flags, T, a, b, c, d, opts)
<1>1. /\ s3 \in Seq(T) /\ Len(s3) = Len(opts) + 1 /\ s3[1] = d
      /\ \A j \in 1..Len(opts) : s3[j + 1] = opts[j]
  BY Consed
<1>2. /\ s2 \in Seq(T) /\ Len(s2) = Len(s3) + 1 /\ s2[1] = c
      /\ \A j \in 1..Len(s3) : s2[j + 1] = s3[j]
  BY <1>1, Consed
<1>3. /\ s1 \in Seq(T) /\ Len(s1) = Len(s2) + 1 /\ s1[1] = b
      /\ \A j \in 1..Len(s2) : s1[j + 1] = s2[j]
  BY <1>2, Consed
<1>4. /\ flags \in Seq(T) /\ Len(flags) = Len(s1) + 1 /\ flags[1] = a
      /\ \A j \in 1..Len(s1) : flags[j + 1] = s1[j]
  BY <1>3, Consed
<1>5. Len(opts) \in Nat
  OBVIOUS
<1>6. flags[2] = b /\ flags[3] = c /\ flags[4] = d
  BY <1>1, <1>2, <1>3, <1>4, <1>5
<1>7. ASSUME NEW j \in 1..Len(opts) PROVE flags[j + 4] = opts[j]
  <2>1. /\ j + 1 \in 1..Len(s3) /\ (j + 1) + 1 \in 1..Len(s2) /\ ((j + 1) + 1) + 1 \in 1..Len(s1)
        /\ (((j + 1) + 1) + 1) + 1 = j + 4
    BY <1>1, <1>2, <1>3, <1>5
  <2> QED
    BY <1>1, <1>2, <1>3, <1>4, <2>1
<1> QED
  BY <1>1, <1>2, <1>3, <1>4, <1>5, <1>6, <1>7 DEF FourThen

WatchFlags == {"--pane", "--shell-pid", "--start-ms", "--start-now",
               "--state-dir", "--clear-first", "--osc"}

LEMMA FlagStrings ==
  /\ {"--pane", "--shell-pid", "--start-ms", "--state-dir"} \subseteq WatchFlags \cap WithValue
  /\ {"--start-now", "--clear-first", "--osc"} \subseteq WatchFlags \ WithValue
  /\ "refused" \notin WatchFlags
BY DEF WatchFlags, WithValue

StartPair(shell, hook) ==
    IF shell = "zsh" THEN <<"--start-ms", hook.start>> ELSE <<"--start-now", NoValue>>

(* What the parser has read of the call of `watch`.                        *)
WatchRead(flags, shell, hook) ==
    /\ Len(flags) \in Nat /\ Len(flags) >= 4 /\ DOMAIN flags = 1..Len(flags)
    /\ flags[1] = <<"--pane", hook.pane>> /\ flags[2] = <<"--shell-pid", "4242">>
    /\ flags[3] = StartPair(shell, hook) /\ flags[4] = <<"--state-dir", "dir">>
    /\ \A j \in 5..Len(flags) : flags[j][1] \in {"--clear-first", "--osc"}
    /\ hook.clear <=> \E j \in 5..Len(flags) : flags[j][1] = "--clear-first"
    /\ hook.osc <=> \E j \in 5..Len(flags) : flags[j][1] = "--osc"

(* No word of the call of `watch` is refused.                              *)
LEMMA WatchCallRead ==
  ASSUME NEW hook, hook.clear \in BOOLEAN, hook.osc \in BOOLEAN, NEW shell
  PROVE  WatchRead(ReadFlags(WatchCall(shell, hook), WatchFlags), shell, hook)
<1> DEFINE a == <<"watch", "--pane", hook.pane, "--shell-pid", "4242">>
           b == IF shell = "zsh" THEN <<"--start-ms", hook.start>> ELSE <<"--start-now">>
           c == <<"--state-dir", "dir">>
           x == IF hook.clear THEN <<"--clear-first">> ELSE <<>>
           y == IF hook.osc THEN <<"--osc">> ELSE <<>>
           w == WatchCall(shell, hook)
           k == Len(b)
           n == 7 + k
           AnyWord == {"watch", "--pane", hook.pane, "--shell-pid", "4242",
                       "--start-ms", hook.start, "--start-now", "--state-dir", "dir",
                       "--clear-first", "--osc"}
<1>1. w = a \o b \o c \o x \o y
  BY Zenon DEF WatchCall, Words
<1>2. hook.clear \in BOOLEAN /\ hook.osc \in BOOLEAN
  OBVIOUS
<1>3. /\ a \in Seq(AnyWord) /\ b \in Seq(AnyWord) /\ c \in Seq(AnyWord)
      /\ x \in Seq(AnyWord) /\ y \in Seq(AnyWord)
  <2>1. /\ "watch" \in AnyWord /\ "--pane" \in AnyWord /\ hook.pane \in AnyWord
        /\ "--shell-pid" \in AnyWord /\ "4242" \in AnyWord /\ "--start-ms" \in AnyWord
        /\ hook.start \in AnyWord
        /\ "--start-now" \in AnyWord /\ "--state-dir" \in AnyWord /\ "dir" \in AnyWord
        /\ "--clear-first" \in AnyWord /\ "--osc" \in AnyWord
    OBVIOUS
  <2> HIDE DEF AnyWord
  <2>2. a \in Seq(AnyWord) /\ c \in Seq(AnyWord)
    BY <2>1, Tuples, Zenon
  <2>3. <<"--start-ms", hook.start>> \in Seq(AnyWord)
    BY <2>1, Tuples, Zenon
  <2>4. /\ <<"--start-now">> \in Seq(AnyWord) /\ <<"--clear-first">> \in Seq(AnyWord)
        /\ <<"--osc">> \in Seq(AnyWord) /\ <<>> \in Seq(AnyWord)
    BY <2>1, SmallTuples, Zenon
  <2>5. b \in Seq(AnyWord)
    BY <2>3, <2>4, Zenon
  <2>6. x \in Seq(AnyWord) /\ y \in Seq(AnyWord)
    BY <2>4, Zenon
  <2> QED
    BY <2>2, <2>5, <2>6, Zenon
<1>4. /\ Len(a) = 5 /\ a[2] = "--pane" /\ a[3] = hook.pane
      /\ a[4] = "--shell-pid" /\ a[5] = "4242"
      /\ Len(c) = 2 /\ c[1] = "--state-dir" /\ c[2] = "dir"
  OBVIOUS
<1>5. /\ shell = "zsh" => k = 2 /\ b[1] = "--start-ms" /\ b[2] = hook.start
      /\ shell # "zsh" => k = 1 /\ b[1] = "--start-now"
  OBVIOUS
<1>6. /\ Len(x) \in Nat /\ Len(y) \in Nat /\ k \in {1, 2}
  OBVIOUS
<1> HIDE DEF a, b, c, w, AnyWord
<1>7. /\ w \in Seq(AnyWord) /\ Len(w) = n + Len(x) + Len(y)
      /\ \A i \in 1..5 : w[i] = a[i]
      /\ \A i \in 1..k : w[5 + i] = b[i]
      /\ \A i \in 1..2 : w[5 + k + i] = c[i]
      /\ \A i \in 1..Len(x) : w[n + i] = x[i]
      /\ \A i \in 1..Len(y) : w[n + Len(x) + i] = y[i]
  <2> HIDE DEF x, y
  <2>1. /\ w \in Seq(AnyWord)
        /\ Len(w) = Len(a) + Len(b) + Len(c) + Len(x) + Len(y)
        /\ \A i \in 1..Len(a) : w[i] = a[i]
        /\ \A i \in 1..Len(b) : w[Len(a) + i] = b[i]
        /\ \A i \in 1..Len(c) : w[Len(a) + Len(b) + i] = c[i]
        /\ \A i \in 1..Len(x) : w[Len(a) + Len(b) + Len(c) + i] = x[i]
        /\ \A i \in 1..Len(y) : w[Len(a) + Len(b) + Len(c) + Len(x) + i] = y[i]
    <3> HIDE DEF k, n
    <3>1. Laid(w, AnyWord, a, b, c, x, y)
      BY <1>1, <1>3, CallWords, Zenon
    <3> QED
      BY <3>1 DEF Laid
  <2>2. Len(a) + Len(b) + Len(c) = n /\ Len(a) + Len(b) = 5 + k
    BY <1>4, <1>6
  <2> QED
    BY <1>4, <2>1, <2>2
<1>8. /\ w[2] = "--pane" /\ w[3] = hook.pane /\ w[4] = "--shell-pid" /\ w[5] = "4242"
      /\ w[6] = StartPair(shell, hook)[1]
      /\ shell = "zsh" => w[7] = hook.start
      /\ w[6 + k] = "--state-dir" /\ w[7 + k] = "dir"
  BY <1>4, <1>5, <1>6, <1>7 DEF StartPair
<1>9. PICK read : /\ ReadFlags(w, WatchFlags) = read[2]
                  /\ \A i \in 1..(Len(w) + 2) : read[i] = FlagsAt(w, WatchFlags, read, i)
  BY <1>7, FlagsRead
<1> DEFINE P == <<"--pane", hook.pane>>
           H == <<"--shell-pid", "4242">>
           S == StartPair(shell, hook)
           D == <<"--state-dir", "dir">>
           opts == read[8 + k]
<1>10. /\ read[2] = <<P>> \o read[4] /\ read[4] = <<H>> \o read[6]
       /\ read[6 + k] = <<D>> \o opts
  <2>1. Len(w) \in Nat /\ Len(w) >= 7 + k
    BY <1>6, <1>7
  <2>2. \A i \in 1..6 + k : w[i] \in WatchFlags \cap WithValue =>
            read[i] = << <<w[i], w[i + 1]>> >> \o read[i + 2]
    <3> SUFFICES ASSUME NEW i \in 1..6 + k, w[i] \in WatchFlags \cap WithValue
                 PROVE  read[i] = << <<w[i], w[i + 1]>> >> \o read[i + 2]
      OBVIOUS
    <3>1. i \in 1..(Len(w) + 2) /\ i \in Nat /\ i < Len(w)
      BY <1>6, <2>1
    <3>2. FlagsAt(w, WatchFlags, read, i) = << <<w[i], w[i + 1]>> >> \o read[i + 2]
      BY <2>1, <3>1, ReadValue, Zenon
    <3> QED
      BY <1>9, <3>1, <3>2, Zenon
  <2>3. 2 \in 1..6 + k /\ 4 \in 1..6 + k /\ 6 + k \in 1..6 + k
    BY <1>6
  <2>4. /\ "--pane" \in WatchFlags \cap WithValue /\ "--shell-pid" \in WatchFlags \cap WithValue
        /\ "--state-dir" \in WatchFlags \cap WithValue
    BY FlagStrings, Zenon
  <2>5. read[2] = << <<w[2], w[2 + 1]>> >> \o read[2 + 2]
    BY <1>8, <2>2, <2>3, <2>4, Zenon
  <2>6. read[4] = << <<w[4], w[4 + 1]>> >> \o read[4 + 2]
    BY <1>8, <2>2, <2>3, <2>4, Zenon
  <2>7. read[6 + k] = << <<w[6 + k], w[6 + k + 1]>> >> \o read[6 + k + 2]
    BY <1>8, <2>2, <2>3, <2>4, Zenon
  <2>8. 2 + 1 = 3 /\ 2 + 2 = 4 /\ 4 + 1 = 5 /\ 4 + 2 = 6 /\ 6 + k + 1 = 7 + k /\ 6 + k + 2 = 8 + k
    BY <1>6
  <2> HIDE DEF k, opts
  <2> QED
    BY <1>8, <2>5, <2>6, <2>7, <2>8, Zenon DEF opts
<1>11. read[6] = <<S>> \o read[6 + k]
  <2>1. Len(w) \in Nat /\ Len(w) >= 7 + k /\ 6 \in 1..(Len(w) + 2) /\ 6 \in Nat
        /\ 6 <= Len(w) /\ 6 < Len(w)
    BY <1>6, <1>7
  <2>2. read[6] = FlagsAt(w, WatchFlags, read, 6)
    BY <1>9, <2>1
  <2>3. CASE shell = "zsh"
    <3>1. S = <<"--start-ms", hook.start>> /\ w[6] = "--start-ms" /\ w[7] = hook.start
      <4>1. S = <<"--start-ms", hook.start>>
        BY <2>3, Zenon DEF StartPair
      <4>2. <<"--start-ms", hook.start>>[1] = "--start-ms"
        OBVIOUS
      <4> QED
        BY <1>8, <2>3, <4>1, <4>2, Zenon
    <3>2. w[6] \in WatchFlags \cap WithValue
      BY <3>1, FlagStrings, Zenon
    <3>3. read[6] = << <<w[6], w[6 + 1]>> >> \o read[6 + 2]
      BY <2>1, <2>2, <3>2, ReadValue, SMT
    <3>4. k = 2 /\ 6 + 1 = 7 /\ 6 + 2 = 8
      BY <1>5, <2>3
    <3> HIDE DEF k
    <3> QED
      BY <3>1, <3>3, <3>4, Zenon
  <2>4. CASE shell # "zsh"
    <3>1. S = <<"--start-now", NoValue>> /\ w[6] = "--start-now"
      <4>1. S = <<"--start-now", NoValue>>
        BY <2>4, Zenon DEF StartPair
      <4>2. \A v : <<"--start-now", v>>[1] = "--start-now"
        OBVIOUS
      <4> QED
        BY <1>8, <2>4, <4>1, <4>2, Zenon
    <3>2. w[6] \in WatchFlags /\ w[6] \notin WithValue
      BY <3>1, FlagStrings, Zenon
    <3>3. read[6] = << <<w[6], NoValue>> >> \o read[6 + 1]
      BY <2>1, <2>2, <3>2, ReadSwitch, SMT
    <3>4. k = 1
      BY <1>5, <2>4
    <3> HIDE DEF k
    <3> QED
      BY <3>1, <3>3, <3>4, Zenon
  <2> QED
    BY <2>3, <2>4
<1> DEFINE C == "--clear-first"
           O == "--osc"
           T == {P, H, S, D, <<C, NoValue>>, <<O, NoValue>>}
<1>12. Switches(opts, T, C, hook.clear, O, hook.osc)
  <2>1. C # O /\ <<C, NoValue>> \in T /\ <<O, NoValue>> \in T
    OBVIOUS
  <2>2. {C, O} \subseteq WatchFlags \ WithValue
    BY FlagStrings, Zenon
  <2>3. /\ x = (IF hook.clear THEN <<C>> ELSE <<>>)
        /\ y = (IF hook.osc THEN <<O>> ELSE <<>>)
    BY Zenon
  <2>4. Len(w) \in Nat /\ Len(w) + 1 \in 1..(Len(w) + 2) /\ Len(w) + 1 \in Nat
        /\ Len(w) + 1 > Len(w) /\ n \in Nat /\ n + 1 = 8 + k
    BY <1>6, <1>7
  <2> HIDE DEF T, C, O, x, y
  <2>5. ASSUME NEW i \in 1..Len(w), w[i] \in {C, O}
        PROVE  read[i] = << <<w[i], NoValue>> >> \o read[i + 1]
    <3>1. i \in Nat /\ i <= Len(w) /\ i \in 1..(Len(w) + 2)
      BY <2>4
    <3>2. w[i] \in WatchFlags /\ w[i] \notin WithValue
      BY <2>2, <2>5, Zenon
    <3>3. FlagsAt(w, WatchFlags, read, i) = << <<w[i], NoValue>> >> \o read[i + 1]
      BY <2>4, <3>1, <3>2, ReadSwitch, SMT
    <3> QED
      BY <1>9, <3>1, <3>3, Zenon
  <2>6. read[Len(w) + 1] = <<>>
    <3>1. FlagsAt(w, WatchFlags, read, Len(w) + 1) = <<>>
      BY <2>4, ReadEnd
    <3> QED
      BY <1>9, <2>4, <3>1, Zenon
  <2> HIDE DEF n, k
  <2>7. EndIn(w, n, Words(hook.clear, C), Words(hook.osc, O))
    <3>1. x = Words(hook.clear, C) /\ y = Words(hook.osc, O)
      BY <2>3, Zenon DEF Words
    <3> QED
      BY <1>7, <3>1, Zenon DEF EndIn
  <2>8. SwitchesAsRead(w, read, C, O, NoValue)
    BY <2>5, <2>6, Zenon DEF SwitchesAsRead
  <2>9. Switches(read[n + 1], T, C, hook.clear, O, hook.osc)
    BY <1>2, <2>1, <2>4, <2>7, <2>8, SwitchesRead, Zenon
  <2> QED
    BY <2>4, <2>9, Zenon
<1>13. /\ Switches(opts, T, C, hook.clear, O, hook.osc)
       /\ opts \in Seq(T) /\ P \in T /\ H \in T /\ S \in T /\ D \in T
  <2>1. P \in T /\ H \in T /\ S \in T /\ D \in T
    <3> HIDE DEF P, H, S, D, C, O
    <3> QED
      OBVIOUS
  <2> HIDE DEF T, C, O
  <2> QED
    BY <1>12, <2>1, Zenon DEF Switches
<1> DEFINE flags == read[2]
<1>14. /\ P[1] = "--pane" /\ H[1] = "--shell-pid" /\ D[1] = "--state-dir"
  OBVIOUS
<1> HIDE DEF P, H, S, D, C, O, T, opts, flags
<1>15. /\ flags \in Seq(T) /\ Len(flags) = Len(opts) + 4
       /\ flags[1] = P /\ flags[2] = H /\ flags[3] = S /\ flags[4] = D
       /\ \A j \in 1..Len(opts) : flags[j + 4] = opts[j]
  <2>1. flags = <<P>> \o read[4]
    BY <1>10, Zenon DEF flags
  <2>2. FourThen(flags, T, P, H, S, D, opts)
    BY <1>10, <1>11, <1>13, <2>1, FourPairs, Zenon
  <2> QED
    BY <2>2 DEF FourThen
<1>16. Len(opts) \in Nat
  BY <1>13
<1>17. \A j \in 5..Len(flags) : j - 4 \in 1..Len(opts) /\ flags[j] = opts[j - 4]
  BY <1>15, <1>16
<1>18. \A j \in 1..Len(opts) : j + 4 \in 5..Len(flags) /\ flags[j + 4] = opts[j]
  BY <1>15, <1>16
<1>19. /\ \A j \in 1..Len(opts) : opts[j][1] \in {C, O}
       /\ hook.clear <=> \E j \in 1..Len(opts) : opts[j][1] = C
       /\ hook.osc <=> \E j \in 1..Len(opts) : opts[j][1] = O
  BY <1>13, Zenon DEF Switches
<1>20. /\ \A j \in 5..Len(flags) : flags[j][1] \in {C, O}
       /\ hook.clear <=> \E j \in 5..Len(flags) : flags[j][1] = C
       /\ hook.osc <=> \E j \in 5..Len(flags) : flags[j][1] = O
  <2>1. \A j \in 5..Len(flags) : flags[j][1] \in {C, O}
    BY <1>17, <1>19, Zenon
  <2>2. \A V : (\E j \in 5..Len(flags) : flags[j][1] = V)
                  <=> (\E j \in 1..Len(opts) : opts[j][1] = V)
    BY <1>17, <1>18, Zenon
  <2> QED
    BY <1>19, <2>1, <2>2, Zenon
<1>21. Len(flags) \in Nat /\ Len(flags) >= 4 /\ DOMAIN flags = 1..Len(flags)
  BY <1>15, <1>16
<1>22. ReadFlags(WatchCall(shell, hook), WatchFlags) = flags
  BY <1>9, Zenon DEF flags, w
<1>23. WatchRead(flags, shell, hook)
  BY <1>15, <1>20, <1>21, Zenon DEF WatchRead, P, H, S, D, C, O
<1> QED
  BY <1>22, <1>23, Zenon

(* The binary reads from the call of `watch` what the hook put in it.      *)
LEMMA WatchParsed ==
  ASSUME NEW hook, hook.clear \in BOOLEAN, hook.osc \in BOOLEAN, NEW shell,
         Number(hook.start) # NaN
  PROVE  Parse(WatchCall(shell, hook)) =
           [call |-> "watch", pane |-> hook.pane,
            start |-> IF shell = "zsh" THEN Number(hook.start) ELSE NaN,
            clear_first |-> hook.clear, osc |-> hook.osc]
<1> DEFINE flags == ReadFlags(WatchCall(shell, hook), WatchFlags)
           started == Has(flags, "--start-ms") /\ Number(Value(flags, "--start-ms")) # NaN
<1>1. WatchRead(flags, shell, hook)
  BY WatchCallRead, SMT
<1> HIDE DEF flags
<1>2. /\ Len(flags) \in Nat /\ Len(flags) >= 4 /\ DOMAIN flags = 1..Len(flags)
      /\ flags[1] = <<"--pane", hook.pane>> /\ flags[2] = <<"--shell-pid", "4242">>
      /\ flags[3] = StartPair(shell, hook) /\ flags[4] = <<"--state-dir", "dir">>
  BY <1>1, Zenon DEF WatchRead
<1>3. /\ \A j \in 5..Len(flags) : flags[j][1] \in {"--clear-first", "--osc"}
      /\ hook.clear <=> \E j \in 5..Len(flags) : flags[j][1] = "--clear-first"
      /\ hook.osc <=> \E j \in 5..Len(flags) : flags[j][1] = "--osc"
  BY <1>1, Zenon DEF WatchRead
<1>4. /\ flags[1][1] = "--pane" /\ flags[1][2] = hook.pane
      /\ flags[2][1] = "--shell-pid" /\ flags[2][2] = "4242"
      /\ flags[4][1] = "--state-dir"
  BY <1>2
<1>5. /\ shell = "zsh" => flags[3][1] = "--start-ms" /\ flags[3][2] = hook.start
      /\ shell # "zsh" => flags[3][1] = "--start-now"
  BY <1>2 DEF StartPair
<1>6. flags[3][1] \in {"--start-ms", "--start-now"}
  BY <1>5
<1>7. /\ 1 \in DOMAIN flags /\ 2 \in DOMAIN flags /\ 3 \in DOMAIN flags /\ 4 \in DOMAIN flags
      /\ DOMAIN flags \subseteq Nat
      /\ \A j \in DOMAIN flags : j \in {1, 2, 3, 4} \/ j \in 5..Len(flags)
      /\ 5..Len(flags) \subseteq DOMAIN flags
  BY <1>2
<1>8. \A j \in DOMAIN flags : /\ flags[j][1] = "--pane" => j = 1
                              /\ flags[j][1] = "--shell-pid" => j = 2
                              /\ flags[j][1] \in {"--start-ms", "--start-now"} => j = 3
                              /\ flags[j][1] = "--state-dir" => j = 4
                              /\ flags[j][1] \in {"--clear-first", "--osc"} => j \in 5..Len(flags)
                              /\ flags[j][1] # "refused"
  <2> SUFFICES ASSUME NEW j \in DOMAIN flags
               PROVE  /\ flags[j][1] = "--pane" => j = 1
                      /\ flags[j][1] = "--shell-pid" => j = 2
                      /\ flags[j][1] \in {"--start-ms", "--start-now"} => j = 3
                      /\ flags[j][1] = "--state-dir" => j = 4
                      /\ flags[j][1] \in {"--clear-first", "--osc"} => j \in 5..Len(flags)
                      /\ flags[j][1] # "refused"
    OBVIOUS
  <2>1. CASE j = 1
    BY <1>4, <2>1
  <2>2. CASE j = 2
    BY <1>4, <2>2
  <2>3. CASE j = 3
    BY <1>6, <2>3
  <2>4. CASE j = 4
    BY <1>4, <2>4
  <2>5. CASE j \in 5..Len(flags)
    BY <1>3, <2>5
  <2> QED
    BY <1>7, <2>1, <2>2, <2>3, <2>4, <2>5
<1>9. Has(flags, "--pane") /\ Value(flags, "--pane") = hook.pane
  <2>1. Has(flags, "--pane") /\ Value(flags, "--pane") = flags[1][2]
    BY <1>4, <1>7, <1>8, ValueOf
  <2> QED
    BY <1>4, <2>1, Zenon
<1>10. Has(flags, "--shell-pid") /\ Number(Value(flags, "--shell-pid")) # NaN
  <2>1. Has(flags, "--shell-pid") /\ Value(flags, "--shell-pid") = flags[2][2]
    BY <1>4, <1>7, <1>8, ValueOf
  <2>2. Number("4242") # NaN
    BY InvocationAssumption DEF NaN
  <2> QED
    BY <1>4, <2>1, <2>2, Zenon
<1>11. Has(flags, "--state-dir")
  BY <1>4, <1>7 DEF Has
<1>12. /\ Has(flags, "--clear-first") <=> hook.clear
       /\ Has(flags, "--osc") <=> hook.osc
       /\ ~Has(flags, "refused")
  <2>1. Has(flags, "--clear-first") <=> \E j \in 5..Len(flags) : flags[j][1] = "--clear-first"
    BY <1>7, <1>8 DEF Has
  <2>2. Has(flags, "--osc") <=> \E j \in 5..Len(flags) : flags[j][1] = "--osc"
    BY <1>7, <1>8 DEF Has
  <2>3. ~Has(flags, "refused")
    BY <1>8 DEF Has
  <2> QED
    BY <1>3, <2>1, <2>2, <2>3, Zenon
<1>13. /\ shell = "zsh" => /\ started /\ ~Has(flags, "--start-now")
                           /\ Value(flags, "--start-ms") = hook.start
       /\ shell # "zsh" => ~started /\ Has(flags, "--start-now")
  <2>1. CASE shell = "zsh"
    <3>1. Has(flags, "--start-ms") /\ Value(flags, "--start-ms") = flags[3][2]
      BY <1>5, <1>7, <1>8, <2>1, ValueOf
    <3>2. ~Has(flags, "--start-now")
      BY <1>5, <1>8, <2>1 DEF Has
    <3> QED
      BY <1>5, <2>1, <3>1, <3>2, Zenon
  <2>2. CASE shell # "zsh"
    <3>1. ~Has(flags, "--start-ms")
      BY <1>5, <1>8, <2>2 DEF Has
    <3>2. Has(flags, "--start-now")
      BY <1>5, <1>7, <2>2 DEF Has
    <3> QED
      BY <2>2, <3>1, <3>2, Zenon
  <2> QED
    BY <2>1, <2>2
<1>14. ~(\/ Has(flags, "refused")
         \/ started = Has(flags, "--start-now")
         \/ \E flag \in {"--pane", "--shell-pid", "--state-dir"} : ~Has(flags, flag)
         \/ Number(Value(flags, "--shell-pid")) = NaN)
  <2>1. \A flag \in {"--pane", "--shell-pid", "--state-dir"} : Has(flags, flag)
    BY <1>9, <1>10, <1>11
  <2>2. ~(started = Has(flags, "--start-now"))
    BY <1>13 DEF Has
  <2> QED
    BY <1>10, <1>12, <2>1, <2>2, Zenon
<1>15. Parse(WatchCall(shell, hook)) =
         [call |-> "watch", pane |-> Value(flags, "--pane"),
          start |-> IF started THEN Number(Value(flags, "--start-ms")) ELSE NaN,
          clear_first |-> Has(flags, "--clear-first"), osc |-> Has(flags, "--osc")]
  BY <1>14, Zenon DEF Parse, flags, WatchFlags
<1>16. Has(flags, "--clear-first") = hook.clear /\ Has(flags, "--osc") = hook.osc
  BY <1>12 DEF Has
<1>17. (IF started THEN Number(Value(flags, "--start-ms")) ELSE NaN)
         = (IF shell = "zsh" THEN Number(hook.start) ELSE NaN)
  BY <1>13, Zenon
<1> QED
  BY <1>9, <1>15, <1>16, <1>17, Zenon

FinishFlags == {"--state-dir", "--exit"}

LEMMA FinishStrings ==
  /\ {"--state-dir", "--exit"} \subseteq FinishFlags \cap WithValue
  /\ "refused" \notin FinishFlags
BY DEF FinishFlags, WithValue

LEMMA PairPlus ==
  ASSUME NEW p, NEW q
  PROVE  /\ <<p>> \o (<<q>> \o <<>>) = <<p, q>>
         /\ Len(<<p, q>>) = 2 /\ <<p, q>>[1] = p /\ <<p, q>>[2] = q
         /\ DOMAIN <<p, q>> = 1..2
<1> DEFINE T == {p, q}
           e == <<q>> \o <<>>
           l == <<p>> \o e
           r == <<p, q>>
<1>1. p \in T /\ q \in T /\ <<>> \in Seq(T)
  OBVIOUS
<1> HIDE DEF T
<1>2. /\ r \in Seq(T) /\ Len(r) = 2 /\ r[1] = p /\ r[2] = q /\ DOMAIN r = 1..2
  BY <1>1
<1>3. e \in Seq(T) /\ Len(e) = 1 /\ e[1] = q
  BY <1>1
<1> HIDE DEF e
<1>4. l \in Seq(T) /\ Len(l) = 2 /\ l[1] = p /\ l[2] = q
  <2>1. /\ l \in Seq(T) /\ Len(l) = Len(e) + 1 /\ l[1] = p
        /\ \A j \in 1..Len(e) : l[j + 1] = e[j]
    <3>1. \A x \in T : \A z \in Seq(T) :
            /\ <<x>> \o z \in Seq(T) /\ Len(<<x>> \o z) = Len(z) + 1
            /\ (<<x>> \o z)[1] = x
            /\ \A j \in 1..Len(z) : (<<x>> \o z)[j + 1] = z[j]
      BY Consed
    <3> QED
      BY <1>1, <1>3, <3>1
  <2> HIDE DEF l
  <2> QED
    BY <1>3, <2>1
<1> HIDE DEF l, r
<1>5. l = r
  <2>1. \A k \in 1..2 : l[k] = r[k]
    BY <1>2, <1>4
  <2> QED
    BY <1>2, <1>4, <2>1, SeqEqual
<1> QED
  BY <1>2, <1>5 DEF l, r, e

(* The binary reads from the call of `finish` the exit status.             *)
LEMMA FinishParsed ==
  ASSUME NEW s
  PROVE  ParseFinish(FinishCall(s)) = [call |-> "finish", exit |-> Number(s)]
<1> DEFINE w == FinishCall(s)
           flags == ReadFlags(w, FinishFlags)
           D == <<"--state-dir", "dir">>
           E == <<"--exit", s>>
<1>1. /\ Len(w) = 5 /\ w[2] = "--state-dir" /\ w[3] = "dir"
      /\ w[4] = "--exit" /\ w[5] = s
  BY DEF FinishCall
<1> HIDE DEF w
<1>2. PICK read : /\ flags = read[2]
                  /\ \A i \in 1..(Len(w) + 2) : read[i] = FlagsAt(w, FinishFlags, read, i)
  <2>1. Len(w) \in Nat
    BY <1>1
  <2> QED
    BY <2>1, FlagsRead, Zenon
<1>3. /\ read[2] = FlagsAt(w, FinishFlags, read, 2) /\ read[4] = FlagsAt(w, FinishFlags, read, 4)
      /\ read[6] = FlagsAt(w, FinishFlags, read, 6)
  BY <1>1, <1>2
<1> HIDE DEF flags
<1>4. w[2] \in FinishFlags \cap WithValue /\ w[4] \in FinishFlags \cap WithValue
  BY <1>1, FinishStrings, Zenon
<1>5. read[6] = <<>>
  <2>1. Len(w) \in Nat /\ 6 \in Nat /\ 6 > Len(w)
    BY <1>1
  <2> QED
    BY <1>3, <2>1, ReadEnd, SMT
<1>6. read[2] = << <<w[2], w[2 + 1]>> >> \o read[2 + 2]
  BY <1>1, <1>3, <1>4, ReadValue, SMT
<1>7. read[4] = << <<w[4], w[4 + 1]>> >> \o read[4 + 2]
  BY <1>1, <1>3, <1>4, ReadValue, SMT
<1>8. flags = <<D>> \o (<<E>> \o <<>>)
  <2>1. 2 + 1 = 3 /\ 2 + 2 = 4 /\ 4 + 1 = 5 /\ 4 + 2 = 6
    OBVIOUS
  <2> QED
    BY <1>1, <1>2, <1>5, <1>6, <1>7, <2>1, Zenon
<1>9. D[1] = "--state-dir" /\ E[1] = "--exit" /\ E[2] = s
  OBVIOUS
<1> HIDE DEF D, E
<1>10. DOMAIN flags = 1..2 /\ flags[1] = D /\ flags[2] = E
  <2>1. flags = <<D, E>>
    BY <1>8, PairPlus, Zenon
  <2> QED
    BY <2>1
<1>11. \A j \in DOMAIN flags : /\ flags[j][1] = "--state-dir" => j = 1
                               /\ flags[j][1] = "--exit" => j = 2
                               /\ flags[j][1] # "refused"
  <2>1. \A j \in DOMAIN flags : j = 1 \/ j = 2
    BY <1>10
  <2> QED
    BY <1>9, <1>10, <2>1
<1>12. Has(flags, "--state-dir") /\ ~Has(flags, "refused")
  <2>1. 1 \in DOMAIN flags /\ flags[1][1] = "--state-dir"
    BY <1>9, <1>10
  <2> QED
    BY <1>11, <2>1, Zenon DEF Has
<1>13. Has(flags, "--exit") /\ Value(flags, "--exit") = s
  <2>1. 2 \in DOMAIN flags /\ DOMAIN flags \subseteq Nat /\ flags[2][1] = "--exit"
        /\ flags[2][2] = s
    BY <1>9, <1>10
  <2>2. \A j \in DOMAIN flags : flags[j][1] = "--exit" => j = 2
    BY <1>11, Zenon
  <2> QED
    BY <2>1, <2>2, ValueOf
<1> QED
  BY <1>12, <1>13, Zenon DEF ParseFinish, flags, w, FinishFlags

LEMMA Invoked ==
  ASSUME NEW hook, NEW shell, NEW s
  PROVE  /\ Invoke(WatchCall(shell, hook)) = Parse(WatchCall(shell, hook))
         /\ Invoke(FinishCall(s)) = ParseFinish(FinishCall(s))
<1>1. ASSUME NEW words, words # <<>>, words[1] = "watch" PROVE Invoke(words) = Parse(words)
  BY <1>1 DEF Invoke
<1>2. ASSUME NEW words, words # <<>>, words[1] = "finish" PROVE Invoke(words) = ParseFinish(words)
  BY <1>2 DEF Invoke
<1>3. WatchCall(shell, hook) # <<>> /\ WatchCall(shell, hook)[1] = "watch"
  BY DEF WatchCall, Words
<1>4. FinishCall(s) # <<>> /\ FinishCall(s)[1] = "finish"
  BY DEF FinishCall
<1> QED
  BY <1>1, <1>2, <1>3, <1>4, Zenon

(* What the binary was told at its last call: for the whole of the command *)
(* which backend the hook meant.                                           *)
CallMeant ==
    /\ call # None
    /\ call.clear_first = job.clear /\ call.osc = job.osc
    /\ call.start = IF job.shell = "zsh" THEN SpawnedAt ELSE NaN
CallInv ==
    /\ job \in Jobs
    /\ phase = "called" => CallMeant
    /\ phase \notin {"prompt", "finished"} => call # None /\ call.osc = job.osc
    /\ phase = "finished" /\ job.osc => call # None

LEMMA PreexecMeant == job \in Jobs /\ Preexec => CallMeant'
<1> SUFFICES ASSUME job \in Jobs, Preexec PROVE CallMeant'
  OBVIOUS
<1> DEFINE hook == HookCall
           read == Parse(WatchCall(job.shell, hook))
<1>1. hook.clear \in BOOLEAN /\ hook.osc \in BOOLEAN /\ hook.clear = job.clear
      /\ hook.osc = job.osc /\ hook.start = "1000"
  <2>1. {job.osc, job.clear} \subseteq BOOLEAN
    BY ReportsAssumption
  <2> QED
    BY <2>1 DEF HookCall
<1>2. Number("1000") = SpawnedAt /\ SpawnedAt # NaN
  BY InvocationAssumption DEF SpawnedAt, NaN
<1>3. call' = Invoke(WatchCall(job.shell, hook)) /\ job' = job
  BY DEF Preexec
<1> HIDE DEF hook
<1>4. call' = read
  BY <1>3, Invoked, Zenon
<1>5. read = [call |-> "watch", pane |-> hook.pane,
              start |-> IF job.shell = "zsh" THEN Number(hook.start) ELSE NaN,
              clear_first |-> hook.clear, osc |-> hook.osc]
  <2>1. Number(hook.start) # NaN
    BY <1>1, <1>2, Zenon
  <2> QED
    BY <1>1, <2>1, WatchParsed, SMT
<1> HIDE DEF read
<1>6. /\ read.call = "watch" /\ read.clear_first = hook.clear /\ read.osc = hook.osc
      /\ read.start = IF job.shell = "zsh" THEN Number(hook.start) ELSE NaN
  BY <1>5
<1>7. read # None
  <2>1. None.call = "none"
    BY DEF None
  <2> QED
    BY <1>6, <2>1
<1> QED
  BY <1>1, <1>2, <1>3, <1>4, <1>6, <1>7, Zenon DEF CallMeant

LEMMA FinishCalled == Finish => call' # None /\ phase' = "finished" /\ job' = job
<1> SUFFICES ASSUME Finish PROVE call' # None /\ phase' = "finished" /\ job' = job
  OBVIOUS
<1>1. call' = Invoke(FinishCall(status)) /\ phase' = "finished" /\ job' = job
  BY DEF Finish
<1>2. call' = [call |-> "finish", exit |-> Number(status)]
  BY <1>1, Invoked, FinishParsed, Zenon
<1> QED
  BY <1>1, <1>2 DEF None

LEMMA CallNext == CallInv /\ [Next]_vars => CallInv'
<1> SUFFICES ASSUME CallInv, [Next]_vars PROVE CallInv'
  OBVIOUS
<1>1. CASE Preexec
  <2>1. phase' = "called" /\ job' = job
    BY <1>1 DEF Preexec
  <2>2. CallMeant'
    BY <1>1, PreexecMeant DEF CallInv
  <2> QED
    BY <2>1, <2>2 DEF CallInv, CallMeant
<1>2. CASE Boot
  <2>1. phase = "called" /\ phase' \in {"parked", "watching"} /\ UNCHANGED <<job, call>>
    BY <1>2 DEF Boot
  <2> QED
    BY <2>1 DEF CallInv, CallMeant
<1>3. CASE CommandEnds
  <2>1. phase \in {"watching", "parked"} /\ phase' = "ended" /\ UNCHANGED <<job, call>>
    BY <1>3 DEF CommandEnds
  <2> QED
    BY <2>1 DEF CallInv
<1>4. CASE OnFinish
  <2>1. phase = "ended" /\ ~call.osc /\ phase' = "finished" /\ UNCHANGED <<job, call>>
    BY <1>4 DEF OnFinish
  <2> QED
    BY <2>1 DEF CallInv
<1>5. CASE Finish
  BY <1>5, FinishCalled DEF CallInv
<1>6. CASE EarlyTick \/ OnTick \/ ReportWorking \/ Terminal \/ UNCHANGED vars
  <2>1. UNCHANGED <<job, call, phase>>
    BY <1>6 DEF EarlyTick, OnTick, ReportWorking, Terminal, vars
  <2> QED
    BY <2>1 DEF CallInv, CallMeant
<1> QED
  BY <1>1, <1>2, <1>3, <1>4, <1>5, <1>6 DEF Next

(* The binary takes every call a hook makes and takes it as it was meant:  *)
(* whatever the shell, and with or without the optional flags, no word is  *)
(* refused, the start, the clearing and the backend are those the hook     *)
(* meant, and a finished command of the desktop app is told (Understood;   *)
(* args.rs:49-118, main.rs:14-16).                                         *)
THEOREM UnderstoodHolds == Spec => []Understood
<1>1. Init => CallInv
  BY DEF Init, CallInv
<1>2. CallInv => Understood
  BY DEF CallInv, CallMeant, Understood
<1> QED
  BY <1>1, <1>2, CallNext, PTL DEF Spec
=============================================================================
