------------------------------ MODULE Settings ------------------------------
(***************************************************************************)
(* config.rs: the settings of one watcher.  A file is NoFile, Malformed or *)
(* a record of the settings it names; the tables [finish], [labels] and    *)
(* [lock] are flattened into it.                                           *)
(***************************************************************************)
EXTENDS Integers, Sequences

NoFile == [file |-> "none"]
Malformed == [file |-> "malformed"]

MIN_INTERVAL_MS == 250
MIN_DISPLAY_LEN == 8
MIN_LOCK_TIMEOUT_MS == 50

Shells == {"zsh", "bash", "sh", "fish"}

default_running == <<"running ", "{", "elapsed", "}">>
SUCCESS_MARK == "ok · "
default_success == <<SUCCESS_MARK, "{", "elapsed", "}">>
default_failure == <<"exit ", "{", "code", "}", " · ", "{", "elapsed", "}">>
default_signal == <<"{", "signal", "}", " · ", "{", "elapsed", "}">>
default_unknown == <<"{", "elapsed", "}">>

Default ==
    [threshold_ms |-> 2000, tick_ms |-> 2000,
     max_title_len |-> 60, max_display_len |-> 24,
     ignore |-> {"vim", "nvim", "less", "man", "ssh", "top", "htop", "claude",
                 "codex", "opencode", "droid"} \cup Shells,
     ignore_extra |-> {},
     success_sticky_ms |-> 20000, failure_sticky |-> TRUE,
     prefix |-> <<"padlock", " ">>, lock_timeout_ms |-> 300,
     running |-> default_running, success |-> default_success,
     failure |-> default_failure, signal |-> default_signal,
     unknown |-> default_unknown]

(* serde's defaults: what the file does not name stays as it is; no file   *)
(* and a file that does not parse name nothing.                            *)
Parsed(file) ==
    IF file \in {NoFile, Malformed} THEN Default
    ELSE [k \in DOMAIN Default |-> IF k \in DOMAIN file THEN file[k] ELSE Default[k]]

(* The numbers of a file that parses are unsigned (u64 and usize).         *)
Numbers == {"threshold_ms", "tick_ms", "max_title_len", "max_display_len",
            "success_sticky_ms", "lock_timeout_ms"}
Unsigned(file) == \A k \in Numbers \cap DOMAIN file : file[k] \in Nat

AtLeast(x, floor) == IF x < floor THEN floor ELSE x

(* Ord::clamp panics on an empty range.                                    *)
Panic == -1
Clamp(x, low, high) ==
    CASE low > high -> Panic
      [] low <= high /\ x > high -> high
      [] OTHER -> AtLeast(x, low)

SanitizeUnordered(cfg) ==
    [cfg EXCEPT !.tick_ms = AtLeast(@, MIN_INTERVAL_MS),
                !.threshold_ms = AtLeast(@, MIN_INTERVAL_MS),
                !.max_display_len = AtLeast(@, MIN_DISPLAY_LEN),
                !.lock_timeout_ms = Clamp(@, MIN_LOCK_TIMEOUT_MS, cfg.tick_ms)]
Sanitize(cfg) ==
    LET tick == AtLeast(cfg.tick_ms, MIN_INTERVAL_MS)
    IN  [cfg EXCEPT !.tick_ms = tick,
                    !.threshold_ms = AtLeast(@, MIN_INTERVAL_MS),
                    !.max_display_len = AtLeast(@, MIN_DISPLAY_LEN),
                    !.lock_timeout_ms = Clamp(@, MIN_LOCK_TIMEOUT_MS, tick)]

Load(file) == Sanitize(Parsed(file))

IsIgnored(cfg, agent) == agent \in cfg.ignore \cup cfg.ignore_extra
=============================================================================
