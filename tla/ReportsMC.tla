----------------------------- MODULE ReportsMC -----------------------------
(* A small instance of Reports for TLC.                                    *)
EXTENDS Reports

Word(text, base) == [text |-> text, assign |-> FALSE, abs |-> FALSE, base |-> base]
Times(c, n) == [i \in 1..n |-> c]

make == <<Word(<<"m", "a", "k", "e">>, "make"), Word(<<"-", "j">>, "-j")>>
cc == <<Word(<<"c", "c">>, "cc")>>
claude ==
    <<[Word(<<"D", "=", "/", "x">>, "x") EXCEPT !.assign = TRUE],
      Word(<<"c", "o", "m", "m", "a", "n", "d">>, "command"),
      Word(<<"/", "b", "/", "c", "l", "a", "u", "d", "e">>, "claude")>>
keylock == <<Word(<<"k", "e", "y", "l", "o", "c", "k">>, "keylock"),
             Word(<<"r", "u", "n">>, "run"), Word(Times("x", 60), "x")>>
braces == <<Word(<<"a", "w", "k">>, "awk"), Word(<<"{", "code", "}">>, "{code}"),
            Word(<<"{", "elapsed", "}">>, "{elapsed}")>>
wide == <<Word(<<"e", "c", "h", "o">>, "echo"),
          Word(<<"bell", "acute">> \o Times("padlock", 130) \o <<"x">>, "x")>>
loop == <<Word(<<"f", "o", "r">>, "for"), Word(Times("ellipsis", 65) \o <<"x">>, "x")>>

Line(shells, oscs, typed, ran, program) ==
    [shell : shells, osc : oscs, clear : {FALSE}, typed : {typed}, ran : {ran},
     program : {program}]
AllShells == {"zsh", "bash", "preexec", "fish"}
MCJobs ==
    UNION {Line({"zsh"}, BOOLEAN, line, line, "any") : line \in {braces, wide, loop, <<>>}}
      \cup [shell : AllShells, osc : BOOLEAN, clear : BOOLEAN, typed : {make},
            ran : {make}, program : {"make"}]
      \cup Line({"zsh", "bash", "preexec"}, BOOLEAN, cc, claude, "claude")
      \cup Line({"zsh", "fish"}, {FALSE}, keylock, keylock, "keylock")

MCReadings ==
    ("0" :> 0) @@ ("1" :> 1) @@ ("130" :> 130) @@ ("137" :> 137) @@ ("191" :> 191)
      @@ ("1000" :> 1000) @@ ("4242" :> 4242)

(* The title is longer than the message of a record.                       *)
Literal == [max_title_len |-> 500,
            running |-> CmdOnly, success |-> CmdOnly, failure |-> CmdOnly,
            signal |-> CmdOnly, unknown |-> CmdOnly]
MCFiles ==
    {NoFile, Malformed, Literal,
     [tick_ms |-> 0, lock_timeout_ms |-> 60000, threshold_ms |-> 0,
      max_title_len |-> 500, max_display_len |-> 0, success_sticky_ms |-> 0,
      prefix |-> <<>>],
     [tick_ms |-> 10, lock_timeout_ms |-> 0, max_title_len |-> 0,
      success_sticky_ms |-> 100000000, failure_sticky |-> FALSE],
     [ignore |-> {}, ignore_extra |-> {"make", "claude"}, max_title_len |-> 10]}
=============================================================================
