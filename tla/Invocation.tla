----------------------------- MODULE Invocation -----------------------------
(***************************************************************************)
(* args.rs and the calls in the hooks: a command line of the binary is     *)
(* written by a shell script and read by a parser that refuses in silence  *)
(* whatever it does not know.                                              *)
(***************************************************************************)
EXTENDS Integers, Sequences

None == [call |-> "none"]

CONSTANT Readings   \* what words say as numbers: a function from words to numbers

(* What a word says as a number; NaN when it is none.                      *)
NaN == -1
Number(word) == IF word \in DOMAIN Readings THEN Readings[word] ELSE NaN

(* The numbers in the calls of the hooks themselves.                       *)
ASSUME InvocationAssumption ==
    /\ \A word \in DOMAIN Readings : Readings[word] \in Nat
    /\ Number("1000") = 1000 /\ Number("4242") = 4242
-----------------------------------------------------------------------------
(* The calls.  In zsh the clock is free, so the hook passes the start; an  *)
(* empty $clear or $backend leaves no word behind.                         *)
WordsQuoted(condition, word) == IF condition THEN <<word>> ELSE <<"">>
Words(condition, word) == IF condition THEN <<word>> ELSE <<>>

WatchCall(shell, hook) ==
    <<"watch", "--pane", hook.pane, "--shell-pid", "4242">>
      \o (IF shell = "zsh" THEN <<"--start-ms", hook.start>> ELSE <<"--start-now">>)
      \o <<"--state-dir", "dir">>
      \o Words(hook.clear, "--clear-first") \o Words(hook.osc, "--osc")

FinishCall(status) == <<"finish", "--state-dir", "dir", "--exit", status>>
-----------------------------------------------------------------------------
(* The parser.  `flags` is what has been read so far, `refused` as soon as *)
(* a flag is not known or no word is left for its value.                       *)
WithValue == {"--pane", "--shell-pid", "--start-ms", "--state-dir", "--exit"}

ReadFlags(words, known) ==
    LET read[i \in 1..(Len(words) + 2)] ==
            CASE i > Len(words) -> <<>>
              [] i <= Len(words) /\ words[i] \notin known -> << <<"refused", "">> >>
              [] i <= Len(words) /\ words[i] \in known \ WithValue ->
                    << <<words[i], "">> >> \o read[i + 1]
              [] i = Len(words) /\ words[i] \in known \cap WithValue -> << <<"refused", "">> >>
              [] OTHER -> << <<words[i], words[i + 1]>> >> \o read[i + 2]
    IN  read[2]

Has(flags, flag) == \E i \in DOMAIN flags : flags[i][1] = flag
Value(flags, flag) ==
    flags[CHOOSE i \in DOMAIN flags :
            /\ flags[i][1] = flag
            /\ \A j \in DOMAIN flags : flags[j][1] = flag => j <= i][2]

Parse(words) ==
    LET flags == ReadFlags(words, {"--pane", "--shell-pid", "--start-ms", "--start-now",
                                   "--state-dir", "--clear-first", "--osc"})
        started == Has(flags, "--start-ms") /\ Number(Value(flags, "--start-ms")) # NaN
    IN  IF \/ Has(flags, "refused")
           \/ started = Has(flags, "--start-now")
           \/ \E flag \in {"--pane", "--shell-pid", "--state-dir"} : ~Has(flags, flag)
           \/ Number(Value(flags, "--shell-pid")) = NaN
        THEN None
        ELSE [call |-> "watch", pane |-> Value(flags, "--pane"),
              start |-> IF started THEN Number(Value(flags, "--start-ms")) ELSE NaN,
              clear_first |-> Has(flags, "--clear-first"), osc |-> Has(flags, "--osc")]

ParseFinish(words) ==
    LET flags == ReadFlags(words, {"--state-dir", "--exit"})
    IN  IF Has(flags, "refused") \/ ~Has(flags, "--state-dir") \/ ~Has(flags, "--exit")
        THEN None
        ELSE [call |-> "finish", exit |-> Number(Value(flags, "--exit"))]

Invoke(words) ==
    CASE words # <<>> /\ words[1] = "watch" -> Parse(words)
      [] words # <<>> /\ words[1] = "finish" -> ParseFinish(words)
      [] OTHER -> None
=============================================================================
