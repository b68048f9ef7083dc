--------------------------- MODULE CommandStatus ---------------------------
(***************************************************************************)
(* What the plugin promises, whichever backend shows it: at most one       *)
(* command's status at a time, and never a lie about how it ended.  What   *)
(* goes up is about the command typed last, and goes up over nothing but   *)
(* that command's own; an older status may stay until it is taken down.    *)
(*                                                                         *)
(* PaneStatus and OscStatus show that PaneWatch and OscWatch implement it. *)
(***************************************************************************)
EXTENDS Naturals

CONSTANT N      \* number of command lines typed

VARIABLES
    typed,      \* the last command line typed
    result,     \* how each command ended
    shown       \* the status on the screen

statusVars == <<typed, result, shown>>

Ending == {"ok", "fail", "signal"}

Nothing == [phase |-> "none", by |-> 0, text |-> "unknown", sticky |-> FALSE]
Working(w) == [phase |-> "working", by |-> w, text |-> "unknown", sticky |-> FALSE]
Final(w, t, s) == [phase |-> "final", by |-> w, text |-> t, sticky |-> s]

(* The text either leaves open how the command ended or tells the truth.   *)
Honest(t, w) == t \in {"unknown", result[w]}

Init ==
    /\ typed = 0
    /\ result = [w \in 1..N |-> "none"]
    /\ shown \in {Nothing, Final(0, "fail", TRUE)}

(* The next line is typed, which may take down what is shown.              *)
Type ==
    /\ typed < N
    /\ typed' = typed + 1
    /\ shown' \in {shown, Nothing}
    /\ UNCHANGED result

End ==
    /\ typed > 0 /\ result[typed] = "none"
    /\ \E r \in Ending : result' = [result EXCEPT ![typed] = r]
    /\ UNCHANGED <<typed, shown>>

(* The last command turns out to be slow, or was until a moment ago.       *)
ShowWorking ==
    /\ typed > 0 /\ shown = Nothing
    /\ shown' = Working(typed)
    /\ UNCHANGED <<typed, result>>

(* Its end replaces that.  If the watcher was killed before its report was *)
(* out, the end comes alone.                                               *)
ShowFinal ==
    /\ typed > 0 /\ result[typed] # "none"
    /\ shown \in {Nothing, Working(typed)}
    /\ \E t \in Ending \cup {"unknown"}, s \in BOOLEAN :
          Honest(t, typed) /\ shown' = Final(typed, t, s)
    /\ UNCHANGED <<typed, result>>

(* A sticky status waits for the next command.                             *)
TakeDown ==
    /\ shown # Nothing
    /\ shown.sticky => typed > shown.by
    /\ shown' = Nothing
    /\ UNCHANGED <<typed, result>>

Next == Type \/ End \/ ShowWorking \/ ShowFinal \/ TakeDown

Spec == Init /\ [][Next]_statusVars
=============================================================================
