----------------------------- MODULE OscStatus ------------------------------
(***************************************************************************)
(* OscWatch implements CommandStatus with the record on the terminal.      *)
(***************************************************************************)
EXTENDS OscWatch

Nothing == [phase |-> "none", by |-> 0, text |-> "unknown", sticky |-> FALSE]

(* What herdr-app makes of the states of the protocol.                     *)
TextOf == [done |-> "ok", error |-> "fail", idle |-> "unknown"]

(* The protocol has no expiry: every final record is sticky.               *)
Shown ==
    CASE term.state = "none" -> Nothing
      [] term.state = "working" ->
             [Nothing EXCEPT !.phase = "working", !.by = term.by]
      [] OTHER -> [phase |-> "final", by |-> term.by, text |-> TextOf[term.state],
                   sticky |-> TRUE]

(* A command counts as typed once its hook is past the clear.              *)
Typed == IF shell = "clear" THEN cur - 1 ELSE cur

Status == INSTANCE CommandStatus WITH
              typed <- Typed, result <- status, shown <- Shown

(* The terminal only ever goes through the states of CommandStatus: the    *)
(* record of a command is cleared before the next one is reported, no      *)
(* `working` follows the final record, and `done` is said of a success     *)
(* only (osc::finish_state).                                               *)
ImplementsStatus == Status!Spec
=============================================================================
