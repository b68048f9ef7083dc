----------------------------- MODULE PaneStatus -----------------------------
(***************************************************************************)
(* PaneWatch implements CommandStatus: what the user sees is the agent     *)
(* state of the row together with the label that belongs to it.            *)
(***************************************************************************)
EXTENDS PaneWatch

Nothing == [phase |-> "none", by |-> 0, text |-> "unknown", sticky |-> FALSE]

(* A label counts when it is from the watcher that set the agent state.    *)
LabelOfRow == label.by = row.by

(* An idle row is final as long as its label is there, still working while *)
(* the label has not been replaced, and means nothing once it has expired. *)
ShowsFinal == row.state = "idle" /\ LabelOfRow /\ label.text \in Outcome
ShowsWorking ==
    \/ row.state = "working"
    \/ row.state = "idle" /\ LabelOfRow /\ label.text = "working"

Shown ==
    CASE ShowsFinal ->
             [phase |-> "final", by |-> row.by, text |-> label.text, sticky |-> ~label.ttl]
      [] ShowsWorking ->
             [phase |-> "working", by |-> row.by, text |-> "unknown", sticky |-> FALSE]
      [] ~ShowsFinal /\ ~ShowsWorking -> Nothing

(* A command counts as typed once its watcher is spawned: up to then the   *)
(* watcher of the command before may still be reporting.                   *)
Typed == IF cur # 0 /\ pc[cur] = "none" THEN cur - 1 ELSE cur

Status == INSTANCE CommandStatus WITH
              typed <- Typed, result <- status, shown <- Shown

(* The row only ever goes through the states of CommandStatus: the sticky  *)
(* label of a failure is wiped before the next report (clear_actions) and  *)
(* by nobody but the next command, a finished command is never `working`   *)
(* again, and a label is the truth about the command it stands for.        *)
ImplementsStatus == Status!Spec
=============================================================================
