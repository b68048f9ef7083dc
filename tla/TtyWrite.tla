------------------------------ MODULE TtyWrite ------------------------------
(***************************************************************************)
(* write_tty of osc_watch.rs.  A record is Parts pieces, and a write takes *)
(* any number of them.  EINTR, and an EAGAIN whose fcntl fails, go round   *)
(* the loop and change nothing.                                            *)
(***************************************************************************)
EXTENDS Naturals

CONSTANTS
    Parts,          \* the pieces a record can come apart into
    TtyFaults       \* subset of {"open", "error", "kill"}

ASSUME TtyAssumption ==
    Parts \in Nat \ {0} /\ TtyFaults \subseteq {"open", "error", "kill"}

VARIABLES
    tty     \* the call: its place, O_NONBLOCK and the pieces written

TtyType ==
    tty \in [pc : {"idle", "opening", "writing", "returned", "failed", "killed"},
             nonblock : BOOLEAN, sent : 0..Parts]

TtyIdle == [pc |-> "idle", nonblock |-> TRUE, sent |-> 0]
TtyCall == tty' = [TtyIdle EXCEPT !.pc = "opening"]
TtyOver == tty.pc \in {"returned", "failed", "killed"}

OpenTty ==
    /\ tty.pc = "opening"
    /\ \/ tty' = [tty EXCEPT !.pc = "writing"]
       \/ "open" \in TtyFaults /\ tty' = [tty EXCEPT !.pc = "failed"]

WritePart ==
    /\ tty.pc = "writing"
    /\ \E n \in 1..(Parts - tty.sent) :
          tty' = [tty EXCEPT !.sent = @ + n,
                             !.pc = IF tty.sent + n = Parts THEN "returned" ELSE @]

(* The terminal takes nothing at the moment.                               *)
WouldBlockReturning ==
    /\ tty.pc = "writing" /\ tty.nonblock
    /\ tty' = [tty EXCEPT !.pc = "returned"]
WouldBlock ==
    /\ tty.pc = "writing" /\ tty.nonblock
    /\ tty' = IF tty.sent > 0 THEN [tty EXCEPT !.nonblock = FALSE]
              ELSE [tty EXCEPT !.pc = "returned"]

(* Any other error: the terminal has been hung up.                         *)
WriteFails ==
    /\ "error" \in TtyFaults /\ tty.pc = "writing"
    /\ tty' = [tty EXCEPT !.pc = "failed"]

(* `finish` is in the foreground and takes a Ctrl+C; the watcher can be    *)
(* killed.                                                                 *)
WriterKilled ==
    /\ "kill" \in TtyFaults /\ tty.pc \in {"opening", "writing"}
    /\ tty' = [tty EXCEPT !.pc = "killed"]

TtyStep == OpenTty \/ WritePart \/ WouldBlock \/ WriteFails \/ WriterKilled

(* A call that returns has written all of the record or nothing, and it    *)
(* waits for the terminal only in the middle of a record: what is left     *)
(* unterminated is left by a terminal that is gone or a writer that was    *)
(* killed (osc_watch.rs:73-83).                                            *)
WholeOrNothing ==
    /\ tty.pc = "returned" => tty.sent \in {0, Parts}
    /\ tty.pc = "writing" /\ ~tty.nonblock => tty.sent > 0
=============================================================================
