----------------------------- MODULE OscWatchMC -----------------------------
(* Small instances of OscWatch for TLC.                                    *)
EXTENDS OscStatus

AnyConfig == [failureSticky : BOOLEAN, successSticky : BOOLEAN]
=============================================================================
