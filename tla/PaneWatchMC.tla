---------------------------- MODULE PaneWatchMC ----------------------------
(* Small instances of PaneWatch for TLC.                                   *)
EXTENDS PaneStatus

(* The defaults of config.rs and every other [finish] setting.             *)
DefaultConfig == {[failureSticky |-> TRUE, successSticky |-> TRUE]}
AnyConfig == [failureSticky : BOOLEAN, successSticky : BOOLEAN]
=============================================================================
