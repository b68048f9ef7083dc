----------------------------- MODULE BashHookMC -----------------------------
(* Small instances of BashHook for TLC.                                    *)
EXTENDS BashHook

(* Pairs of shells, but none where a shell that writes `name` meets one    *)
(* that does not know of it.                                               *)
FittingShells == {<<"trap", "trap">>, <<"preexec", "trap">>, <<"zsh", "zsh">>}
OwnTrap == {<<"trap", "trap">>}
=============================================================================
