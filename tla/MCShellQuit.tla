----------------------------- MODULE MCShellQuit ------------------------------
(***************************************************************************)
(* ShellQuit for TLC.  What else keeps the activity is interchangeable;    *)
(* the composers are not, since the signals call them in order.            *)
(***************************************************************************)
EXTENDS ShellQuit, TLC

Interchangeable == Permutations(Holders)
=============================================================================
