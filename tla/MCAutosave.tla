----------------------------- MODULE MCAutosave -----------------------------
(* Autosave for TLC: composers, files and windows are interchangeable.     *)
EXTENDS Autosave, TLC

Interchangeable == Permutations(Composers) \cup Permutations(Files)
                     \cup Permutations(Windows)
=============================================================================
