---------------------------- MODULE MCSessions -----------------------------
(***************************************************************************)
(* Sessions for TLC: the programs are interchangeable.  The symmetry is    *)
(* for safety properties only; KillWaitWakes is checked without it.        *)
(***************************************************************************)
EXTENDS Sessions, TLC

Symmetry == Permutations(Proc)
=============================================================================
