---------------------------- MODULE MCListeners ----------------------------
(***************************************************************************)
(* Listeners for TLC: the clients are interchangeable.                     *)
(***************************************************************************)
EXTENDS Listeners, TLC

Symmetry == Permutations(Client)
=============================================================================
