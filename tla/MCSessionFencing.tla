-------------------------- MODULE MCSessionFencing --------------------------
(* Instances of SessionFencing for TLC.                                     *)
EXTENDS SessionFencing, TLC

CONSTANTS h1, h2, j1, j2

Symmetry == Permutations(Handles) \union Permutations(Jobs)
=============================================================================
