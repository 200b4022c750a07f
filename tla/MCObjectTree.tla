---------------------------- MODULE MCObjectTree ----------------------------
(* Instances of ObjectTree for TLC.                                         *)
EXTENDS ObjectTree, TLC

CONSTANT app
=============================================================================
