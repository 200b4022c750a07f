------------------------- MODULE MCConnectAttempts -------------------------
(***************************************************************************)
(* Instances of ConnectAttempts for TLC.                                   *)
(***************************************************************************)
EXTENDS ConnectAttempts

BothPaths == {"direct", "pipeline"}
DirectPath == {"direct"}
PipelinePath == {"pipeline"}
=============================================================================
