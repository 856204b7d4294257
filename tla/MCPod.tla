------------------------------- MODULE MCPod -------------------------------
(***************************************************************************)
(* Small instances of Pod for TLC.                                         *)
(***************************************************************************)
EXTENDS Pod

MCCall == Handler \cup Sender
=============================================================================
