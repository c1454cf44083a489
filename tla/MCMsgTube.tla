------------------------------ MODULE MCMsgTube ------------------------------
(* TLC instance of MsgTube. *)
EXTENDS MsgTube

=============================================================================
