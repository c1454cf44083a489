------------------------------ MODULE MCMsgQueue ------------------------------
(* TLC instance of MsgQueue. *)
EXTENDS MsgQueue

=============================================================================
