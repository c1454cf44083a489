------------------------ MODULE MCSingleRWRingBuffer ------------------------
(* TLC instance of SingleRWRingBuffer. *)
EXTENDS SingleRWRingBuffer

=============================================================================
