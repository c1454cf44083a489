---------------------------- MODULE BoundedFifo ----------------------------
(***************************************************************************)
(* What a single-reader-single-writer byte queue of limited capacity       *)
(* promises to its two clients: bytes leave in the order in which they     *)
(* entered, none is lost, duplicated or altered, and no more than Capacity *)
(* bytes are ever inside.  SingleRWRingBuffer is shown to implement it.    *)
(***************************************************************************)
EXTENDS Naturals, Sequences

CONSTANTS
  Byte,       \* the values a byte can have
  Capacity    \* the largest number of bytes held, a natural number

VARIABLES
  input,      \* the bytes the writer has offered and that are not inside yet
  queue,      \* the bytes inside, oldest first
  got         \* the bytes returned by the reader's latest read or peek

vars == <<input, queue, got>>

Init ==
  /\ input = <<>>
  /\ queue = <<>>
  /\ got = <<>>

\* The writer offers some bytes that fit ...
Offer ==
  /\ input = <<>>
  /\ \E n \in 1 .. (Capacity - Len(queue)) : input' \in [1 .. n -> Byte]
  /\ UNCHANGED <<queue, got>>

\* ... and they enter together.
Put ==
  /\ input # <<>>
  /\ queue' = queue \o input
  /\ input' = <<>>
  /\ UNCHANGED got

\* The reader removes the n oldest bytes and receives them.
Get ==
  \E n \in 1 .. Len(queue) :
    /\ got' = SubSeq(queue, 1, n)
    /\ queue' = SubSeq(queue, n + 1, Len(queue))
    /\ UNCHANGED input

\* The reader receives the n oldest bytes and leaves them in place.
Peek ==
  \E n \in 1 .. Len(queue) :
    /\ got' = SubSeq(queue, 1, n)
    /\ UNCHANGED <<input, queue>>

\* The reader discards the n oldest bytes.
Drop ==
  \E n \in 1 .. Len(queue) :
    /\ queue' = SubSeq(queue, n + 1, Len(queue))
    /\ UNCHANGED <<input, got>>

Next == Offer \/ Put \/ Get \/ Peek \/ Drop

Spec == Init /\ [][Next]_vars

=============================================================================
