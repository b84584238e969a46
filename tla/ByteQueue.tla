----------------------------- MODULE ByteQueue ------------------------------
(***************************************************************************)
(* What the read buffer promises its users: a queue of the bytes of one    *)
(* stream.  Bytes come in at the back in the order in which they were      *)
(* sent, leave at the front, and none is lost, doubled or moved past       *)
(* another.  How much memory that takes and when it is moved does not      *)
(* show.  The bytes of a stream are numbered 1, 2, ...                     *)
(***************************************************************************)
EXTENDS Integers, Sequences

VARIABLES
  sent,  \* bytes of the stream that have arrived
  queue  \* those of them that nobody has taken yet

\* The bytes from number a + 1 to number b.
Bytes(a, b) == [i \in 1..(b - a) |-> a + i]

Init == sent = 0 /\ queue = <<>>

Arrive ==
  /\ sent' > sent
  /\ queue' = queue \o Bytes(sent, sent')

Take ==
  /\ Len(queue') < Len(queue)
  /\ queue' = SubSeq(queue, Len(queue) - Len(queue') + 1, Len(queue))
  /\ UNCHANGED sent

\* A new stream.
Reset == sent' = 0 /\ queue' = <<>>

Next == Arrive \/ Take \/ Reset

Spec == Init /\ [][Next]_<<sent, queue>>
=============================================================================
