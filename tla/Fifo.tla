-------------------------------- MODULE Fifo --------------------------------
(* What a pipe promises: a queue of bytes of bounded length, first in first  *)
(* out, no byte lost, repeated or made up.                                   *)
EXTENDS Naturals, Sequences

CONSTANTS Bytes, Capacity

VARIABLES queue, out   \* out: the byte last delivered

Put(b) == Len(queue) < Capacity /\ queue' = Append(queue, b) /\ UNCHANGED out
Get == queue # <<>> /\ queue' = Tail(queue) /\ out' = Head(queue)

FifoSpec == queue = <<>> /\ [][Get \/ \E b \in Bytes : Put(b)]_<<queue, out>>
=============================================================================
