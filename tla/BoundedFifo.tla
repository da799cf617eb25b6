------------------------------ MODULE BoundedFifo ------------------------------
(***************************************************************************)
(* What the incoming queue promises its client: messages are delivered in  *)
(* the order they were put, each at most once, and one is lost only to a   *)
(* flush or to an overflow.  The processing thread, its locks and its gate *)
(* are not visible here: it may hold one message beyond the Capacity of    *)
(* the queue, so that with exactly Capacity messages pending a put may be  *)
(* accepted (one is held) or dropped (none is).                            *)
(***************************************************************************)
EXTENDS Integers, Sequences

CONSTANT Capacity

VARIABLES
  pending,  \* accepted and not yet delivered, in order
  puts,     \* messages offered so far; a message is the number of its put
  last      \* the last delivered message

vars == <<pending, puts, last>>

Init == pending = <<>> /\ puts = 0 /\ last = 0

Accept ==
  /\ Len(pending) <= Capacity
  /\ pending' = Append(pending, puts + 1)
  /\ puts' = puts + 1
  /\ UNCHANGED last

Drop ==
  /\ Len(pending) >= Capacity
  /\ puts' = puts + 1
  /\ UNCHANGED <<pending, last>>

Deliver ==
  /\ pending # <<>>
  /\ last' = Head(pending)
  /\ pending' = Tail(pending)
  /\ UNCHANGED puts

(* A message already taken out of the queue survives a flush. *)
Flush ==
  /\ \/ pending' = <<>>
     \/ pending # <<>> /\ pending' = <<Head(pending)>>
  /\ UNCHANGED <<puts, last>>

Next == Accept \/ Drop \/ Deliver \/ Flush

Spec == Init /\ [][Next]_vars
=============================================================================
