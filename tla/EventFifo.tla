------------------------------- MODULE EventFifo -------------------------------
(***************************************************************************)
(* What an event loop, or a chain of them, promises those who post to it:  *)
(* every event is handled once, in the order of the posts.                 *)
(***************************************************************************)
EXTENDS Sequences

CONSTANT Event      \* the events that may be posted
VARIABLE pending    \* posted and not yet handled, the oldest first

Init == pending = <<>>

Post(e) == pending' = Append(pending, e)

Handle == pending # <<>> /\ pending' = Tail(pending)

Next == (\E e \in Event : Post(e)) \/ Handle

Spec == Init /\ [][Next]_pending
===============================================================================
