---------------------------- MODULE BoundedFifo -----------------------------
(***************************************************************************)
(* What the search algorithms rely on when they use a FiLo (which, despite *)
(* its name, is first-in first-out): a queue of at most Capacity elements. *)
(* Adding one element too many is reported by an exception, after which    *)
(* the queue looks empty.                                                  *)
(***************************************************************************)
EXTENDS Integers, Sequences

CONSTANTS Elem,      \* what is queued
          Blank,     \* what popped holds before the first pop_head
          Capacity

VARIABLES queue,    \* the elements, oldest first
          thrown,   \* RuntimeError("FiLo overflow") has been thrown
          popped    \* what the last pop_head returned

HasRoom == Len(queue) < Capacity

Clear == queue' = <<>> /\ UNCHANGED <<thrown, popped>>

PushBack(value) ==
  /\ queue' = IF HasRoom THEN Append(queue, value) ELSE <<>>
  /\ thrown' = IF HasRoom THEN thrown ELSE TRUE
  /\ UNCHANGED popped

(* assert(!empty()) is the caller's obligation. *)
PopHead ==
  /\ queue # <<>>
  /\ popped' = Head(queue)
  /\ queue' = Tail(queue)
  /\ UNCHANGED thrown

Init == queue = <<>> /\ thrown = FALSE /\ popped = Blank

Next == Clear \/ PopHead \/ \E value \in Elem : PushBack(value)

Spec == Init /\ [][Next]_<<queue, thrown, popped>>
=============================================================================
