-------------------------------- MODULE FiLo --------------------------------
(***************************************************************************)
(* The class FiLo of clusterutils.h: a ring buffer of NumRows * NumCols + 1 *)
(* slots, one of which always stays free so that head = tail means empty.  *)
(* It implements BoundedFifo.                                              *)
(***************************************************************************)
EXTENDS Integers, Sequences

CONSTANTS NumRows, NumCols,  \* the constructor's arguments
          Elem,              \* the template argument T
          Blank              \* the value-initialised T of a fresh slot

ASSUME FiLoAssumption == NumRows \in Nat /\ NumCols \in Nat

VARIABLES head, tail,  \* int
          filo,        \* std::vector<T>
          thrown,      \* an overflow exception has been thrown
          popped       \* what the last pop_head returned (Blank before)

ringVars == <<head, tail, filo, thrown, popped>>

\* Mutant: no slot that stays free.
SlotsWithoutSpare == NumRows * NumCols

Slots == NumRows * NumCols + 1

size == (tail + Slots - head) % Slots

empty == tail = head

RingInit ==
  /\ head = 0
  /\ tail = 0
  /\ filo = [i \in 0 .. Slots - 1 |-> Blank]
  /\ thrown = FALSE
  /\ popped = Blank

clear ==
  /\ head' = 0
  /\ tail' = 0
  /\ UNCHANGED <<filo, thrown, popped>>

\* Mutant: the tail does not wrap around.
push_back_unwrapped(value) ==
  /\ filo' = [filo EXCEPT ![tail] = value]
  /\ tail' = tail + 1
  /\ thrown' = (thrown \/ tail' = head)
  /\ UNCHANGED <<head, popped>>

(* The slot is written and tail advances before the overflow is noticed.   *)
push_back(value) ==
  /\ filo' = [filo EXCEPT ![tail] = value]
  /\ tail' = (tail + 1) % Slots
  /\ thrown' = (thrown \/ tail' = head)
  /\ UNCHANGED <<head, popped>>

pop_head ==
  /\ ~empty
  /\ popped' = filo[head]
  /\ head' = (head + 1) % Slots
  /\ UNCHANGED <<tail, filo, thrown>>

RingNext == clear \/ pop_head \/ \E value \in Elem : push_back(value)

RingSpec == RingInit /\ [][RingNext]_ringVars

-----------------------------------------------------------------------------
(* The indices and slots keep their ranges. *)
RingOK ==
  /\ head \in 0 .. Slots - 1
  /\ tail \in 0 .. Slots - 1
  /\ filo \in [0 .. Slots - 1 -> Elem \cup {Blank}]
  /\ thrown \in BOOLEAN
  /\ popped \in Elem \cup {Blank}

(* The slots from head up to tail, around the end of the vector, are the   *)
(* queue the callers see.                                                  *)
Queued == [i \in 1 .. size |-> filo[(head + i - 1) % Slots]]

Fifo == INSTANCE BoundedFifo
          WITH queue <- Queued, Capacity <- NumRows * NumCols

(* The ring buffer is a first-in first-out queue of NumRows * NumCols      *)
(* elements whose only failure is the overflow exception, whatever calls   *)
(* of push_back, pop_head and clear precede, also after an overflow and    *)
(* when the indices wrap around; pop_head hands out the oldest element     *)
(* (clusterutils.h:23-75).                                                 *)
ImplementsFifo == Fifo!Spec
=============================================================================
