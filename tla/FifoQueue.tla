----------------------------- MODULE FifoQueue -----------------------------
(***************************************************************************)
(* What a queue shared by threads promises: items leave in the order in    *)
(* which they entered, each to one thread, and a thread is told that the   *)
(* queue is empty only if it was, at some moment since the thread asked.   *)
(* Entering and leaving are one step each, between the call and the return *)
(* of the operation (linearizability).                                     *)
(***************************************************************************)
EXTENDS Sequences

CONSTANTS
  Threads,
  Items,
  None      \* no item

VARIABLES
  queue,   \* the items, first in first
  asking,  \* the threads that wait for an item
  empty,   \* those of them for which the queue has been empty
  taken    \* the item that a thread has got and not returned yet

vars == <<queue, asking, empty, taken>>

Init == queue = <<>> /\ asking = {} /\ empty = {} /\ taken = [t \in Threads |-> None]

\* The threads asking after a step for which the queue has been empty.
Watched == empty' = {t \in asking' : t \in empty \/ queue' = <<>>}

Enqueue(i) == queue' = Append(queue, i) /\ UNCHANGED <<asking, taken>> /\ Watched

Ask(t) ==
  /\ t \notin asking /\ taken[t] = None /\ asking' = asking \cup {t}
  /\ UNCHANGED <<queue, taken>> /\ Watched

Dequeue(t) ==
  /\ t \in asking /\ queue # <<>> /\ asking' = asking \ {t}
  /\ taken' = [taken EXCEPT ![t] = Head(queue)] /\ queue' = Tail(queue) /\ Watched

FindEmpty(t) ==
  t \in empty /\ asking' = asking \ {t} /\ UNCHANGED <<queue, taken>> /\ Watched

Return(t) ==
  /\ taken[t] # None /\ taken' = [taken EXCEPT ![t] = None]
  /\ UNCHANGED <<queue, asking>> /\ Watched

Next ==
  \/ \E i \in Items : Enqueue(i)
  \/ \E t \in Threads : Ask(t) \/ Dequeue(t) \/ FindEmpty(t) \/ Return(t)

Spec == Init /\ [][Next]_vars

=============================================================================
