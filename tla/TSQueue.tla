------------------------------ MODULE TSQueue ------------------------------
(***************************************************************************)
(* CTSQueue (public/tier0/tslist.h), the lock-free queue of tier0, as its  *)
(* threads see it: an action is one access to shared memory.  The queue is *)
(* a list of nodes behind a dummy; the tail may lag behind the last node,  *)
(* and whoever finds it so moves it along.  Head and tail are pairs of a   *)
(* node and a sequence number that are compared and exchanged as one, but  *)
(* read one after the other.                                               *)
(*                                                                         *)
(* Push/Pop leave the nodes to the caller, who may not use one again while *)
(* a thread may still look at it; PushItem/PopItem keep popped nodes in a  *)
(* free list and use them again at once.  The memory is sequentially       *)
(* consistent, and the free list (a CTSListBase) is taken as atomic.       *)
(***************************************************************************)
EXTENDS Integers, Sequences, FiniteSets

CONSTANTS
  Threads,
  Modes,      \* which of the interfaces is used: TRUE for PushItem/PopItem
  MaxPushes   \* bound: items pushed

ASSUME ConstantsAssumption ==
  Modes \subseteq BOOLEAN /\ MaxPushes \in Nat \ {0} /\ IsFiniteSet(Threads)

Items == 1..MaxPushes
Nodes == 1..(MaxPushes + 1)   \* one more than items, for the dummy
Null == 0                     \* NULL, and what the dummy holds
End == MaxPushes + 2          \* End(): the queue's own address
Pointers == Null..End

VARIABLES
  next, elem,   \* of the nodes
  head, tail,   \* m_Head, m_Tail
  count,        \* m_Count
  free,         \* m_FreeNodes, last in first
  used,         \* nodes allocated so far
  pushes,       \* items pushed so far, numbered in the order of the calls
  th,           \* program counter and locals of a thread
  recycle,      \* PushItem/PopItem
  empty,        \* history: threads in Pop for which the queue has been empty
  done,         \* history: items whose push has returned
  taken         \* history: how many times an item was taken

calls == <<used, pushes, recycle>>
history == <<done, taken>>
vars == <<next, elem, head, tail, count, free, calls, th, empty, history>>

PushPcs == {"setNext", "readTail", "link", "readNext", "helpPush", "finish", "count"}
PopPcs == {"headSeq", "headNode", "tailSeq", "next", "recheck", "compare", "helpPop",
           "readElem", "takeHead"}
GotPcs == {"uncount", "giveBack"}
Unread == MaxPushes + 1       \* a sequence number not read yet

\* link: oldTail of Push, head of Pop (whose sequence becomes that of the tail).
Idle == [pc |-> "idle", node |-> Null, link |-> [node |-> Null, seq |-> Unread],
         tailSeq |-> Unread, pNext |-> Null, elem |-> Null]
ThreadType ==
  [pc: {"idle"} \cup PushPcs \cup PopPcs \cup GotPcs, node: Null..(MaxPushes + 1),
   link: [node: Null..(MaxPushes + 1), seq: 0..Unread], tailSeq: 0..Unread,
   pNext: Pointers, elem: Null..MaxPushes]

Goto(t, local) == th' = [th EXCEPT ![t] = local]
At(t, pc) == th[t].pc = pc

\* The pointers met on the way from the head, the dummy's first.
Walk[k \in 0..(MaxPushes + 1)] ==
  IF k = 0 THEN head.node ELSE IF Walk[k - 1] \in Nodes THEN next[Walk[k - 1]] ELSE Walk[k - 1]
InQueue == {Walk[k] : k \in 0..(MaxPushes + 1)} \cap Nodes
Contents == [k \in 1..(Cardinality(InQueue) - 1) |-> elem[Walk[k]]]

\* Every thread sees the queue empty, if nothing is linked and nothing is missing.
IsEmpty == Contents = <<>> /\ \A i \in done : taken[i] > 0

-----------------------------------------------------------------------------
(* Push                                                                    *)

StartPush(t) ==
  LET again == recycle /\ free # <<>>
      node  == IF again THEN Head(free) ELSE used + 1
  IN  /\ At(t, "idle") /\ pushes < MaxPushes /\ pushes' = pushes + 1
      /\ used' = (IF again THEN used ELSE node)
      /\ free' = (IF again THEN Tail(free) ELSE free)
      /\ elem' = [elem EXCEPT ![node] = pushes + 1]
      /\ Goto(t, [Idle EXCEPT !.pc = "setNext", !.node = node, !.elem = pushes + 1])
      /\ UNCHANGED <<next, head, tail, count, recycle, history>>

SetNext(t) ==
  /\ At(t, "setNext") /\ next' = [next EXCEPT ![th[t].node] = End]
  /\ Goto(t, [th[t] EXCEPT !.pc = "readTail"])
  /\ UNCHANGED <<elem, head, tail, count, free, calls, history>>

\* The members of m_Tail are not volatile, so a build may read either first.
ReadTail(t) ==
  /\ At(t, "readTail")
  /\ LET l == th[t].link
     IN  \/ /\ l.seq = Unread
            /\ Goto(t, [th[t] EXCEPT !.link.seq = tail.seq,
                                     !.pc = IF l.node = Null THEN "readTail" ELSE "link"])
         \/ /\ l.node = Null
            /\ Goto(t, [th[t] EXCEPT !.link.node = tail.node,
                                     !.pc = IF l.seq = Unread THEN "readTail" ELSE "link"])
  /\ UNCHANGED <<next, elem, head, tail, count, free, calls, history>>

Link(t) ==
  /\ At(t, "link")
  /\ IF next[th[t].link.node] = End
     THEN /\ next' = [next EXCEPT ![th[t].link.node] = th[t].node]
          /\ Goto(t, [th[t] EXCEPT !.pc = "finish"])
     ELSE UNCHANGED next /\ Goto(t, [th[t] EXCEPT !.pc = "readNext"])
  /\ UNCHANGED <<elem, head, tail, count, free, calls, history>>

\* FinishPush: the tail moves on to a node if it is still what was read.
\* Faulty: it moves on in any case.
FinishPush_Always(node, oldTail) ==
  tail' = [node |-> node, seq |-> oldTail.seq + 1]

FinishPush(node, oldTail) ==
  tail' = IF tail = oldTail THEN [node |-> node, seq |-> oldTail.seq + 1] ELSE tail

ReadNext(t) ==
  /\ At(t, "readNext")
  /\ Goto(t, [th[t] EXCEPT !.pc = "helpPush", !.pNext = next[th[t].link.node]])
  /\ UNCHANGED <<next, elem, head, tail, count, free, calls, history>>

HelpPush(t) ==
  /\ At(t, "helpPush") /\ FinishPush(th[t].pNext, th[t].link)
  /\ Goto(t, [Idle EXCEPT !.pc = "readTail", !.node = th[t].node, !.elem = th[t].elem])
  /\ UNCHANGED <<next, elem, head, count, free, calls, history>>

Finish(t) ==
  /\ At(t, "finish") /\ FinishPush(th[t].node, th[t].link)
  /\ Goto(t, [Idle EXCEPT !.pc = "count", !.elem = th[t].elem])
  /\ UNCHANGED <<next, elem, head, count, free, calls, history>>

Count(t) ==
  /\ At(t, "count") /\ count' = count + 1 /\ Goto(t, Idle)
  /\ done' = done \cup {th[t].elem}
  /\ UNCHANGED <<next, elem, head, tail, free, calls, taken>>

-----------------------------------------------------------------------------
(* Pop                                                                     *)

StartPop(t) ==
  /\ At(t, "idle") /\ Goto(t, [Idle EXCEPT !.pc = "headSeq"])
  /\ UNCHANGED <<next, elem, head, tail, count, free, calls, history>>

ReadHeadSeq(t) ==
  /\ At(t, "headSeq") /\ Goto(t, [th[t] EXCEPT !.pc = "headNode", !.link.seq = head.seq])
  /\ UNCHANGED <<next, elem, head, tail, count, free, calls, history>>

ReadHeadNode(t) ==
  /\ At(t, "headNode") /\ Goto(t, [th[t] EXCEPT !.pc = "tailSeq", !.link.node = head.node])
  /\ UNCHANGED <<next, elem, head, tail, count, free, calls, history>>

ReadTailSeq(t) ==
  /\ At(t, "tailSeq") /\ Goto(t, [th[t] EXCEPT !.pc = "next", !.tailSeq = tail.seq])
  /\ UNCHANGED <<next, elem, head, tail, count, free, calls, history>>

ReadHeadNext(t) ==
  /\ At(t, "next")
  /\ Goto(t, [th[t] EXCEPT !.pc = "recheck", !.pNext = next[th[t].link.node]])
  /\ UNCHANGED <<next, elem, head, tail, count, free, calls, history>>

Again == [Idle EXCEPT !.pc = "headSeq"]

Recheck(t) ==
  /\ At(t, "recheck")
  /\ Goto(t, IF th[t].pNext = Null \/ th[t].link.seq # head.seq THEN Again
             ELSE [th[t] EXCEPT !.pc = "compare"])
  /\ UNCHANGED <<next, elem, head, tail, count, free, calls, history>>

\* Faulty: a lagging tail counts as empty; is waited for; is not looked at.
Compare_NoHelp(l) ==
  IF l.link.node = tail.node THEN Idle
  ELSE IF l.pNext = End THEN Again ELSE [l EXCEPT !.pc = "readElem"]
Compare_Waits(l) ==
  IF l.pNext = End THEN (IF l.link.node = tail.node THEN Idle ELSE Again)
  ELSE IF l.link.node = tail.node THEN Again ELSE [l EXCEPT !.pc = "readElem"]
Compare_Never(l) == IF l.pNext = End THEN Idle ELSE [l EXCEPT !.pc = "readElem"]

\* NULL if the queue is empty; a lagging tail is helped along first.
Compare(l) ==
  IF l.link.node = tail.node
  THEN IF l.pNext = End THEN Idle
       ELSE [l EXCEPT !.pc = "helpPop", !.link.seq = l.tailSeq]
  ELSE IF l.pNext = End THEN Again ELSE [l EXCEPT !.pc = "readElem"]

CompareTail(t) ==
  /\ At(t, "compare") /\ Goto(t, Compare(th[t]))
  /\ UNCHANGED <<next, elem, head, tail, count, free, calls, history>>

HelpPop(t) ==
  /\ At(t, "helpPop") /\ FinishPush(th[t].pNext, th[t].link) /\ Goto(t, Again)
  /\ UNCHANGED <<next, elem, head, count, free, calls, history>>

ReadElem(t) ==
  /\ At(t, "readElem")
  /\ Goto(t, [th[t] EXCEPT !.pc = "takeHead", !.elem = elem[th[t].pNext]])
  /\ UNCHANGED <<next, elem, head, tail, count, free, calls, history>>

\* Faulty: the sequence number is not compared.
HeadIs_NodeOnly(link) == head.node = link.node
HeadIs(link) == head = link

TakeHead(t) ==
  /\ At(t, "takeHead")
  /\ IF HeadIs(th[t].link)
     THEN /\ head' = [node |-> th[t].pNext, seq |-> th[t].link.seq + 1]
          /\ taken' = [taken EXCEPT ![th[t].elem] = @ + 1]
          /\ Goto(t, [Idle EXCEPT !.pc = "uncount", !.node = th[t].link.node,
                                  !.elem = th[t].elem])
     ELSE Goto(t, Again) /\ UNCHANGED <<head, taken>>
  /\ UNCHANGED <<next, elem, tail, count, free, calls, done>>

Uncount(t) ==
  /\ At(t, "uncount") /\ count' = count - 1 /\ Goto(t, [th[t] EXCEPT !.pc = "giveBack"])
  /\ UNCHANGED <<next, elem, head, tail, free, calls, history>>

\* The item goes back in the node that was unlinked, and PopItem, when it has
\* copied it, puts the node in the free list.
GiveBack(t) ==
  /\ At(t, "giveBack") /\ Goto(t, Idle)
  /\ elem' = [elem EXCEPT ![th[t].node] = th[t].elem]
  /\ IF recycle
     THEN /\ next' = [next EXCEPT ![th[t].node] = IF free = <<>> THEN Null ELSE Head(free)]
          /\ free' = <<th[t].node>> \o free
     ELSE UNCHANGED <<next, free>>
  /\ UNCHANGED <<head, tail, count, calls, history>>

-----------------------------------------------------------------------------
Init ==
  /\ next = [n \in Nodes |-> IF n = 1 THEN End ELSE Null] /\ elem = [n \in Nodes |-> Null]
  /\ head = [node |-> 1, seq |-> 0] /\ tail = head
  /\ count = 0 /\ free = <<>> /\ used = 1 /\ pushes = 0
  /\ th = [t \in Threads |-> Idle] /\ recycle \in Modes
  /\ empty = {} /\ done = {} /\ taken = [i \in Null..MaxPushes |-> 0]

PushStep(t) ==
  \/ SetNext(t) \/ ReadTail(t) \/ Link(t) \/ ReadNext(t) \/ HelpPush(t)
  \/ Finish(t) \/ Count(t)
PopStep(t) ==
  \/ ReadHeadSeq(t) \/ ReadHeadNode(t) \/ ReadTailSeq(t) \/ ReadHeadNext(t) \/ Recheck(t)
  \/ CompareTail(t) \/ HelpPop(t) \/ ReadElem(t) \/ TakeHead(t) \/ Uncount(t) \/ GiveBack(t)

Popping(t) == th[t].pc \in PopPcs
Watched == empty' = {t \in Threads : Popping(t)' /\ (t \in empty \/ IsEmpty')}

Step(t) == (PushStep(t) \/ PopStep(t)) /\ Watched
Call(t) == (StartPush(t) \/ StartPop(t)) /\ Watched
Next == \E t \in Threads : Step(t) \/ Call(t)

Spec == Init /\ [][Next]_vars

-----------------------------------------------------------------------------
(* Properties                                                              *)

TypeOK ==
  /\ next \in [Nodes -> Pointers] /\ elem \in [Nodes -> Null..MaxPushes]
  /\ head \in [node: Nodes, seq: 0..MaxPushes] /\ tail \in [node: Nodes, seq: 0..MaxPushes]
  /\ count \in Int /\ free \in Seq(Nodes) /\ used \in Nodes /\ pushes \in 0..MaxPushes
  /\ th \in [Threads -> ThreadType] /\ recycle \in BOOLEAN
  /\ empty \subseteq Threads /\ done \subseteq Items /\ taken \in [Null..MaxPushes -> Nat]

\* Push and Pop are a first-in first-out queue: with nodes that are not used again
\* the threads see what FifoQueue promises.  (With recycled nodes they do not, and
\* the abstract queue stands still.)
Fifo ==
  INSTANCE FifoQueue WITH
    None   <- Null,
    queue  <- IF recycle THEN <<>> ELSE Contents,
    asking <- IF recycle THEN {} ELSE {t \in Threads : Popping(t)},
    empty  <- IF recycle THEN {} ELSE empty,
    taken  <- [t \in Threads |-> IF ~recycle /\ th[t].pc \in GotPcs THEN th[t].elem ELSE Null]
ImplementsFifo == Fifo!Spec

\* When no thread is in the queue, every item pushed is in it or was taken, once,
\* and Count is the number of those in it.
Conserved ==
  (\A t \in Threads : At(t, "idle")) =>
    /\ \A i \in 1..pushes :
         taken[i] + Cardinality({k \in DOMAIN Contents : Contents[k] = i}) = 1
    /\ count = Len(Contents)

Private(t) ==
  IF th[t].pc \in {"setNext", "readTail", "link", "readNext", "helpPush"} \cup GotPcs
  THEN {th[t].node} ELSE {}
Freed == {free[k] : k \in DOMAIN free}

\* A node is in one place: in the queue, in the free list or with one thread.
NodesApart ==
  /\ InQueue \cap Freed = {} /\ Cardinality(Freed) = Len(free)
  /\ \A t \in Threads : Private(t) \cap (InQueue \cup Freed) = {}
  /\ \A t, u \in Threads : t # u => Private(t) \cap Private(u) = {}

\* The tail is in the queue, so the head never passes it (Pop: "condition below
\* ensures pNext is valid"), and with Push it lags by one node at most.
TailInQueue ==
  /\ tail.node \in InQueue
  /\ ~recycle /\ next[tail.node] # End => next[next[tail.node]] = End

\* The queue is lock free: an operation of a thread returns though the other
\* threads stop wherever they are (the pushes in all being bounded).
NonBlocking ==
  \A t \in Threads : WF_vars(Step(t)) => (~At(t, "idle") ~> At(t, "idle"))

\* "Lock free queue" for PushItem and PopItem too: a pop that finds the queue empty
\* is right, at some moment since its call all items pushed had been taken.
EmptyAnswers ==
  [][\A t \in Threads : At(t, "compare") /\ At(t, "idle")' => t \in empty]_vars

=============================================================================
