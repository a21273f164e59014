------------------------- MODULE TSQueueFifo_proofs -------------------------
(***************************************************************************)
(* TSQueue implements FifoQueue: every step of a thread is a step of the   *)
(* abstract queue or leaves it as it is.  An item enters when its node is  *)
(* linked and leaves when the head moves past the dummy before it.         *)
(***************************************************************************)
EXTENDS TSQueue_proofs

\* Contents lists the items by the places of their nodes.
Listed == \A root, pos : Good(root, pos) =>
  /\ Contents \in Seq(Items) /\ head.seq \in Nat
  /\ \A n \in Queue(root) : pos[n] \in Nat
  /\ \A n \in Queue(root), k \in Int : n # head.node /\ pos[n] = head.seq + k =>
       k \in 1..Len(Contents) /\ Contents[k] = elem[n]
  /\ \A k \in 1..Len(Contents) :
       \E n \in Queue(root) : n # head.node /\ pos[n] = head.seq + k

LEMMA ListedHolds == Listed
<1> SUFFICES ASSUME NEW root, NEW pos, Good(root, pos)
             PROVE  /\ Contents \in Seq(Items) /\ head.seq \in Nat
                    /\ \A n \in Queue(root) : pos[n] \in Nat
                    /\ \A n \in Queue(root), k \in Int : n # head.node /\ pos[n] = head.seq + k =>
                         k \in 1..Len(Contents) /\ Contents[k] = elem[n]
                    /\ \A k \in 1..Len(Contents) :
                         \E n \in Queue(root) : n # head.node /\ pos[n] = head.seq + k
  BY DEF Listed
<1>1. PICK e \in Nodes : root[e] = Null /\ next[e] = End
  BY Last
<1>2. /\ Contents \in Seq(Items) /\ Len(Contents) = pos[e] - head.seq
      /\ \A k \in 1..(pos[e] - head.seq) :
           /\ Contents[k] = elem[Walk[k]] /\ Walk[k] \in Queue(root) /\ Walk[k] # head.node
           /\ pos[Walk[k]] = head.seq + k
      /\ \A n \in Queue(root) : n # head.node =>
           pos[n] - head.seq \in 1..(pos[e] - head.seq) /\ Walk[pos[n] - head.seq] = n
  BY <1>1, ItemsIn
<1>3. head.seq \in Nat /\ \A n \in Queue(root) : pos[n] \in Nat
  BY DEF Good, TypeOK, Order, Queue
<1>4. ASSUME NEW n \in Queue(root), NEW k \in Int, n # head.node, pos[n] = head.seq + k
      PROVE  k \in 1..Len(Contents) /\ Contents[k] = elem[n]
  <2>1. pos[n] - head.seq = k
    BY <1>3, <1>4
  <2>2. k \in 1..(pos[e] - head.seq) /\ Walk[k] = n
    BY <1>2, <1>4, <2>1
  <2> QED BY <1>2, <2>2
<1> QED BY <1>2, <1>3, <1>4

LEMMA ListedNext == Listed'
BY ListedHolds, PTL

\* The queue is empty, to the threads, if no item is in it.
EmptyIs == Inv /\ ~ recycle => (IsEmpty <=> Contents = <<>>)

LEMMA EmptyIsHolds == EmptyIs
<1> SUFFICES ASSUME NEW root, NEW pos, Good(root, pos), ~ recycle, Contents = <<>>
             PROVE  \A i \in done : taken[i] > 0
  BY DEF EmptyIs, Inv, IsEmpty
<1>1. ASSUME NEW i \in done PROVE taken[i] > 0
  <2>1. taken \in [Null..MaxPushes -> Nat] /\ i \in Null..MaxPushes
    <3>1. taken \in [Null..MaxPushes -> Nat] /\ done \subseteq 1..MaxPushes
      BY DEF Good, TypeOK, Items
    <3> QED BY <3>1, Sets
  <2>2. ASSUME taken[i] = 0 PROVE FALSE
    <3>1. PICK n \in Queue(root) : n # head.node /\ elem[n] = i
      BY <2>2, PushedIn
    <3>2. pos[n] - head.seq \in Int /\ pos[n] = head.seq + (pos[n] - head.seq)
      BY ListedHolds DEF Listed
    <3>3. pos[n] - head.seq \in 1..Len(Contents)
      BY <3>1, <3>2, ListedHolds DEF Listed
    <3> QED BY <3>3
  <2> QED BY <2>1, <2>2
<1> QED BY <1>1

LEMMA EmptyIsNext == EmptyIs'
BY EmptyIsHolds, PTL

\* Two sequences are equal, if each holds what the other does.
LEMMA Same ==
  ASSUME NEW S, NEW s \in Seq(S), NEW r \in Seq(S),
         \A k \in 1..Len(s) : k \in 1..Len(r) /\ r[k] = s[k],
         \A k \in 1..Len(r) : k \in 1..Len(s)
  PROVE  r = s
<1>1. Len(s) \in Nat /\ Len(r) \in Nat
  BY LenProperties
<1>2. Len(s) <= Len(r)
  <2>1. Len(s) > 0 => Len(s) \in 1..Len(s)
    BY <1>1
  <2> QED BY <1>1, <2>1
<1>3. Len(r) <= Len(s)
  <2>1. Len(r) > 0 => Len(r) \in 1..Len(r)
    BY <1>1
  <2> QED BY <1>1, <2>1
<1>4. Len(s) = Len(r)
  BY <1>1, <1>2, <1>3
<1> QED BY <1>4, SeqEqual

-----------------------------------------------------------------------------
(* What the steps do to the contents                                       *)

\* A step that moves no node of the queue keeps its contents,
LEMMA Kept ==
  ASSUME NEW root, NEW pos, NEW root2, NEW pos2, Good(root, pos), Good(root2, pos2)', head' = head,
         Queue(root2) = Queue(root),
         \A n \in Queue(root) : pos2[n] = pos[n] /\ elem'[n] = elem[n]
  PROVE  Contents' = Contents
<1>1. /\ Contents \in Seq(Items)
      /\ \A n \in Queue(root), k \in Int : n # head.node /\ pos[n] = head.seq + k =>
           k \in 1..Len(Contents) /\ Contents[k] = elem[n]
      /\ \A k \in 1..Len(Contents) :
           \E n \in Queue(root) : n # head.node /\ pos[n] = head.seq + k
  BY ListedHolds DEF Listed
<1>2. /\ Contents' \in Seq(Items)
      /\ \A n \in Queue(root), k \in Int : n # head.node /\ pos[n] = head.seq + k =>
           k \in 1..Len(Contents') /\ Contents'[k] = elem[n]
      /\ \A k \in 1..Len(Contents') :
           \E n \in Queue(root) : n # head.node /\ pos[n] = head.seq + k
  BY ListedNext DEF Listed
<1>3. \A k \in 1..Len(Contents) : k \in 1..Len(Contents') /\ Contents'[k] = Contents[k]
  BY <1>1, <1>2
<1>4. \A k \in 1..Len(Contents') : k \in 1..Len(Contents)
  BY <1>1, <1>2
<1> QED BY <1>1, <1>2, <1>3, <1>4, Same

\* a list hooked to the end adds the item of its node,
LEMMA Appended ==
  ASSUME NEW root, NEW pos, NEW root2, NEW pos2, NEW t \in Threads, Good(root, pos),
         Good(root2, pos2)', Joined(t, root, pos, root2, pos2), next[th[t].link.node] = End,
         head' = head, elem' = elem
  PROVE  Contents' = Append(Contents, elem[th[t].node]) /\ elem[th[t].node] \in Items
<1>0. PICK n, z : n = th[t].node /\ z = th[t].link.node
  OBVIOUS
<1>1. /\ Contents \in Seq(Items) /\ head.seq \in Nat
      /\ \A m \in Queue(root), k \in Int : m # head.node /\ pos[m] = head.seq + k =>
           k \in 1..Len(Contents) /\ Contents[k] = elem[m]
      /\ \A k \in 1..Len(Contents) :
           \E m \in Queue(root) : m # head.node /\ pos[m] = head.seq + k
  BY ListedHolds DEF Listed
<1>2. /\ Contents' \in Seq(Items)
      /\ \A m \in Queue(root2), k \in Int : m # head.node /\ pos2[m] = head.seq + k =>
           k \in 1..Len(Contents') /\ Contents'[k] = elem[m]
      /\ \A k \in 1..Len(Contents') :
           \E m \in Queue(root2) : m # head.node /\ pos2[m] = head.seq + k
  BY ListedNext DEF Listed
<1>3. /\ z \in Queue(root) /\ n \in Nodes \ Queue(root) /\ Queue(root2) = Queue(root) \cup {n}
      /\ pos2[n] = pos[z] + 1 /\ next[z] = End
      /\ \A m \in Queue(root) : pos2[m] = pos[m]
  BY <1>0 DEF Joined
<1>4. Len(Contents) \in Nat /\ pos2[n] = head.seq + (Len(Contents) + 1)
  <2>1. Len(Contents) = pos[z] - head.seq /\ pos[z] - head.seq \in Nat
    BY <1>3, ItemsIn DEF Queue
  <2>2. pos[z] \in Nat
    BY <1>3, ListedHolds DEF Listed
  <2> QED BY <2>1, <2>2, <1>1, <1>3
<1>5. n # head.node
  BY <1>3 DEF Good, Ends, TypeOK, Queue
<1>6. Len(Contents) + 1 \in 1..Len(Contents') /\ Contents'[Len(Contents) + 1] = elem[n]
  BY <1>2, <1>3, <1>4, <1>5
<1>7. elem[n] \in Items
  <2>1. Contents'[Len(Contents) + 1] \in Items
    BY <1>2, <1>6, ElementOfSeq
  <2> QED BY <2>1, <1>6
<1>8. PICK s \in Seq(Items) : s = Append(Contents, elem[n])
  BY <1>1, <1>7, AppendProperties
<1>9. /\ Len(s) = Len(Contents) + 1 /\ s[Len(Contents) + 1] = elem[n]
      /\ \A k \in 1..Len(Contents) : s[k] = Contents[k]
  BY <1>1, <1>7, <1>8
<1>10. \A k \in 1..Len(s) : k \in 1..Len(Contents) \/ k = Len(Contents) + 1
  BY <1>4, <1>9
<1>11. \A k \in 1..Len(Contents) : k \in 1..Len(Contents') /\ Contents'[k] = Contents[k]
  BY <1>1, <1>2, <1>3
<1>12. \A k \in 1..Len(s) : k \in 1..Len(Contents') /\ Contents'[k] = s[k]
  BY <1>6, <1>9, <1>10, <1>11
<1>13. ASSUME NEW k \in 1..Len(Contents') PROVE k \in 1..Len(s)
  <2>1. PICK m \in Queue(root2) : m # head.node /\ pos2[m] = head.seq + k
    BY <1>2
  <2>2. CASE m = n
    <3>1. head.seq + k = head.seq + (Len(Contents) + 1)
      BY <2>1, <2>2, <1>4
    <3>2. k = Len(Contents) + 1
      BY <3>1, <1>1, <1>4
    <3> QED BY <3>2, <1>4, <1>9
  <2>3. CASE m # n
    <3>1. k \in 1..Len(Contents)
      BY <2>1, <2>3, <1>1, <1>3
    <3> QED BY <3>1, <1>4, <1>9
  <2> QED BY <2>2, <2>3
<1>14. Contents' = s
  BY <1>2, <1>8, <1>12, <1>13, Same
<1> QED BY <1>0, <1>7, <1>8, <1>14

\* and the head, when it moves, takes the first item away.
LEMMA Removed ==
  ASSUME NEW root, NEW pos, NEW root2, Good(root, pos), Good(root2, pos)',
         Queue(root2) = Queue(root) \ {head.node}, head'.seq = head.seq + 1, elem' = elem
  PROVE  Contents # <<>> /\ elem[head'.node] = Head(Contents) /\ Contents' = Tail(Contents)
<1>0. PICK n : n = head'.node
  OBVIOUS
<1>1. /\ Contents \in Seq(Items) /\ head.seq \in Nat
      /\ \A m \in Queue(root), k \in Int : m # head.node /\ pos[m] = head.seq + k =>
           k \in 1..Len(Contents) /\ Contents[k] = elem[m]
      /\ \A k \in 1..Len(Contents) :
           \E m \in Queue(root) : m # head.node /\ pos[m] = head.seq + k
  BY ListedHolds DEF Listed
<1>2. /\ Contents' \in Seq(Items)
      /\ \A m \in Queue(root2), k \in Int : m # n /\ pos[m] = (head.seq + 1) + k =>
           k \in 1..Len(Contents') /\ Contents'[k] = elem[m]
      /\ \A k \in 1..Len(Contents') :
           \E m \in Queue(root2) : m # n /\ pos[m] = (head.seq + 1) + k
  BY <1>0, ListedNext DEF Listed
<1>3. n \in Queue(root2) /\ n \in Queue(root) /\ n # head.node /\ pos[n] = head.seq + 1
  <2>1. n \in Queue(root2) /\ pos[n] = head.seq + 1
    BY <1>0 DEF Good, TypeOK, Ends, Order, Queue
  <2> QED BY <2>1
<1>4. 1 \in 1..Len(Contents) /\ Contents[1] = elem[n]
  BY <1>1, <1>3
<1>5. Contents # <<>> /\ Head(Contents) = elem[n]
  BY <1>1, <1>4
<1>6. PICK s \in Seq(Items) : s = Tail(Contents)
  BY <1>1, <1>5, HeadTailProperties
<1>7. /\ Len(Contents) \in Nat /\ Len(s) = Len(Contents) - 1
      /\ \A k \in 1..Len(s) : k + 1 \in 1..Len(Contents) /\ s[k] = Contents[k + 1]
  BY <1>1, <1>5, <1>6
<1>8. ASSUME NEW k \in Int PROVE (head.seq + 1) + k = head.seq + (k + 1) /\ k + 1 \in Int
  <2>1. head.seq \in Int
    BY <1>1
  <2> QED BY <2>1
<1>9. ASSUME NEW k \in 1..Len(s) PROVE k \in 1..Len(Contents') /\ Contents'[k] = s[k]
  <2>0. k \in Int /\ (head.seq + 1) + k = head.seq + (k + 1) /\ k + 1 \in Int
    BY <1>8
  <2>1. PICK m \in Queue(root) : m # head.node /\ pos[m] = head.seq + (k + 1)
    BY <1>1, <1>7
  <2>2. m # n
    BY <2>1, <1>1, <1>3
  <2>3. Contents[k + 1] = elem[m]
    BY <2>0, <2>1, <1>1
  <2>4. m \in Queue(root2) /\ pos[m] = (head.seq + 1) + k
    BY <2>0, <2>1
  <2> QED BY <2>2, <2>3, <2>4, <1>2, <1>7
<1>10. ASSUME NEW k \in 1..Len(Contents') PROVE k \in 1..Len(s)
  <2>0. k \in Int /\ (head.seq + 1) + k = head.seq + (k + 1) /\ k + 1 \in Int
    BY <1>8
  <2>1. PICK m \in Queue(root2) : m # n /\ pos[m] = (head.seq + 1) + k
    BY <1>2
  <2>2. m \in Queue(root) /\ m # head.node /\ pos[m] = head.seq + (k + 1)
    BY <2>0, <2>1
  <2>3. k + 1 \in 1..Len(Contents)
    BY <2>0, <2>2, <1>1
  <2> QED BY <2>3, <1>7
<1>11. Contents' = s
  BY <1>2, <1>6, <1>9, <1>10, Same
<1> QED BY <1>0, <1>5, <1>6, <1>11

-----------------------------------------------------------------------------
(* Where the steps lead                                                    *)

\* A step of Push changes nothing that the abstract queue sees of the threads.
LEMMA PushPlaces ==
  ASSUME TypeOK, NEW t \in Threads, PushStep(t) \/ StartPush(t)
  PROVE  Others(t) /\ th[t].pc \notin PopPcs \cup GotPcs /\ th'[t].pc \notin PopPcs \cup GotPcs
<1> USE DEF PopPcs, GotPcs, At, Goto, Others
<1>1. th \in [Threads -> ThreadType] /\ th[t] \in ThreadType
  BY DEF TypeOK
<1>2. CASE StartPush(t)
  BY <1>1, <1>2 DEF StartPush, Idle
<1>3. CASE SetNext(t)
  BY <1>1, <1>3 DEF SetNext, ThreadType
<1>4. CASE ReadTail(t)
  <2>1. th[t].pc = "readTail"
    BY <1>4 DEF ReadTail
  <2>2. PICK p \in {"readTail", "link"} :
          \/ Goto(t, [th[t] EXCEPT !.link.seq = tail.seq, !.pc = p])
          \/ Goto(t, [th[t] EXCEPT !.link.node = tail.node, !.pc = p])
    BY <1>4 DEF ReadTail
  <2>3. CASE Goto(t, [th[t] EXCEPT !.link.seq = tail.seq, !.pc = p])
    BY <1>1, <2>1, <2>3 DEF ThreadType
  <2>4. CASE Goto(t, [th[t] EXCEPT !.link.node = tail.node, !.pc = p])
    BY <1>1, <2>1, <2>4 DEF ThreadType
  <2> QED BY <2>2, <2>3, <2>4
<1>5. CASE Link(t)
  BY <1>1, <1>5 DEF Link, ThreadType
<1>6. CASE ReadNext(t)
  BY <1>1, <1>6 DEF ReadNext, ThreadType
<1>7. CASE HelpPush(t)
  BY <1>1, <1>7 DEF HelpPush, Idle
<1>8. CASE Finish(t)
  BY <1>1, <1>8 DEF Finish, Idle
<1>9. CASE Count(t)
  BY <1>1, <1>9 DEF Count, Idle
<1> QED BY <1>2, <1>3, <1>4, <1>5, <1>6, <1>7, <1>8, <1>9 DEF PushStep

\* These steps of Pop leave the thread in Pop, without an item.
LEMMA PopPlaces ==
  ASSUME TypeOK, NEW t \in Threads,
         \/ ReadHeadSeq(t) \/ ReadHeadNode(t) \/ ReadTailSeq(t) \/ ReadHeadNext(t)
         \/ Recheck(t) \/ HelpPop(t) \/ ReadElem(t) \/ (TakeHead(t) /\ ~ HeadIs(th[t].link))
  PROVE  Others(t) /\ th[t].pc \in PopPcs /\ th'[t].pc \in PopPcs
<1> USE DEF PopPcs, At, Goto, Others
<1>1. th \in [Threads -> ThreadType] /\ th[t] \in ThreadType
  BY DEF TypeOK
<1>2. CASE ReadHeadSeq(t)
  BY <1>1, <1>2 DEF ReadHeadSeq, ThreadType
<1>3. CASE ReadHeadNode(t)
  BY <1>1, <1>3 DEF ReadHeadNode, ThreadType
<1>4. CASE ReadTailSeq(t)
  BY <1>1, <1>4 DEF ReadTailSeq, ThreadType
<1>5. CASE ReadHeadNext(t)
  BY <1>1, <1>5 DEF ReadHeadNext, ThreadType
<1>6. CASE Recheck(t)
  BY <1>1, <1>6, Empty DEF Recheck, ThreadType
<1>7. CASE HelpPop(t)
  BY <1>1, <1>7, Empty DEF HelpPop
<1>8. CASE ReadElem(t)
  BY <1>1, <1>8 DEF ReadElem, ThreadType
<1>9. CASE TakeHead(t) /\ ~ HeadIs(th[t].link)
  BY <1>1, <1>9, Empty DEF TakeHead
<1> QED BY <1>2, <1>3, <1>4, <1>5, <1>6, <1>7, <1>8, <1>9

-----------------------------------------------------------------------------
(* The steps of the abstract queue                                         *)

\* Both queues remember in the same way for whom they have been empty.
LEMMA FifoWatched ==
  ASSUME Inv, Inv', ~ recycle, recycle' = recycle, Watched
  PROVE  Fifo!Watched
<1>1. IsEmpty' <=> Contents' = <<>>
  BY EmptyIsNext DEF EmptyIs
<1> QED BY <1>1 DEF Watched, Fifo!Watched

\* The abstract queue does not see the step.
LEMMA FifoStutters ==
  ASSUME NEW root, NEW pos, Good(root, pos), Inv', ~ recycle, recycle' = recycle,
         NEW t \in Threads, Others(t), Watched, Contents' = Contents,
         Popping(t)' <=> Popping(t), th'[t].pc \in GotPcs <=> th[t].pc \in GotPcs,
         th[t].pc \in GotPcs => th'[t].elem = th[t].elem
  PROVE  UNCHANGED Fifo!vars
<1>1. IsEmpty' <=> IsEmpty
  BY EmptyIsHolds, EmptyIsNext DEF EmptyIs, Inv
<1>2. \A u \in Threads : /\ Popping(u)' <=> Popping(u)
                         /\ th'[u].pc \in GotPcs <=> th[u].pc \in GotPcs
                         /\ th[u].pc \in GotPcs => th'[u].elem = th[u].elem
  BY DEF Others, Popping
<1>3. empty' = empty
  <2>1. empty \subseteq Threads /\ (\A u \in empty : Popping(u))
        /\ \A u \in Threads : Popping(u) /\ IsEmpty => u \in empty
    BY DEF Good, TypeOK, Asked
  <2> QED BY <2>1, <1>1, <1>2 DEF Watched
<1>4. {u \in Threads : Popping(u)}' = {u \in Threads : Popping(u)}
  BY <1>2
<1>5. [u \in Threads |-> IF ~recycle /\ th[u].pc \in GotPcs THEN th[u].elem ELSE Null]'
        = [u \in Threads |-> IF ~recycle /\ th[u].pc \in GotPcs THEN th[u].elem ELSE Null]
  BY <1>2
<1> QED BY <1>3, <1>4, <1>5 DEF Fifo!vars

\* A push is the moment in which its node is linked.
LEMMA PushFifo ==
  ASSUME NEW root, NEW pos, Good(root, pos), Inv', ~ recycle, NEW t \in Threads,
         PushStep(t) \/ StartPush(t), Watched
  PROVE  [Fifo!Next]_(Fifo!vars)
<1>1. TypeOK /\ Inv
  BY DEF Good, Inv
<1>2. Others(t) /\ th[t].pc \notin PopPcs \cup GotPcs /\ th'[t].pc \notin PopPcs \cup GotPcs
  BY <1>1, PushPlaces
<1>3. recycle' = recycle /\ head' = head
  BY DEF PushStep, StartPush, SetNext, ReadTail, Link, ReadNext, HelpPush, Finish, Count, calls
<1>4. Contents' = Contents => UNCHANGED Fifo!vars
  BY <1>2, <1>3, FifoStutters DEF Popping
<1>5. CASE StartPush(t)
  <2>1. Good(root, pos)'
    BY <1>5, StartPushGood
  <2>2. elem' = [elem EXCEPT ![used + 1] = pushes + 1]
    BY <1>5 DEF StartPush
  <2>3. \A n \in Queue(root) : n # used + 1
    <3>1. \A n \in Nodes : n > used => root[n] = n
      BY DEF Good, Own
    <3>2. used \in Nat /\ used + 1 > used
      BY <1>1, Sets DEF TypeOK
    <3> QED BY <3>1, <3>2, Sets DEF Queue
  <2>4. \A n \in Queue(root) : elem'[n] = elem[n]
    BY <1>1, <2>2, <2>3 DEF Queue, TypeOK
  <2> QED BY <1>3, <1>4, <2>1, <2>4, Kept
<1>6. CASE SetNext(t)
  <2>1. PICK pos2 : Good(root, pos2)' /\ \A n \in Queue(root) : pos2[n] = pos[n]
    BY <1>6, SetNextGood
  <2>2. elem' = elem
    BY <1>6 DEF SetNext
  <2> QED BY <1>3, <1>4, <2>1, <2>2, Kept
<1>7. CASE Link(t) /\ next[th[t].link.node] = End
  <2>1. PICK root2, pos2 : Good(root2, pos2)' /\ Joined(t, root, pos, root2, pos2)
    BY <1>7, LinkSucceeds
  <2>2. elem' = elem
    BY <1>7 DEF Link
  <2>3. PICK i : i = elem[th[t].node]
    OBVIOUS
  <2>4. Contents' = Append(Contents, i) /\ i \in Items
    BY <1>3, <1>7, <2>1, <2>2, <2>3, Appended
  <2>5. Fifo!Watched
    BY <1>1, <1>3, FifoWatched
  <2>6. {u \in Threads : Popping(u)}' = {u \in Threads : Popping(u)}
    BY <1>2 DEF Others, Popping
  <2>7. [u \in Threads |-> IF ~recycle /\ th[u].pc \in GotPcs THEN th[u].elem ELSE Null]'
          = [u \in Threads |-> IF ~recycle /\ th[u].pc \in GotPcs THEN th[u].elem ELSE Null]
    BY <1>2, <1>3 DEF Others
  <2>8. Fifo!Enqueue(i)
    BY <1>3, <2>4, <2>5, <2>6, <2>7 DEF Fifo!Enqueue
  <2> QED BY <2>4, <2>8 DEF Fifo!Next
<1>8. CASE ReadTail(t) \/ (Link(t) /\ next[th[t].link.node] # End) \/ ReadNext(t) \/ HelpPush(t)
           \/ Finish(t) \/ Count(t)
  <2>1. Good(root, pos)'
    BY <1>8, ReadTailGood, LinkFails, ReadNextGood, HelpPushGood, FinishGood, CountGood
  <2>2. elem' = elem
    BY <1>8 DEF ReadTail, Link, ReadNext, HelpPush, Finish, Count
  <2> QED BY <1>3, <1>4, <2>1, <2>2, Kept
<1> QED BY <1>5, <1>6, <1>7, <1>8 DEF PushStep

\* A pop asks, is answered when the head moves or the queue is found empty, and returns.
LEMMA PopFifo ==
  ASSUME NEW root, NEW pos, Good(root, pos), Inv', ~ recycle, NEW t \in Threads,
         PopStep(t) \/ StartPop(t), Watched
  PROVE  [Fifo!Next]_(Fifo!vars)
<1> DEFINE Asking == {u \in Threads : Popping(u)}
           Got == [u \in Threads |-> IF ~recycle /\ th[u].pc \in GotPcs THEN th[u].elem ELSE Null]
<1>1. TypeOK /\ Inv /\ th \in [Threads -> ThreadType] /\ th[t] \in ThreadType /\ PopOK(t, root, th[t])
  BY Facts DEF Good, Inv
<1>2. recycle' = recycle
  BY DEF PopStep, StartPop, ReadHeadSeq, ReadHeadNode, ReadTailSeq, ReadHeadNext, Recheck, CompareTail,
         HelpPop, ReadElem, TakeHead, Uncount, GiveBack, calls
<1>3. Fifo!Watched
  BY <1>1, <1>2, FifoWatched
<1>4. ASSUME Good(root, pos)', head' = head, \A n \in Queue(root) : elem'[n] = elem[n]
      PROVE  Contents' = Contents
  BY <1>4, Kept
<1>5. ASSUME Others(t), th[t].pc \in PopPcs, th'[t].pc \in PopPcs, Contents' = Contents
      PROVE  UNCHANGED Fifo!vars
  BY <1>2, <1>5, FifoStutters DEF Popping, PopPcs, GotPcs
<1>6. CASE StartPop(t)
  <2>1. Good(root, pos)' /\ head' = head /\ elem' = elem
    BY <1>6, StartPopGood DEF StartPop
  <2>2. Others(t) /\ th[t].pc = "idle" /\ th'[t].pc = "headSeq"
    BY <1>1, <1>6, Empty DEF StartPop, At, Goto, Others, Again
  <2>3. ~ Popping(t) /\ Popping(t)' /\ th[t].pc \notin GotPcs /\ th'[t].pc \notin GotPcs
    BY <2>2 DEF Popping, PopPcs, GotPcs
  <2>4. Asking' = Asking \cup {t} /\ t \notin Asking
    BY <2>2, <2>3 DEF Others, Popping
  <2>5. Got' = Got /\ Got[t] = Null
    BY <1>2, <2>2, <2>3 DEF Others
  <2>6. Fifo!Ask(t)
    BY <1>2, <1>3, <1>4, <2>1, <2>4, <2>5 DEF Fifo!Ask
  <2> QED BY <2>6 DEF Fifo!Next
<1>7. CASE ReadHeadSeq(t) \/ ReadHeadNode(t) \/ ReadTailSeq(t) \/ ReadHeadNext(t) \/ Recheck(t)
           \/ HelpPop(t) \/ ReadElem(t) \/ (TakeHead(t) /\ ~ HeadIs(th[t].link))
  <2>1. Good(root, pos)'
    BY <1>7, ReadHeadSeqGood, ReadHeadNodeGood, ReadTailSeqGood, ReadHeadNextGood, RecheckGood,
       HelpPopGood, ReadElemGood, TakeFails
  <2>2. head' = head /\ elem' = elem
    BY <1>7 DEF ReadHeadSeq, ReadHeadNode, ReadTailSeq, ReadHeadNext, Recheck, HelpPop, ReadElem, TakeHead
  <2>3. Others(t) /\ th[t].pc \in PopPcs /\ th'[t].pc \in PopPcs
    BY <1>1, <1>7, PopPlaces
  <2> QED BY <1>4, <1>5, <2>1, <2>2, <2>3
<1>8. CASE CompareTail(t)
  <2>1. Good(root, pos)' /\ head' = head /\ elem' = elem
    BY <1>8, CompareTailGood DEF CompareTail
  <2>2. th[t].pc = "compare" /\ Goto(t, Compare(th[t]))
    BY <1>8 DEF CompareTail, At
  <2>3. Others(t) /\ th'[t] = Compare(th[t])
    BY <1>1, <2>2 DEF Goto, Others
  <2>4. CASE th[t].link.node = tail.node /\ th[t].pNext = End
    <3>1. th'[t].pc = "idle"
      BY <2>3, <2>4, Empty DEF Compare
    <3>2. t \in empty
      BY <1>1, <2>2, <2>4 DEF PopOK
    <3>3. Asking' = Asking \ {t}
      BY <2>3, <3>1 DEF Others, Popping, PopPcs
    <3>4. Got' = Got
      BY <1>2, <2>2, <2>3, <3>1 DEF Others, GotPcs
    <3>5. Fifo!FindEmpty(t)
      BY <1>2, <1>3, <1>4, <2>1, <3>2, <3>3, <3>4 DEF Fifo!FindEmpty
    <3> QED BY <3>5 DEF Fifo!Next
  <2>5. CASE ~ (th[t].link.node = tail.node /\ th[t].pNext = End)
    <3>1. Compare(th[t]).pc \in {"helpPop", "headSeq", "readElem"}
      BY <1>1, <2>5, Empty DEF Compare, ThreadType
    <3>2. th[t].pc \in PopPcs /\ th'[t].pc \in PopPcs
      BY <2>2, <2>3, <3>1 DEF PopPcs
    <3> QED BY <1>4, <1>5, <2>1, <2>3, <3>2
  <2> QED BY <2>4, <2>5
<1>9. CASE TakeHead(t) /\ HeadIs(th[t].link)
  <2>1. PICK root2 : Good(root2, pos)' /\ Queue(root2) = Queue(root) \ {head.node}
    BY <1>9, TakeSucceeds
  <2>2. /\ th[t].pc = "takeHead" /\ head = th[t].link /\ elem' = elem
        /\ head' = [node |-> th[t].pNext, seq |-> th[t].link.seq + 1]
        /\ Goto(t, [Idle EXCEPT !.pc = "uncount", !.node = th[t].link.node, !.elem = th[t].elem])
    BY <1>9 DEF TakeHead, HeadIs, At
  <2>3. head'.node = th[t].pNext /\ head'.seq = head.seq + 1
    BY <2>2
  <2>4. Contents # <<>> /\ elem[head'.node] = Head(Contents) /\ Contents' = Tail(Contents)
    BY <2>1, <2>2, <2>3, Removed
  <2>5. th[t].elem = Head(Contents)
    BY <1>1, <2>2, <2>3, <2>4 DEF PopOK
  <2>6. Others(t) /\ th'[t].pc = "uncount" /\ th'[t].elem = th[t].elem
    BY <1>1, <2>2, Empty DEF Goto, Others, Idle
  <2>7. Popping(t) /\ ~ Popping(t)' /\ th[t].pc \notin GotPcs /\ th'[t].pc \in GotPcs
    BY <2>2, <2>6 DEF Popping, PopPcs, GotPcs
  <2>8. Asking' = Asking \ {t} /\ t \in Asking
    BY <2>6, <2>7 DEF Others, Popping
  <2>9. Got' = [Got EXCEPT ![t] = Head(Contents)]
    BY <1>2, <2>5, <2>6, <2>7 DEF Others
  <2>10. Fifo!Dequeue(t)
    BY <1>2, <1>3, <2>4, <2>8, <2>9 DEF Fifo!Dequeue
  <2> QED BY <2>10 DEF Fifo!Next
<1>10. CASE Uncount(t)
  <2>1. Good(root, pos)' /\ head' = head /\ elem' = elem
    BY <1>10, UncountGood DEF Uncount
  <2>2. Others(t) /\ th[t].pc = "uncount" /\ th'[t].pc = "giveBack" /\ th'[t].elem = th[t].elem
    BY <1>1, <1>10 DEF Uncount, At, Goto, Others, ThreadType
  <2> QED BY <1>2, <1>4, <2>1, <2>2, FifoStutters DEF Popping, PopPcs, GotPcs
<1>11. CASE GiveBack(t)
  <2>1. Good(root, pos)'
    BY <1>11, GiveBackGood
  <2>2. th[t].pc = "giveBack" /\ head' = head /\ elem' = [elem EXCEPT ![th[t].node] = th[t].elem]
        /\ Goto(t, Idle)
    BY <1>11 DEF GiveBack, At
  <2>3. Others(t) /\ th'[t].pc = "idle"
    BY <1>1, <2>2, Empty DEF Goto, Others
  <2>4. th[t].node \in Nodes /\ root[th[t].node] = th[t].node
    BY <2>2, Holders DEF Holds, HeldPcs, GotPcs
  <2>5. \A n \in Queue(root) : elem'[n] = elem[n]
    BY <1>1, <2>2, <2>4, Sets DEF Queue, TypeOK
  <2>6. th[t].pc \in GotPcs /\ th'[t].pc \notin GotPcs /\ ~ Popping(t) /\ ~ Popping(t)'
    BY <2>2, <2>3 DEF Popping, PopPcs, GotPcs
  <2>7. Asking' = Asking
    BY <2>3, <2>6 DEF Others, Popping
  <2>8. th[t].elem # Null
    BY <1>1, <2>2, Sets DEF PopOK, GotPcs, Items
  <2>9. Got[t] # Null /\ Got' = [Got EXCEPT ![t] = Null]
    BY <1>2, <2>3, <2>6, <2>8 DEF Others
  <2>10. Fifo!Return(t)
    BY <1>2, <1>3, <1>4, <2>1, <2>2, <2>5, <2>7, <2>9 DEF Fifo!Return
  <2> QED BY <2>10 DEF Fifo!Next
<1> QED BY <1>6, <1>7, <1>8, <1>9, <1>10, <1>11 DEF PopStep

-----------------------------------------------------------------------------
(* The refinement                                                          *)

LEMMA FifoInit == Init => Fifo!Init
<1> SUFFICES ASSUME Init PROVE Fifo!Init
  OBVIOUS
<1>1. PICK root, pos : Good(root, pos)
  BY InitGood DEF Inv
<1>2. Contents = <<>>
  <2>1. next[head.node] = End
    BY Sets DEF Init
  <2> QED BY <2>1, <1>1, OneNode
<1>3. \A t \in Threads : th[t].pc = "idle"
  BY Empty DEF Init
<1>4. {t \in Threads : Popping(t)} = {} /\ \A t \in Threads : th[t].pc \notin GotPcs
  BY <1>3 DEF Popping, PopPcs, GotPcs
<1>5. empty = {}
  BY DEF Init
<1> QED BY <1>2, <1>4, <1>5 DEF Fifo!Init

\* Every step is one of the abstract queue, or none. Once nodes are used again the
\* abstract queue stands still.
LEMMA FifoNext == Inv /\ Inv' /\ [Next]_vars => [Fifo!Next]_(Fifo!vars)
<1> SUFFICES ASSUME Inv, Inv', [Next]_vars PROVE [Fifo!Next]_(Fifo!vars)
  OBVIOUS
<1>1. PICK root, pos : Good(root, pos)
  BY DEF Inv
<1>2. recycle' = recycle
  <2>1. ASSUME NEW t \in Threads, PushStep(t) \/ StartPush(t) PROVE recycle' = recycle
    BY <2>1 DEF PushStep, StartPush, SetNext, ReadTail, Link, ReadNext, HelpPush, Finish, Count, calls
  <2>2. ASSUME NEW t \in Threads, PopStep(t) \/ StartPop(t) PROVE recycle' = recycle
    BY <2>2 DEF PopStep, StartPop, ReadHeadSeq, ReadHeadNode, ReadTailSeq, ReadHeadNext, Recheck,
                CompareTail, HelpPop, ReadElem, TakeHead, Uncount, GiveBack, calls
  <2> QED BY <2>1, <2>2 DEF Next, Step, Call, vars, calls
<1>3. CASE recycle
  <2>1. [t \in Threads |-> IF ~recycle /\ th[t].pc \in GotPcs THEN th[t].elem ELSE Null]'
          = [t \in Threads |-> IF ~recycle /\ th[t].pc \in GotPcs THEN th[t].elem ELSE Null]
    BY <1>2, <1>3
  <2> QED BY <1>2, <1>3, <2>1 DEF Fifo!vars
<1>4. ASSUME ~ recycle, NEW t \in Threads, Step(t) \/ Call(t) PROVE [Fifo!Next]_(Fifo!vars)
  <2>1. CASE Watched /\ (PushStep(t) \/ StartPush(t))
    BY <1>1, <1>4, <2>1, PushFifo
  <2>2. CASE Watched /\ (PopStep(t) \/ StartPop(t))
    BY <1>1, <1>4, <2>2, PopFifo
  <2> QED BY <1>4, <2>1, <2>2 DEF Step, Call
<1>5. CASE ~ recycle /\ UNCHANGED vars
  <2>1. /\ next' = next /\ elem' = elem /\ head' = head /\ th' = th /\ empty' = empty /\ recycle' = recycle
    BY <1>5 DEF vars, calls, history
  <2>2. Contents' = Contents
    BY <2>1 DEF Contents, InQueue, Walk
  <2> QED BY <2>1, <2>2 DEF Fifo!vars, Popping
<1> QED BY <1>2, <1>3, <1>4, <1>5 DEF Next

\* With nodes that are not used again, Push and Pop are a queue: each item leaves once,
\* in the order of the links, and a thread that is told the queue is empty has been
\* right at some moment since it called.
THEOREM Refinement == Spec => ImplementsFifo
BY Invariant, FifoInit, FifoNext, PTL DEF Spec, ImplementsFifo, Fifo!Spec
=============================================================================
