--------------------------- MODULE TSQueue_proofs ---------------------------
(***************************************************************************)
(* Proofs about TSQueue, for any threads and any number of pushes, and for *)
(* both interfaces at once.                                                *)
(*                                                                         *)
(* The invariant describes the nodes with the help of two functions that   *)
(* no variable holds, so it says that they exist.  Linked nodes form       *)
(* lists: the queue itself, and, when nodes are used again, lists that     *)
(* hang on a node a thread has yet to link.  root tells in which list a    *)
(* node is (Null: the queue; a node: the list that starts there, or the    *)
(* node by itself), and pos its place there, in the queue the sequence     *)
(* number with which the node is, or will be, the head.                    *)
(***************************************************************************)
EXTENDS TSQueue, FiniteSetTheorems, SequenceTheorems, TLAPS

HoldPcs == {"setNext", "readTail", "link", "readNext", "helpPush"}
RootPcs == HoldPcs \ {"setNext"}
OpenPcs == HoldPcs \cup {"finish", "count"}
HeldPcs == HoldPcs \cup GotPcs
TriedPcs == {"link", "readNext", "helpPush", "finish"}
HeadPcs == PopPcs \ {"headSeq", "headNode", "helpPop"}
NextPcs == {"recheck", "compare", "readElem", "takeHead"}

\* The thread owns its node; a thread is to push the node; lists that exist.
Holds(t) == th[t].pc \in HeldPcs
Pushed(n) == \E t \in Threads : th[t].pc \in HoldPcs /\ th[t].node = n
IsList(c) == c = Null \/ \E t \in Threads : th[t].pc \in RootPcs /\ th[t].node = c
Base(c) == IF c = Null THEN head.seq ELSE 0

\* The node's item is to come into the queue; is in the queue or to come into it.
Pending(root, n) == root[n] # Null /\ (root[n] # n \/ Pushed(n))
Carries(root, n) == Pending(root, n) \/ (root[n] = Null /\ n # head.node)

\* A node out of all lists has one owner: a thread, the free list or nobody yet.
Own(root) ==
  /\ root \in [Nodes -> Null..(MaxPushes + 1)] /\ used <= pushes + 1
  /\ \A t \in Threads : Holds(t) => th[t].node \in 1..used /\ root[th[t].node] = th[t].node
  /\ \A t, u \in Threads : Holds(t) /\ Holds(u) /\ th[t].node = th[u].node => t = u
  /\ \A k \in DOMAIN free :
       /\ free[k] <= used /\ root[free[k]] = free[k]
       /\ \A t \in Threads : Holds(t) => th[t].node # free[k]
  /\ \A j, k \in DOMAIN free : free[j] = free[k] => j = k
  /\ \A n \in Nodes : n > used => root[n] = n
  /\ \A n \in Nodes : root[n] = n \/ IsList(root[n])

\* Head and tail are in the queue; a node without a successor is the last of a list.
Ends(root) ==
  /\ root[head.node] = Null /\ root[tail.node] = Null
  /\ \A n \in Nodes : next[n] = End => IsList(root[n])
  /\ \A c \in Null..(MaxPushes + 1) :
       IsList(c) => \E n \in Nodes : root[n] = c /\ next[n] = End
  /\ \A n \in Nodes : root[n] # Null /\ IsList(root[n]) => elem[n] <= elem[root[n]]

\* The successor of a node is the node at the next place of the same list.
Order(root, pos) ==
  /\ pos \in [Nodes -> Nat]
  /\ pos[head.node] = head.seq /\ pos[tail.node] = tail.seq
  /\ \A t \in Threads : th[t].pc \in RootPcs => pos[th[t].node] = 0
  /\ \A n \in Nodes : IsList(root[n]) => Base(root[n]) <= pos[n]
  /\ \A m, n \in Nodes :
       IsList(root[n]) /\ root[m] = root[n] /\ pos[m] = pos[n] => m = n
  /\ \A n \in Nodes : IsList(root[n]) /\ next[n] # End =>
       next[n] \in Nodes /\ root[next[n]] = root[n] /\ pos[next[n]] = pos[n] + 1
  /\ \A m, n \in Nodes :
       IsList(root[n]) /\ root[m] = root[n] /\ pos[m] < pos[n] => next[m] # End

\* An item pushed was taken, once, or is in one node.
Cargo(root) ==
  /\ \A n \in Nodes : Carries(root, n) => elem[n] \in 1..pushes /\ taken[elem[n]] = 0
  /\ \A m, n \in Nodes : Carries(root, m) /\ Carries(root, n) /\ elem[m] = elem[n] => m = n
  /\ \A i \in Null..MaxPushes : taken[i] = 0 \/ (taken[i] = 1 /\ i \in 1..pushes)
  /\ \A i \in 1..pushes : taken[i] = 0 => \E n \in Nodes : Carries(root, n) /\ elem[n] = i
  /\ head.seq = Cardinality({i \in Items : taken[i] = 1})

\* An item pushed has one push, which has returned or is under way.
Books ==
  /\ count = Cardinality(done) - head.seq + Cardinality({t \in Threads : At(t, "uncount")})
  /\ done \subseteq 1..pushes
  /\ \A t \in Threads : th[t].pc \in OpenPcs => th[t].elem \in (1..pushes) \ done
  /\ \A t, u \in Threads :
       th[t].pc \in OpenPcs /\ th[u].pc \in OpenPcs /\ th[t].elem = th[u].elem => t = u
  /\ \A i \in 1..pushes : i \in done \/ \E t \in Threads : th[t].pc \in OpenPcs /\ th[t].elem = i

\* What a thread in Push knows.  Of the node that was the tail: if it is to come into
\* the queue, it has been used again since, for a later push.
PushOK(root, pos, l) ==
  /\ l.pc \in HoldPcs => elem[l.node] = l.elem
  /\ l.pc = "setNext" => l.link = Idle.link
  /\ l.pc = "readTail" =>
       (l.link.seq # Unread => l.link.seq <= tail.seq) /\ (l.link.seq = Unread \/ l.link.node = Null)
  /\ l.pc \in TriedPcs => l.link.seq <= tail.seq /\ l.link.node \in Nodes
  /\ l.pc \in RootPcs /\ l.link.node \in Nodes =>
       /\ Pending(root, l.link.node) => elem[l.link.node] > l.elem
       /\ l.link.node <= used
       /\ ~recycle => ~Pending(root, l.link.node)
       /\ ~recycle /\ root[l.link.node] = Null => pos[l.link.node] <= tail.seq
  /\ l.pc = "readNext" /\ tail = l.link => next[tail.node] # End
  /\ l.pc = "helpPush" /\ tail = l.link => next[tail.node] # End /\ l.pNext = next[tail.node]
  /\ l.pc = "finish" => l.node \in Nodes /\ (tail = l.link => next[tail.node] = l.node)

\* What a thread in Pop knows, as long as head or tail are what it has read.
PopOK(t, root, l) ==
  /\ l.pc = "headNode" => l.link.seq <= head.seq
  /\ l.pc \in HeadPcs =>
       /\ l.link.node \in Nodes /\ l.link.seq <= head.seq
       /\ l.link.seq = head.seq => l.link.node = head.node
  /\ l.pc \in NextPcs /\ l.link.seq = head.seq /\ l.pNext # End => l.pNext = next[head.node]
  /\ l.pc \in {"next", "recheck", "compare"} => l.tailSeq <= tail.seq
  /\ l.pc \in {"recheck", "compare"} /\ l.link.node = tail.node /\ l.tailSeq = tail.seq
       /\ l.pNext # End => l.pNext = next[tail.node]
  /\ l.pc = "compare" => l.pNext # Null
  /\ l.pc \in {"helpPop", "readElem", "takeHead"} => l.pNext \in Nodes
  /\ l.pc = "helpPop" =>
       l.link.node \in Nodes /\ l.link.seq <= tail.seq /\ (tail = l.link => l.pNext = next[tail.node])
  /\ l.pc \in {"readElem", "takeHead"} /\ l.link.seq = head.seq => head.node # tail.node
  /\ l.pc = "takeHead" /\ l.link.seq = head.seq => l.elem = elem[l.pNext]
  /\ l.pc \in GotPcs => l.elem \in Items
  /\ l.pc \in HeadPcs /\ ~recycle =>
       /\ ~Pending(root, l.link.node) /\ l.link.node <= used
       /\ root[l.link.node] = Null => l.link.node = head.node
  /\ l.pc \in {"recheck", "compare"} /\ ~recycle /\ l.pNext = End => t \in empty

Asked ==
  /\ \A t \in empty : Popping(t)
  /\ \A t \in Threads : Popping(t) /\ IsEmpty => t \in empty

\* With nodes that are not used again there is one list, and the tail lags by one.
Plain(root, pos) == ~recycle =>
  /\ \A n \in Nodes : root[n] \in {Null, n}
  /\ \A n \in Nodes : root[n] = Null => pos[n] <= tail.seq + 1

Good(root, pos) ==
  /\ TypeOK /\ Own(root) /\ Ends(root) /\ Order(root, pos) /\ Cargo(root) /\ Books
  /\ \A t \in Threads : PushOK(root, pos, th[t]) /\ PopOK(t, root, th[t])
  /\ Asked /\ Plain(root, pos)

Inv == \E root, pos : Good(root, pos)

-----------------------------------------------------------------------------
(* Steps that change no list                                               *)

\* The other threads keep their places; the thread keeps its node and its item.
Others(t) == \A u \in Threads \ {t} : th'[u] = th[u]
Alike(t) ==
  /\ th[t].pc \in HoldPcs <=> th'[t].pc \in HoldPcs
  /\ th[t].pc \in RootPcs <=> th'[t].pc \in RootPcs
  /\ th[t].pc \in HeldPcs <=> th'[t].pc \in HeldPcs
  /\ Holds(t) => th'[t].node = th[t].node

\* The tail stays, or moves on to the next node.
TailMoves ==
  \/ tail' = tail
  \/ next[tail.node] # End /\ tail' = [node |-> next[tail.node], seq |-> tail.seq + 1]

\* If nodes, head and owners stay, so do the lists.
LEMMA ListsKept ==
  ASSUME NEW root, NEW pos, Good(root, pos), NEW t \in Threads, Others(t), Alike(t), TailMoves,
         UNCHANGED <<next, elem, head, free, calls, taken>>
  PROVE  (Own(root) /\ Ends(root) /\ Order(root, pos) /\ Cargo(root) /\ Plain(root, pos))'
<1> USE DEF Good
<1>1. \A u \in Threads : /\ (th[u].pc \in HoldPcs <=> th'[u].pc \in HoldPcs)
                         /\ (th[u].pc \in RootPcs <=> th'[u].pc \in RootPcs)
                         /\ (Holds(u) <=> Holds(u)')
                         /\ (Holds(u) => th'[u].node = th[u].node)
  BY DEF Others, Alike, Holds
<1>2. \A u \in Threads : /\ th[u].pc \in RootPcs => th[u].pc \in HoldPcs
                         /\ th[u].pc \in HoldPcs => Holds(u)
  BY DEF RootPcs, HeldPcs, Holds
<1>3. \A n : Pushed(n)' <=> Pushed(n)
  BY <1>1, <1>2 DEF Pushed
<1>4. \A c : IsList(c)' <=> IsList(c)
  BY <1>1, <1>2 DEF IsList
<1>5. \A c : Base(c)' = Base(c)
  BY DEF Base
<1>6. \A n : (Pending(root, n)' <=> Pending(root, n)) /\ (Carries(root, n)' <=> Carries(root, n))
  BY <1>3 DEF Pending, Carries
<1>7. TypeOK /\ next' = next /\ elem' = elem /\ head' = head /\ free' = free /\ taken' = taken
      /\ used' = used /\ pushes' = pushes /\ recycle' = recycle
  BY DEF calls
<1>8. IsList(Null) /\ tail.node \in Nodes /\ tail.seq \in Int
  BY DEF IsList, TypeOK
<1>9. root[tail'.node] = Null /\ pos[tail'.node] = tail'.seq /\ tail'.seq \in Int /\ tail'.seq >= tail.seq
  BY <1>8 DEF TailMoves, Ends, Order
<1>a. Own(root)'
  BY <1>1, <1>4, <1>7 DEF Own
<1>b. Ends(root)'
  BY <1>4, <1>7, <1>9 DEF Ends
<1>c. Order(root, pos)'
  BY <1>1, <1>2, <1>4, <1>5, <1>7, <1>9 DEF Order
<1>d. Cargo(root)'
  BY <1>6, <1>7 DEF Cargo
<1>e. Plain(root, pos)'
  <2> SUFFICES ASSUME ~recycle', NEW n \in Nodes, root[n] = Null PROVE pos[n] <= tail'.seq + 1
    BY <1>7 DEF Plain
  <2>1. pos[n] \in Nat /\ pos[n] <= tail.seq + 1
    BY <1>7 DEF Plain, Order
  <2> QED BY <2>1, <1>8, <1>9
<1> QED BY <1>a, <1>b, <1>c, <1>d, <1>e

-----------------------------------------------------------------------------
(* What a thread knows, while another makes a step                         *)

\* What no step of a thread does to the others.
Calm(t, root, pos, root2, pos2) ==
  /\ recycle' = recycle /\ used <= used' /\ used' \in Int
  /\ head' = head \/ head'.seq = head.seq + 1
  /\ tail' = tail \/ tail'.seq = tail.seq + 1
  /\ head' = head /\ next[head.node] # End =>
       next'[head.node] = next[head.node] /\ elem'[next[head.node]] = elem[next[head.node]]
  /\ head' = head /\ head.node # tail.node => head.node # tail'.node
  /\ tail' = tail /\ next[tail.node] # End => next'[tail.node] = next[tail.node]
  /\ \A u \in Threads \ {t} : th[u].pc \in HoldPcs => elem'[th[u].node] = elem[th[u].node]
  /\ \A n \in Nodes : Pending(root2, n)' =>
       \/ Pending(root, n) /\ elem'[n] = elem[n]
       \/ elem'[n] \in Int /\ elem'[n] > pushes /\ (recycle \/ n > used)
  /\ \A n \in Nodes : root2[n] = Null /\ ~Pending(root, n) =>
       root[n] = Null /\ pos2[n] = pos[n] /\ (n = head.node => n = head'.node)
  /\ empty' = {u \in Threads : Popping(u)' /\ (u \in empty \/ IsEmpty')}

LEMMA Calmly ==
  ASSUME NEW root, NEW pos, NEW root2, NEW pos2, Good(root, pos), NEW t \in Threads,
         Calm(t, root, pos, root2, pos2), NEW u \in Threads, u # t, th'[u] = th[u]
  PROVE  (PushOK(root2, pos2, th[u]) /\ PopOK(u, root2, th[u]))'
<1> DEFINE l == th[u]
<1>1. l \in ThreadType /\ head.seq \in Int /\ tail.seq \in Int /\ used \in Int /\ pushes \in Int
      /\ head.node \in Nodes /\ tail.node \in Nodes /\ head.seq < Unread /\ tail.seq < Unread
  BY ConstantsAssumption DEF Good, TypeOK, Nodes, Unread
<1>2. l.link.seq \in Int /\ l.tailSeq \in Int /\ l.elem \in Int
  BY <1>1, ConstantsAssumption DEF ThreadType, Unread, Null
<1>3. l' = l
  OBVIOUS
<1>4. l.pc \in OpenPcs => l.elem \in 1..pushes
  BY DEF Good, Books
<1>5. l.pc \in HoldPcs => l.pc \in OpenPcs
  BY DEF OpenPcs
<1>6. PushOK(root, pos, l) /\ PopOK(u, root, l)
  BY DEF Good
<1>7. tail'.seq \in Int /\ tail'.seq >= tail.seq /\ (tail' = l.link /\ l.link.seq <= tail.seq => tail' = tail)
  BY <1>1, <1>2 DEF Calm
<1>8. head'.seq \in Int /\ head'.seq >= head.seq /\ (head'.seq = l.link.seq /\ l.link.seq <= head.seq => head' = head)
  BY <1>1, <1>2 DEF Calm
<1>9. l.pc \in RootPcs => l.pc \in HoldPcs
  BY DEF RootPcs
<1>a. PushOK(root2, pos2, l)'
  <2>1. l.pc \in HoldPcs => elem'[l.node] = l.elem
    BY <1>6 DEF Calm, PushOK
  <2>2. l.pc = "readTail" => (l.link.seq # Unread => l.link.seq <= tail'.seq)
    BY <1>1, <1>2, <1>6, <1>7 DEF PushOK
  <2>3. l.pc \in TriedPcs => l.link.seq <= tail'.seq
    BY <1>1, <1>2, <1>6, <1>7 DEF PushOK
  <2>4. ASSUME l.pc \in RootPcs, l.link.node \in Nodes
        PROVE /\ Pending(root2, l.link.node)' => elem'[l.link.node] > l.elem
              /\ l.link.node <= used'
              /\ ~recycle' => ~Pending(root2, l.link.node)'
              /\ ~recycle' /\ root2[l.link.node] = Null => pos2[l.link.node] <= tail'.seq
    <3>1. /\ Pending(root, l.link.node) => elem[l.link.node] > l.elem
          /\ l.link.node <= used /\ l.link.node \in Int
          /\ ~recycle => ~Pending(root, l.link.node)
          /\ ~recycle /\ root[l.link.node] = Null => pos[l.link.node] <= tail.seq /\ pos[l.link.node] \in Int
      BY <1>6, <2>4, ConstantsAssumption DEF PushOK, Nodes, Good, Order
    <3>2. /\ recycle' = recycle /\ used <= used' /\ used' \in Int
          /\ Pending(root2, l.link.node)' =>
               \/ Pending(root, l.link.node) /\ elem'[l.link.node] = elem[l.link.node]
               \/ elem'[l.link.node] \in Int /\ elem'[l.link.node] > pushes /\ (recycle \/ l.link.node > used)
          /\ root2[l.link.node] = Null /\ ~Pending(root, l.link.node) =>
               root[l.link.node] = Null /\ pos2[l.link.node] = pos[l.link.node]
      BY <2>4 DEF Calm
    <3> QED BY <3>1, <3>2, <1>1, <1>2, <1>4, <1>5, <1>7, <1>9, <2>4
  <2>5. l.pc \in {"readNext", "helpPush", "finish"} /\ tail' = l.link =>
          tail' = tail /\ (next[tail.node] # End => next'[tail.node] = next[tail.node])
    BY <1>6, <1>7 DEF PushOK, TriedPcs, Calm
  <2>6. /\ l.pc = "readNext" /\ tail' = l.link => next'[tail'.node] # End
        /\ l.pc = "helpPush" /\ tail' = l.link => next'[tail'.node] # End /\ l.pNext = next'[tail'.node]
        /\ l.pc = "finish" => l.node \in Nodes /\ (tail' = l.link => next'[tail'.node] = l.node)
    <3>1. Nodes \cap {End} = {}
      BY ConstantsAssumption DEF Nodes, End
    <3> QED BY <2>5, <1>6, <3>1 DEF PushOK
  <2> QED BY <2>1, <2>2, <2>3, <2>4, <2>6, <1>6 DEF PushOK
<1>b. PopOK(u, root2, l)'
  <2>1. /\ l.pc = "headNode" => l.link.seq <= head'.seq
        /\ l.pc \in HeadPcs => l.link.seq <= head'.seq /\ (l.link.seq = head'.seq => l.link.node = head'.node)
    BY <1>1, <1>2, <1>6, <1>8 DEF PopOK
  <2>2. l.pc \in NextPcs /\ l.link.seq = head'.seq =>
          /\ head' = head /\ l.link.seq = head.seq
          /\ next[head.node] # End => /\ next'[head.node] = next[head.node]
                                      /\ elem'[next[head.node]] = elem[next[head.node]]
    <3>1. NextPcs \subseteq HeadPcs
      BY DEF NextPcs, HeadPcs, PopPcs
    <3> QED BY <1>6, <1>8, <3>1 DEF PopOK, Calm
  <2>3. l.pc \in NextPcs /\ l.link.seq = head'.seq /\ l.pNext # End => l.pNext = next'[head'.node]
    BY <2>2, <1>6 DEF PopOK
  <2>4. l.pc \in {"next", "recheck", "compare"} => l.tailSeq <= tail'.seq
    BY <1>1, <1>2, <1>6, <1>7 DEF PopOK
  <2>5. l.pc \in {"recheck", "compare"} /\ l.link.node = tail'.node /\ l.tailSeq = tail'.seq
          /\ l.pNext # End => l.pNext = next'[tail'.node]
    <3> SUFFICES ASSUME l.pc \in {"recheck", "compare"}, l.link.node = tail'.node, l.tailSeq = tail'.seq,
                        l.pNext # End
                 PROVE  l.pNext = next'[tail'.node]
      OBVIOUS
    <3>1. tail' = tail
      BY <1>1, <1>2, <1>6 DEF PopOK, Calm
    <3> QED BY <3>1, <1>6 DEF PopOK, Calm
  <2>6. l.pc = "helpPop" => l.link.seq <= tail'.seq /\ (tail' = l.link => l.pNext = next'[tail'.node])
    <3>1. Nodes \cap {End} = {}
      BY ConstantsAssumption DEF Nodes, End
    <3> QED BY <1>1, <1>2, <1>6, <1>7, <3>1 DEF PopOK, Calm
  <2>7. l.pc \in {"readElem", "takeHead"} /\ l.link.seq = head'.seq => head'.node # tail'.node
    <3>1. {"readElem", "takeHead"} \subseteq NextPcs
      BY DEF NextPcs
    <3> QED BY <2>2, <1>6, <3>1 DEF PopOK, Calm
  <2>8. l.pc = "takeHead" /\ l.link.seq = head'.seq => l.elem = elem'[l.pNext]
    <3>1. Nodes \cap {End} = {} /\ "takeHead" \in NextPcs
      BY ConstantsAssumption DEF Nodes, End, NextPcs
    <3> QED BY <2>2, <1>6, <3>1 DEF PopOK
  <2>9. l.pc \in HeadPcs /\ ~recycle' =>
          /\ ~Pending(root2, l.link.node)' /\ l.link.node <= used'
          /\ root2[l.link.node] = Null => l.link.node = head'.node
    <3> SUFFICES ASSUME l.pc \in HeadPcs, ~recycle'
                 PROVE  /\ ~Pending(root2, l.link.node)' /\ l.link.node <= used'
                        /\ root2[l.link.node] = Null => l.link.node = head'.node
      OBVIOUS
    <3>1. /\ l.link.node \in Nodes /\ ~Pending(root, l.link.node) /\ l.link.node <= used
          /\ root[l.link.node] = Null => l.link.node = head.node
      BY <1>6 DEF PopOK, Calm
    <3>2. l.link.node \in Int
      BY <3>1, ConstantsAssumption DEF Nodes
    <3>3. /\ recycle' = recycle /\ used <= used' /\ used' \in Int
          /\ Pending(root2, l.link.node)' =>
               \/ Pending(root, l.link.node)
               \/ recycle \/ l.link.node > used
          /\ root2[l.link.node] = Null /\ ~Pending(root, l.link.node) =>
               root[l.link.node] = Null /\ (l.link.node = head.node => l.link.node = head'.node)
      BY <3>1 DEF Calm
    <3> QED BY <3>1, <3>2, <3>3, <1>1
  <2>10. l.pc \in {"recheck", "compare"} /\ ~recycle' /\ l.pNext = End => u \in empty'
    <3>1. l.pc \in {"recheck", "compare"} => Popping(u)'
      BY <1>3 DEF Popping, PopPcs
    <3> QED BY <3>1, <1>6 DEF PopOK, Calm
  <2> QED BY <2>1, <2>3, <2>4, <2>5, <2>6, <2>7, <2>8, <2>9, <2>10, <1>6 DEF PopOK
<1> QED BY <1>3, <1>a, <1>b

-----------------------------------------------------------------------------
(* The places of the queue                                                 *)

\* Induction over the numbers, for a set of them.
LEMMA Induction ==
  ASSUME NEW S, 0 \in S, \A n \in Nat : n \in S => n + 1 \in S
  PROVE  Nat \subseteq S
<1> DEFINE T == {0..n : n \in Nat \ S}
<1> SUFFICES ASSUME T # {} PROVE FALSE
  OBVIOUS
<1>1. T \subseteq FiniteSubsetsOf(Nat)
  <2>1. \A n \in Nat : IsFiniteSet(0..n)
    BY FS_Interval
  <2> QED BY <2>1 DEF FiniteSubsetsOf
<1>2. PICK m \in T : \A y \in T : ~ (<<y, m>> \in StrictSubsetOrdering(Nat))
  BY <1>1, FS_StrictSubsetOrderingWellFounded, WFMin, Zenon
<1>3. PICK n \in Nat \ S : m = 0..n
  OBVIOUS
<1>4. n - 1 \in Nat \ S
  BY <1>3
<1>5. 0..(n-1) \in T
  BY <1>4
<1>6. 0..(n-1) \subseteq 0..n /\ n \in 0..n /\ n \notin 0..(n-1) /\ 0..n \subseteq Nat
  BY <1>4
<1>7. <<0..(n-1), 0..n>> \in StrictSubsetOrdering(Nat)
  BY <1>6 DEF StrictSubsetOrdering
<1> QED BY <1>2, <1>3, <1>5, <1>7

\* There is a node at every place from the head's to that of any node.
LEMMA NoGaps ==
  ASSUME NEW root, NEW pos, Good(root, pos), NEW n \in Nodes, root[n] = Null,
         NEW p \in head.seq..pos[n]
  PROVE  \E m \in Nodes : root[m] = Null /\ pos[m] = p
<1> DEFINE S == {k \in Nat : head.seq + k <= pos[n] =>
                               \E m \in Nodes : root[m] = Null /\ pos[m] = head.seq + k}
<1>1. head.node \in Nodes /\ head.seq \in Nat /\ pos[n] \in Nat
  BY DEF Good, TypeOK, Order
<1>2. 0 \in S
  BY <1>1 DEF Good, Ends, Order
<1>3. ASSUME NEW k \in Nat, k \in S PROVE k + 1 \in S
  <2> SUFFICES ASSUME head.seq + (k + 1) <= pos[n]
               PROVE  \E m \in Nodes : root[m] = Null /\ pos[m] = head.seq + (k + 1)
    OBVIOUS
  <2>1. PICK m \in Nodes : root[m] = Null /\ pos[m] = head.seq + k
    BY <1>1, <1>3
  <2>2. IsList(root[n]) /\ root[m] = root[n] /\ pos[m] < pos[n]
    BY <1>1, <2>1 DEF IsList
  <2>3. next[m] # End
    BY <2>2 DEF Good, Order
  <2>4. next[m] \in Nodes /\ root[next[m]] = Null /\ pos[next[m]] = pos[m] + 1
    BY <2>1, <2>2, <2>3 DEF Good, Order
  <2> QED BY <1>1, <2>1, <2>4
<1> HIDE DEF S
<1>4. Nat \subseteq S
  BY <1>2, <1>3, Induction
<1>5. p - head.seq \in S
  BY <1>1, <1>4
<1> QED BY <1>1, <1>5 DEF S

\* As many items are left as were pushed and not taken.
LEMMA LeftToTake ==
  ASSUME NEW root, NEW pos, Good(root, pos)
  PROVE  /\ IsFiniteSet({i \in 1..pushes : taken[i] = 0})
         /\ Cardinality({i \in 1..pushes : taken[i] = 0}) = pushes - head.seq
<1> DEFINE A == {i \in Items : taken[i] = 1}
           B == {i \in 1..pushes : taken[i] = 0}
<1>1. pushes \in 0..MaxPushes /\ head.seq = Cardinality(A)
  BY DEF Good, TypeOK, Cargo
<1>2. \A i \in Null..MaxPushes : taken[i] = 0 \/ (taken[i] = 1 /\ i \in 1..pushes)
  BY DEF Good, Cargo
<1>3. A \cup B = 1..pushes /\ A \cap B = {} /\ A \subseteq 1..pushes /\ B \subseteq 1..pushes
  BY <1>1, <1>2, ConstantsAssumption DEF Items, Null
<1> HIDE DEF A, B
<1>4. IsFiniteSet(1..pushes) /\ Cardinality(1..pushes) = pushes
  BY <1>1, FS_Interval
<1>5. IsFiniteSet(A) /\ IsFiniteSet(B)
  BY <1>3, <1>4, FS_Subset
<1>6. Cardinality(1..pushes) = Cardinality(A) + Cardinality(B) - Cardinality({})
  BY <1>3, <1>5, FS_Union
<1>7. Cardinality({}) = 0 /\ Cardinality(A) \in Nat /\ Cardinality(B) \in Nat
  BY <1>5, FS_EmptySet, FS_CardinalityType
<1>8. Cardinality(B) = pushes - head.seq
  BY <1>1, <1>4, <1>6, <1>7
<1> QED BY <1>5, <1>8 DEF B

\* No place is beyond the number of pushes.
LEMMA Bounded ==
  ASSUME NEW root, NEW pos, Good(root, pos), NEW n \in Nodes, root[n] = Null
  PROVE  head.seq <= pos[n] /\ pos[n] <= pushes
<1> DEFINE S == (head.seq + 1)..pos[n]
           T == {i \in 1..pushes : taken[i] = 0}
           at(p) == CHOOSE m \in Nodes : root[m] = Null /\ pos[m] = p
           f == [p \in S |-> elem[at(p)]]
<1>1. head.seq \in Nat /\ pos[n] \in Nat /\ pushes \in Nat /\ head.node \in Nodes
  BY ConstantsAssumption DEF Good, TypeOK, Order
<1>2. head.seq <= pos[n]
  BY <1>1 DEF Good, Order, IsList, Base
<1>3. \A p \in S : at(p) \in Nodes /\ root[at(p)] = Null /\ pos[at(p)] = p
  BY <1>1, NoGaps
<1>4. \A p \in S : Carries(root, at(p))
  <2>1. pos[head.node] = head.seq
    BY DEF Good, Order
  <2> QED BY <1>1, <1>3, <2>1 DEF Carries
<1>5. \A p \in S : f[p] \in T
  BY <1>3, <1>4 DEF Good, Cargo
<1>6. \A p, q \in S : f[p] = f[q] => p = q
  <2>1. \A p, q \in S : f[p] = f[q] => at(p) = at(q)
    BY <1>3, <1>4 DEF Good, Cargo
  <2> QED BY <1>3, <2>1
<1> HIDE DEF S, T, at
<1>7. f \in Injection(S, T)
  BY <1>5, <1>6 DEF Injection, IsInjective
<1>8. IsFiniteSet(T) /\ Cardinality(T) = pushes - head.seq
  BY LeftToTake DEF T
<1> HIDE DEF f
<1>9. Cardinality(S) <= Cardinality(T)
  BY <1>7, <1>8, FS_Injection
<1>10. Cardinality(S) = pos[n] - head.seq
  <2>1. head.seq + 1 \in Int /\ pos[n] \in Int
    BY <1>1
  <2>2. Cardinality(S) = IF head.seq + 1 > pos[n] THEN 0 ELSE pos[n] - (head.seq + 1) + 1
    BY <2>1, FS_Interval DEF S
  <2> QED BY <2>2, <1>1, <1>2
<1> QED BY <1>1, <1>2, <1>8, <1>9, <1>10

-----------------------------------------------------------------------------
(* Steps of one thread that only move the tail                             *)

\* The next place after the tail's is in the queue.
LEMMA TailNext ==
  ASSUME NEW root, NEW pos, Good(root, pos), next[tail.node] # End
  PROVE  /\ next[tail.node] \in Nodes /\ root[next[tail.node]] = Null
         /\ pos[next[tail.node]] = tail.seq + 1 /\ tail.seq + 1 \in 0..MaxPushes
<1>1. tail.node \in Nodes /\ tail.seq \in Nat /\ pushes \in 0..MaxPushes
  BY ConstantsAssumption DEF Good, TypeOK
<1>2. root[tail.node] = Null /\ IsList(Null) /\ pos[tail.node] = tail.seq
  BY DEF Good, Ends, Order, IsList
<1>3. next[tail.node] \in Nodes /\ root[next[tail.node]] = Null /\ pos[next[tail.node]] = tail.seq + 1
  BY <1>1, <1>2 DEF Good, Order
<1>4. pos[next[tail.node]] <= pushes
  BY <1>3, Bounded
<1> QED BY <1>1, <1>3, <1>4, ConstantsAssumption

\* The thread keeps its item.
Earns(t) ==
  /\ th[t].pc \in OpenPcs <=> th'[t].pc \in OpenPcs
  /\ th[t].pc \in OpenPcs => th'[t].elem = th[t].elem
  /\ At(t, "uncount") <=> At(t, "uncount")'

\* The history is kept by a step that earns nothing.
LEMMA BooksKept ==
  ASSUME NEW t \in Threads, Books, Others(t), Earns(t), head'.seq = head.seq,
         UNCHANGED <<count, pushes, done>>
  PROVE  Books'
<1>1. \A u \in Threads : /\ (th[u].pc \in OpenPcs <=> th'[u].pc \in OpenPcs)
                         /\ (th[u].pc \in OpenPcs => th'[u].elem = th[u].elem)
                         /\ (At(u, "uncount") <=> At(u, "uncount")')
  BY DEF Others, Earns, At
<1>2. {u \in Threads : At(u, "uncount")}' = {u \in Threads : At(u, "uncount")}
  BY <1>1
<1>3. (count = Cardinality(done) - head.seq + Cardinality({u \in Threads : At(u, "uncount")}))'
  BY <1>2 DEF Books
<1>4. /\ (done \subseteq 1..pushes)'
      /\ \A u \in Threads : th'[u].pc \in OpenPcs => th'[u].elem \in (1..pushes') \ done'
      /\ \A u, v \in Threads :
           th'[u].pc \in OpenPcs /\ th'[v].pc \in OpenPcs /\ th'[u].elem = th'[v].elem => u = v
      /\ \A i \in 1..pushes' : i \in done' \/ \E u \in Threads : th'[u].pc \in OpenPcs /\ th'[u].elem = i
  BY <1>1 DEF Books
<1> QED BY <1>3, <1>4 DEF Books

\* Who asks has seen what Watched says.
LEMMA AskedKept ==
  ASSUME Watched
  PROVE  Asked' /\ empty' \subseteq Threads
BY DEF Watched, Asked, Popping

\* A step keeps the invariant, if the parts of it that are not about the other threads
\* hold afterwards, and Calm.
LEMMA Settled ==
  ASSUME NEW root, NEW pos, NEW root2, NEW pos2, Good(root, pos), NEW t \in Threads, Others(t),
         Calm(t, root, pos, root2, pos2), Watched, TypeOK',
         (Own(root2) /\ Ends(root2) /\ Order(root2, pos2) /\ Cargo(root2) /\ Books)',
         Plain(root2, pos2)', (PushOK(root2, pos2, th[t]) /\ PopOK(t, root2, th[t]))'
  PROVE  Good(root2, pos2)'
<1>1. Asked'
  BY AskedKept
<1>2. \A u \in Threads : (PushOK(root2, pos2, th[u]) /\ PopOK(u, root2, th[u]))'
  <2> SUFFICES ASSUME NEW u \in Threads, u # t
               PROVE  (PushOK(root2, pos2, th[u]) /\ PopOK(u, root2, th[u]))'
    OBVIOUS
  <2> QED BY Calmly DEF Others
<1> QED BY <1>1, <1>2 DEF Good

\* A step that changes no list.
LEMMA SameLists ==
  ASSUME NEW root, NEW pos, Good(root, pos), NEW t \in Threads, Others(t), Alike(t), TailMoves,
         Watched, UNCHANGED <<next, elem, head, free, calls, taken>>, Books', count' \in Int,
         th' \in [Threads -> ThreadType], (PushOK(root, pos, th[t]) /\ PopOK(t, root, th[t]))'
  PROVE  Good(root, pos)'
<1>1. next' = next /\ elem' = elem /\ head' = head /\ free' = free /\ used' = used
      /\ pushes' = pushes /\ recycle' = recycle /\ taken' = taken
  BY DEF calls
<1>2. TypeOK
  BY DEF Good
<1>3. tail' \in [node: Nodes, seq: 0..MaxPushes]
  BY <1>2, TailNext DEF TailMoves, TypeOK
<1>4. done' \subseteq Items
  <2>1. pushes \in 0..MaxPushes /\ MaxPushes \in Nat
    BY <1>2, ConstantsAssumption DEF TypeOK
  <2> QED BY <1>1, <2>1 DEF Books, Items
<1>5. TypeOK'
  BY <1>1, <1>2, <1>3, <1>4, AskedKept DEF TypeOK
<1>6. (Own(root) /\ Ends(root) /\ Order(root, pos) /\ Cargo(root) /\ Plain(root, pos))'
  BY <1>1, ListsKept DEF calls
<1>7. Calm(t, root, pos, root, pos)
  <2>1. tail' = tail \/ tail'.seq = tail.seq + 1
    BY DEF TailMoves
  <2>2. head.node # tail.node => head.node # tail'.node
    <3>1. pos[head.node] = head.seq /\ pos[tail.node] = tail.seq /\ IsList(Null)
          /\ root[head.node] = Null /\ root[tail.node] = Null /\ Base(Null) <= pos[tail.node]
      BY <1>2 DEF Good, Order, Ends, IsList, TypeOK
    <3>2. head.seq <= tail.seq /\ head.seq \in Int /\ tail.seq \in Int
      BY <1>2, <3>1 DEF Base, TypeOK
    <3> QED BY <3>1, <3>2, TailNext DEF TailMoves
  <2>3. \A n : Pending(root, n)' <=> Pending(root, n)
    BY DEF Others, Alike, Pending, Pushed, HeldPcs, Holds
  <2>4. used \in Int /\ used <= used
    BY <1>2, ConstantsAssumption DEF TypeOK, Nodes
  <2> QED BY <1>1, <2>1, <2>2, <2>3, <2>4 DEF Calm, Watched
<1> QED BY <1>5, <1>6, <1>7, Settled

\* ... and no count.
LEMMA Quietly ==
  ASSUME NEW root, NEW pos, Good(root, pos), NEW t \in Threads, Others(t), Alike(t), Earns(t),
         TailMoves, Watched, UNCHANGED <<next, elem, head, count, free, calls, history>>,
         th' \in [Threads -> ThreadType], (PushOK(root, pos, th[t]) /\ PopOK(t, root, th[t]))'
  PROVE  Good(root, pos)'
<1>1. head' = head /\ count' = count /\ pushes' = pushes /\ done' = done /\ taken' = taken
  BY DEF calls, history
<1>2. Books' /\ count' \in Int
  BY <1>1, BooksKept DEF Good, TypeOK
<1> QED BY <1>1, <1>2, SameLists

\* What every step of a thread has at hand.
LEMMA Facts ==
  ASSUME NEW root, NEW pos, Good(root, pos), NEW t \in Threads
  PROVE  /\ th \in [Threads -> ThreadType] /\ th[t] \in ThreadType
         /\ PushOK(root, pos, th[t]) /\ PopOK(t, root, th[t])
         /\ head.node \in Nodes /\ tail.node \in Nodes /\ head.seq \in Nat /\ tail.seq \in Nat
         /\ head.seq <= MaxPushes /\ tail.seq <= MaxPushes
         /\ head.seq <= tail.seq /\ root[head.node] = Null /\ root[tail.node] = Null
         /\ pos[head.node] = head.seq /\ pos[tail.node] = tail.seq
         /\ next \in [Nodes -> Pointers] /\ elem \in [Nodes -> Null..MaxPushes]
         /\ used \in Nodes /\ pushes \in 0..MaxPushes /\ recycle \in BOOLEAN
<1>1. TypeOK
  BY DEF Good
<1>2. th \in [Threads -> ThreadType] /\ th[t] \in ThreadType
  BY <1>1 DEF TypeOK
<1>3. /\ head.node \in Nodes /\ tail.node \in Nodes /\ head.seq \in Nat /\ tail.seq \in Nat
      /\ head.seq <= MaxPushes /\ tail.seq <= MaxPushes
      /\ next \in [Nodes -> Pointers] /\ elem \in [Nodes -> Null..MaxPushes]
      /\ used \in Nodes /\ pushes \in 0..MaxPushes /\ recycle \in BOOLEAN
  BY <1>1, ConstantsAssumption DEF TypeOK
<1>4. /\ root[head.node] = Null /\ root[tail.node] = Null
      /\ pos[head.node] = head.seq /\ pos[tail.node] = tail.seq
  BY DEF Good, Ends, Order
<1>5. head.seq <= tail.seq
  BY <1>3, <1>4, Bounded
<1> QED BY <1>2, <1>3, <1>4, <1>5 DEF Good

\* The sets the constants make.
LEMMA Sets ==
  /\ MaxPushes \in Nat /\ MaxPushes >= 1 /\ Unread = MaxPushes + 1 /\ Null = 0
  /\ Nodes = 1..(MaxPushes + 1) /\ End = MaxPushes + 2 /\ Pointers = 0..(MaxPushes + 2)
  /\ Null \notin Nodes /\ End \notin Nodes /\ Nodes \subseteq Pointers /\ End \in Pointers
  /\ \A p \in Pointers : p # Null /\ p # End => p \in Nodes
BY ConstantsAssumption DEF Nodes, Null, End, Pointers, Unread

\* The tail's node, when it is read.
LEMMA TailKnown ==
  ASSUME NEW root, NEW pos, Good(root, pos)
  PROVE  /\ ~Pending(root, tail.node) /\ tail.node <= used /\ pos[tail.node] <= tail.seq
         /\ ~Pending(root, head.node) /\ head.node <= used
<1>1. root[head.node] = Null /\ root[tail.node] = Null /\ pos[tail.node] = tail.seq
  BY DEF Good, Ends, Order
<1>2. head.node \in Nodes /\ tail.node \in Nodes /\ tail.seq \in Nat /\ used \in Nodes
  BY ConstantsAssumption DEF Good, TypeOK
<1>3. \A n \in Nodes : n > used => root[n] = n
  BY DEF Good, Own
<1> QED BY <1>1, <1>2, <1>3, Sets DEF Pending

\* A thread that holds a node has it to itself.
LEMMA Holders ==
  ASSUME NEW root, NEW pos, Good(root, pos), NEW t \in Threads, Holds(t)
  PROVE  th[t].node \in Nodes /\ th[t].node \in 1..used /\ root[th[t].node] = th[t].node
<1>1. th[t].node \in 1..used /\ root[th[t].node] = th[t].node
  BY DEF Good, Own
<1>2. used \in Nodes
  BY DEF Good, TypeOK
<1> QED BY <1>1, <1>2, Sets

LEMMA Goes ==
  ASSUME NEW t \in Threads, NEW k \in ThreadType, th \in [Threads -> ThreadType], Goto(t, k)
  PROVE  th' \in [Threads -> ThreadType] /\ th'[t] = k /\ Others(t)
<1>1. th' \in [Threads -> ThreadType]
  BY DEF Goto
<1> QED BY <1>1 DEF Goto, Others

\* A step that leaves the thread in the same role, and all but its locals as they are.
LEMMA Softly ==
  ASSUME NEW root, NEW pos, Good(root, pos), NEW t \in Threads, NEW k \in ThreadType, Goto(t, k),
         th[t].pc \in HoldPcs <=> k.pc \in HoldPcs, th[t].pc \in RootPcs <=> k.pc \in RootPcs,
         th[t].pc \in OpenPcs <=> k.pc \in OpenPcs,
         th[t].pc \notin GotPcs, k.pc \notin GotPcs,
         th[t].pc \in OpenPcs => k.node = th[t].node /\ k.elem = th[t].elem,
         PushOK(root, pos, k), PopOK(t, root, k), Watched,
         UNCHANGED <<next, elem, head, tail, count, free, calls, history>>
  PROVE  Good(root, pos)'
<1>1. th' \in [Threads -> ThreadType] /\ th'[t] = k /\ Others(t)
  BY Facts, Goes
<1>2. HoldPcs \subseteq OpenPcs /\ "uncount" \in GotPcs /\ RootPcs \subseteq HoldPcs
  BY DEF HoldPcs, OpenPcs, GotPcs, RootPcs
<1>3. Alike(t) /\ Earns(t) /\ TailMoves
  BY <1>1, <1>2 DEF Alike, Earns, TailMoves, HeldPcs, At, Holds
<1>4. \A n : Pending(root, n)' <=> Pending(root, n)
  <2>1. \A u \in Threads : /\ (th[u].pc \in HoldPcs <=> th'[u].pc \in HoldPcs)
                           /\ (th[u].pc \in HoldPcs => th'[u].node = th[u].node)
    BY <1>1, <1>2 DEF Others
  <2> QED BY <2>1 DEF Pending, Pushed
<1>5. next' = next /\ elem' = elem /\ head' = head /\ tail' = tail /\ used' = used /\ recycle' = recycle
  BY DEF calls
<1>6. PushOK(root, pos, th[t])'
  BY <1>1, <1>4, <1>5 DEF PushOK
<1>7. PopOK(t, root, th[t])'
  <2>1. k.pc \in {"recheck", "compare"} /\ t \in empty => t \in empty'
    BY <1>1 DEF Watched, Popping, PopPcs
  <2> QED BY <1>1, <1>4, <1>5, <2>1 DEF PopOK
<1> QED BY <1>1, <1>3, <1>6, <1>7, Quietly

LEMMA ReadTailGood ==
  ASSUME NEW root, NEW pos, Good(root, pos), NEW t \in Threads, ReadTail(t), Watched
  PROVE  Good(root, pos)'
<1> USE Sets
<1> DEFINE l == th[t]
<1>1. /\ l.pc = "readTail" /\ l \in ThreadType /\ th \in [Threads -> ThreadType]
      /\ UNCHANGED <<next, elem, head, tail, count, free, calls, history>>
  BY Facts DEF ReadTail, At
<1>2. /\ elem[l.node] = l.elem
      /\ l.link.node \in Nodes =>
           /\ Pending(root, l.link.node) => elem[l.link.node] > l.elem
           /\ l.link.node <= used
           /\ ~recycle => ~Pending(root, l.link.node)
           /\ ~recycle /\ root[l.link.node] = Null => pos[l.link.node] <= tail.seq
  BY <1>1, Facts DEF PushOK, RootPcs, HoldPcs
<1>3. /\ tail.seq \in 0..MaxPushes /\ tail.node \in Nodes
      /\ l.link.node \in 0..(MaxPushes + 1) /\ l.link.seq \in 0..Unread
      /\ l.link.seq # Unread => l.link.seq <= tail.seq
  <2>1. l.link.node \in 0..(MaxPushes + 1) /\ l.link.seq \in 0..Unread
    BY <1>1 DEF ThreadType
  <2>2. l.link.seq # Unread => l.link.seq <= tail.seq
    BY <1>1, Facts DEF PushOK
  <2> QED BY <2>1, <2>2, Facts
<1>4. PICK k \in ThreadType :
        /\ Goto(t, k) /\ k.node = l.node /\ k.elem = l.elem
        /\ k.pc = (IF k.link.seq = Unread \/ k.link.node = Null THEN "readTail" ELSE "link")
        /\ \/ k.link.seq = l.link.seq /\ l.link.node = Null /\ k.link.node = tail.node
           \/ k.link.seq = tail.seq /\ l.link.seq = Unread /\ k.link.node = l.link.node
  <2>1. CASE l.link.seq = Unread /\ Goto(t, [l EXCEPT !.link.seq = tail.seq,
                                         !.pc = IF l.link.node = Null THEN "readTail" ELSE "link"])
    <3>1. PICK k : k = [l EXCEPT !.link.seq = tail.seq,
                                 !.pc = IF l.link.node = Null THEN "readTail" ELSE "link"]
      OBVIOUS
    <3>2. k.pc \in {"readTail", "link"} /\ k.link \in [node: Null..(MaxPushes + 1), seq: 0..Unread]
      BY <1>1, <1>3, <3>1 DEF ThreadType
    <3>3. k \in ThreadType
      BY <1>1, <3>1, <3>2 DEF ThreadType, PushPcs
    <3>4. /\ k.pc = (IF l.link.node = Null THEN "readTail" ELSE "link") /\ k.node = l.node /\ k.elem = l.elem
          /\ k.link.seq = tail.seq /\ k.link.node = l.link.node
      BY <1>1, <3>1 DEF ThreadType
    <3>5. Goto(t, k)
      BY <2>1, <3>1
    <3> QED BY <2>1, <3>3, <3>4, <3>5, <1>3
  <2>2. CASE l.link.node = Null /\ Goto(t, [l EXCEPT !.link.node = tail.node,
                                         !.pc = IF l.link.seq = Unread THEN "readTail" ELSE "link"])
    <3>1. PICK k : k = [l EXCEPT !.link.node = tail.node,
                                 !.pc = IF l.link.seq = Unread THEN "readTail" ELSE "link"]
      OBVIOUS
    <3>2. k.pc \in {"readTail", "link"} /\ k.link \in [node: Null..(MaxPushes + 1), seq: 0..Unread]
      BY <1>1, <1>3, <3>1 DEF ThreadType
    <3>3. k \in ThreadType
      BY <1>1, <3>1, <3>2 DEF ThreadType, PushPcs
    <3>4. /\ k.pc = (IF l.link.seq = Unread THEN "readTail" ELSE "link") /\ k.node = l.node /\ k.elem = l.elem
          /\ k.link.seq = l.link.seq /\ k.link.node = tail.node
      BY <1>1, <3>1 DEF ThreadType
    <3>5. Goto(t, k)
      BY <2>2, <3>1
    <3> QED BY <2>2, <3>3, <3>4, <3>5, <1>3
  <2> QED BY <2>1, <2>2 DEF ReadTail
<1>5. PushOK(root, pos, k)
  <2>1. k.link.node \in Nodes =>
           /\ Pending(root, k.link.node) => elem[k.link.node] > k.elem
           /\ k.link.node <= used
           /\ ~recycle => ~Pending(root, k.link.node)
           /\ ~recycle /\ root[k.link.node] = Null => pos[k.link.node] <= tail.seq
    BY <1>2, <1>4, TailKnown
  <2>2. /\ k.link.seq # Unread => k.link.seq <= tail.seq
        /\ k.pc = "readTail" => k.link.seq = Unread \/ k.link.node = Null
        /\ k.pc = "link" => k.link.seq # Unread /\ k.link.node \in Nodes
    BY <1>3, <1>4
  <2>3. k.pc \in {"readTail", "link"} /\ elem[k.node] = k.elem
    BY <1>2, <1>4
  <2> QED BY <2>1, <2>2, <2>3 DEF PushOK, TriedPcs
<1>6. PopOK(t, root, k)
  BY <1>4 DEF PopOK, HeadPcs, NextPcs, PopPcs, GotPcs
<1> QED
  <2>1. l.pc = "readTail" /\ k.pc \in {"readTail", "link"}
    BY <1>1, <1>4
  <2>2. {"readTail", "link"} \subseteq HoldPcs \cap RootPcs \cap OpenPcs /\ {"readTail", "link"} \cap GotPcs = {}
    BY DEF HoldPcs, RootPcs, OpenPcs, GotPcs
  <2> QED BY <1>1, <1>4, <1>5, <1>6, <2>1, <2>2, Softly

\* The first steps of Pop, and those of a thread that has to begin again.
LEMMA Empty ==
  /\ Idle \in ThreadType /\ Idle.pc = "idle" /\ Again \in ThreadType /\ Again.pc = "headSeq"
  /\ Idle.link.node = Null /\ Idle.link.seq = Unread /\ Again.link.node = Null
<1> USE Sets
<1>1. Idle \in ThreadType /\ Idle.pc = "idle"
  BY DEF Idle, ThreadType
<1>2. Idle.link.node = Null /\ Idle.link.seq = Unread
  BY DEF Idle
<1>3. Again \in ThreadType /\ Again.pc = "headSeq" /\ Again.link.node = Null
  BY <1>1, <1>2 DEF Again, ThreadType, PopPcs, Idle
<1> QED BY <1>1, <1>2, <1>3

\* A thread that has no node and goes where nothing is known yet.
LEMMA Resting ==
  ASSUME NEW root, NEW pos, Good(root, pos), NEW t \in Threads, NEW k \in ThreadType, Goto(t, k),
         th[t].pc \notin OpenPcs \cup GotPcs, k.pc \in {"idle", "headSeq"}, Watched,
         UNCHANGED <<next, elem, head, tail, count, free, calls, history>>
  PROVE  Good(root, pos)'
<1>1. /\ HoldPcs \subseteq OpenPcs /\ RootPcs \subseteq HoldPcs
      /\ k.pc \notin HoldPcs \cup RootPcs \cup OpenPcs \cup GotPcs
  BY DEF HoldPcs, OpenPcs, GotPcs, RootPcs
<1>2. PushOK(root, pos, k)
  BY <1>1 DEF PushOK, TriedPcs
<1>3. PopOK(t, root, k)
  BY <1>1 DEF PopOK, HeadPcs, NextPcs, PopPcs
<1> QED BY <1>1, <1>2, <1>3, Softly

LEMMA StartPopGood ==
  ASSUME NEW root, NEW pos, Good(root, pos), NEW t \in Threads, StartPop(t), Watched
  PROVE  Good(root, pos)'
<1>1. PICK k : k = Again
  OBVIOUS
<1>2. k \in ThreadType /\ k.pc = "headSeq" /\ Goto(t, k)
  BY <1>1, Empty DEF StartPop, Again
<1>3. th[t].pc \notin OpenPcs \cup GotPcs
  BY DEF StartPop, At, OpenPcs, HoldPcs, GotPcs
<1> QED BY <1>2, <1>3, Resting DEF StartPop

\* A thread in Pop that has taken nothing yet goes on in Pop.
LEMMA Reading ==
  ASSUME NEW root, NEW pos, Good(root, pos), NEW t \in Threads, NEW k \in ThreadType, Goto(t, k),
         th[t].pc \in PopPcs, k.pc \in PopPcs, PopOK(t, root, k), Watched,
         UNCHANGED <<next, elem, head, tail, count, free, calls, history>>
  PROVE  Good(root, pos)'
<1>1. PopPcs \cap OpenPcs = {} /\ PopPcs \cap GotPcs = {} /\ PopPcs \cap TriedPcs = {}
      /\ HoldPcs \subseteq OpenPcs /\ RootPcs \subseteq HoldPcs
  BY DEF HoldPcs, OpenPcs, GotPcs, RootPcs, PopPcs, TriedPcs
<1>2. PushOK(root, pos, k)
  <2>1. k.pc \notin {"setNext", "readTail", "readNext", "helpPush", "finish"}
    BY DEF PopPcs
  <2> QED BY <1>1, <2>1 DEF PushOK
<1> QED BY <1>1, <1>2, Softly

LEMMA ReadHeadSeqGood ==
  ASSUME NEW root, NEW pos, Good(root, pos), NEW t \in Threads, ReadHeadSeq(t), Watched
  PROVE  Good(root, pos)'
<1> USE Sets
<1> DEFINE l == th[t]
<1>1. l.pc = "headSeq" /\ l \in ThreadType /\ head.seq \in 0..Unread /\ head.seq \in Int
  BY Facts DEF ReadHeadSeq, At
<1>2. PICK k : k = [l EXCEPT !.pc = "headNode", !.link.seq = head.seq]
  OBVIOUS
<1>3. k.link \in [node: Null..(MaxPushes + 1), seq: 0..Unread] /\ k.link.seq = head.seq /\ k.pc = "headNode"
  BY <1>1, <1>2 DEF ThreadType
<1>4. k \in ThreadType
  BY <1>1, <1>2, <1>3 DEF ThreadType, PopPcs
<1>5. PopOK(t, root, k)
  BY <1>1, <1>3 DEF PopOK, HeadPcs, NextPcs, GotPcs
<1>6. Goto(t, k) /\ l.pc \in PopPcs /\ k.pc \in PopPcs
  BY <1>1, <1>2, <1>3 DEF ReadHeadSeq, PopPcs
<1> QED BY <1>4, <1>5, <1>6, Reading DEF ReadHeadSeq

LEMMA ReadHeadNodeGood ==
  ASSUME NEW root, NEW pos, Good(root, pos), NEW t \in Threads, ReadHeadNode(t), Watched
  PROVE  Good(root, pos)'
<1> USE Sets
<1> DEFINE l == th[t]
<1>1. l.pc = "headNode" /\ l \in ThreadType /\ head.node \in Nodes /\ l.link.seq <= head.seq
  BY Facts DEF ReadHeadNode, At, PopOK
<1>2. PICK k : k = [l EXCEPT !.pc = "tailSeq", !.link.node = head.node]
  OBVIOUS
<1>3. /\ k.link \in [node: Null..(MaxPushes + 1), seq: 0..Unread] /\ k.pc = "tailSeq"
      /\ k.link.node = head.node /\ k.link.seq = l.link.seq
  BY <1>1, <1>2 DEF ThreadType
<1>4. k \in ThreadType
  BY <1>1, <1>2, <1>3 DEF ThreadType, PopPcs
<1>5. PopOK(t, root, k)
  BY <1>1, <1>3, TailKnown DEF PopOK, HeadPcs, NextPcs, GotPcs
<1>6. Goto(t, k) /\ l.pc \in PopPcs /\ k.pc \in PopPcs
  BY <1>1, <1>2, <1>3 DEF ReadHeadNode, PopPcs
<1> QED BY <1>4, <1>5, <1>6, Reading DEF ReadHeadNode

LEMMA ReadTailSeqGood ==
  ASSUME NEW root, NEW pos, Good(root, pos), NEW t \in Threads, ReadTailSeq(t), Watched
  PROVE  Good(root, pos)'
<1> USE Sets
<1> DEFINE l == th[t]
<1>1. l.pc = "tailSeq" /\ l \in ThreadType /\ tail.seq \in 0..Unread /\ PopOK(t, root, l)
  BY Facts DEF ReadTailSeq, At
<1>2. PICK k : k = [l EXCEPT !.pc = "next", !.tailSeq = tail.seq]
  OBVIOUS
<1>3. k \in ThreadType /\ k.pc = "next" /\ k.link = l.link /\ k.tailSeq = tail.seq
  BY <1>1, <1>2 DEF ThreadType, PopPcs
<1>4. PopOK(t, root, k)
  BY <1>1, <1>3 DEF PopOK, HeadPcs, NextPcs, GotPcs, PopPcs
<1>5. Goto(t, k) /\ l.pc \in PopPcs /\ k.pc \in PopPcs
  BY <1>1, <1>2, <1>3 DEF ReadTailSeq, PopPcs
<1> QED BY <1>3, <1>4, <1>5, Reading DEF ReadTailSeq

-----------------------------------------------------------------------------
(* The queue as Walk sees it                                               *)

\* Walk is what its definition says: a function that refers to itself only at lower
\* numbers exists.
LEMMA WalkStep ==
  /\ Walk[0] = head.node
  /\ \A k \in 0..MaxPushes :
       Walk[k + 1] = IF Walk[k] \in Nodes THEN next[Walk[k]] ELSE Walk[k]
<1> DEFINE Rec(f, n) == f = [k \in 0..n |-> IF k = 0 THEN head.node
                                            ELSE IF f[k - 1] \in Nodes THEN next[f[k - 1]] ELSE f[k - 1]]
           S == {n \in Nat : \E f : Rec(f, n)}
<1>1. 0 \in S
  <2> DEFINE f == [k \in 0..0 |-> head.node]
  <2>1. \A k \in 0..0 : k = 0
    OBVIOUS
  <2>2. f = [k \in 0..0 |-> IF k = 0 THEN head.node
                            ELSE IF f[k - 1] \in Nodes THEN next[f[k - 1]] ELSE f[k - 1]]
    BY <2>1
  <2>3. Rec(f, 0)
    BY <2>2
  <2> QED BY <2>3
<1>2. ASSUME NEW n \in Nat, n \in S PROVE n + 1 \in S
  <2>1. PICK f : Rec(f, n)
    BY <1>2
  <2> DEFINE g == [k \in 0..(n + 1) |-> IF k <= n THEN f[k]
                                        ELSE IF f[n] \in Nodes THEN next[f[n]] ELSE f[n]]
  <2>2. \A k \in 0..n : g[k] = f[k]
    OBVIOUS
  <2>3. ASSUME NEW k \in 0..(n + 1)
        PROVE  g[k] = IF k = 0 THEN head.node
                      ELSE IF g[k - 1] \in Nodes THEN next[g[k - 1]] ELSE g[k - 1]
    <3>1. CASE k = 0
      BY <3>1, <2>1
    <3>2. CASE k \in 1..n
      <4>1. g[k] = f[k] /\ g[k - 1] = f[k - 1] /\ k # 0 /\ k \in 0..n
        BY <3>2, <2>2
      <4> HIDE DEF g
      <4>2. f[k] = IF f[k - 1] \in Nodes THEN next[f[k - 1]] ELSE f[k - 1]
        BY <2>1, <4>1
      <4> QED BY <4>1, <4>2
    <3>3. CASE k = n + 1
      <4>1. g[k - 1] = f[n] /\ k # 0 /\ ~ (k <= n)
        BY <3>3, <2>2
      <4> QED BY <3>3, <4>1
    <3> QED BY <3>1, <3>2, <3>3
  <2> DEFINE h == [k \in 0..(n + 1) |-> IF k = 0 THEN head.node
                    ELSE IF g[k - 1] \in Nodes THEN next[g[k - 1]] ELSE g[k - 1]]
  <2>4. \A k \in 0..(n + 1) : g[k] = h[k]
    <3> HIDE DEF g
    <3> QED BY <2>3
  <2>5. g = h
    <3>1. g = [k \in 0..(n + 1) |-> g[k]] /\ h = [k \in 0..(n + 1) |-> h[k]]
      OBVIOUS
    <3> HIDE DEF g, h
    <3>2. [k \in 0..(n + 1) |-> g[k]] = [k \in 0..(n + 1) |-> h[k]]
      BY <2>4
    <3> QED BY <3>1, <3>2
  <2> HIDE DEF g
  <2> QED BY <2>5
<1> HIDE DEF S
<1>3. MaxPushes + 1 \in S
  BY <1>1, <1>2, Induction, Sets
<1>4. \E f : Rec(f, MaxPushes + 1)
  BY <1>3 DEF S
<1>5. Walk = CHOOSE f : Rec(f, MaxPushes + 1)
  BY DEF Walk
<1>6. Rec(Walk, MaxPushes + 1)
  BY <1>4, <1>5
<1>7. \A k \in 0..(MaxPushes + 1) :
        Walk[k] = IF k = 0 THEN head.node
                  ELSE IF Walk[k - 1] \in Nodes THEN next[Walk[k - 1]] ELSE Walk[k - 1]
  BY <1>6
<1>8. \A k \in 0..MaxPushes : k + 1 \in 0..(MaxPushes + 1) /\ k + 1 # 0 /\ (k + 1) - 1 = k
  BY Sets
<1> HIDE DEF Rec
<1> QED BY <1>7, <1>8, Sets

\* The nodes in the queue.
Queue(root) == {n \in Nodes : root[n] = Null}

\* Walk goes through the queue in the order of the places, and stays at the end.
LEMMA Walks ==
  ASSUME NEW root, NEW pos, Good(root, pos), NEW k \in 0..(MaxPushes + 1)
  PROVE  \/ Walk[k] \in Queue(root) /\ pos[Walk[k]] = head.seq + k
         \/ Walk[k] = End /\ \A m \in Queue(root) : pos[m] < head.seq + k
<1> USE Sets
<1> DEFINE P(j) == \/ Walk[j] \in Queue(root) /\ pos[Walk[j]] = head.seq + j
                   \/ Walk[j] = End /\ \A m \in Queue(root) : pos[m] < head.seq + j
           S == {j \in Nat : j <= MaxPushes + 1 => P(j)}
<1>1. head.node \in Queue(root) /\ pos[head.node] = head.seq /\ head.seq \in Nat
  BY DEF Good, TypeOK, Ends, Order, Queue
<1>2. 0 \in S
  BY <1>1, WalkStep
<1>3. ASSUME NEW j \in Nat, j \in S PROVE j + 1 \in S
  <2> SUFFICES ASSUME j + 1 <= MaxPushes + 1 PROVE P(j + 1)
    OBVIOUS
  <2>1. j \in 0..MaxPushes /\ P(j)
    BY <1>3
  <2>2. Walk[j + 1] = IF Walk[j] \in Nodes THEN next[Walk[j]] ELSE Walk[j]
    BY <2>1, WalkStep
  <2>3. \A m \in Queue(root) : pos[m] \in Nat /\ m \in Nodes
    BY DEF Good, Order, Queue
  <2>4. CASE Walk[j] \in Queue(root) /\ pos[Walk[j]] = head.seq + j
    <3>1. Walk[j] \in Nodes /\ root[Walk[j]] = Null /\ IsList(Null)
      BY <2>4 DEF Queue, IsList
    <3>2. CASE next[Walk[j]] = End
      <4>1. \A m \in Queue(root) : ~ (pos[Walk[j]] < pos[m])
        BY <3>1, <3>2 DEF Good, Order, Queue
      <4>2. \A m \in Queue(root) : pos[m] < head.seq + (j + 1)
        BY <4>1, <2>3, <2>4, <1>1
      <4> QED BY <2>2, <3>1, <3>2, <4>2
    <3>3. CASE next[Walk[j]] # End
      <4>1. next[Walk[j]] \in Queue(root) /\ pos[next[Walk[j]]] = pos[Walk[j]] + 1
        BY <3>1, <3>3 DEF Good, Order, Queue
      <4>2. pos[next[Walk[j]]] = head.seq + (j + 1)
        BY <4>1, <2>4, <1>1
      <4> QED BY <2>2, <3>1, <4>1, <4>2
    <3> QED BY <3>2, <3>3
  <2>5. CASE Walk[j] = End /\ \A m \in Queue(root) : pos[m] < head.seq + j
    <3>1. \A m \in Queue(root) : pos[m] < head.seq + (j + 1)
      BY <2>5, <2>3, <1>1
    <3> QED BY <2>2, <2>5, <3>1
  <2> QED BY <2>1, <2>4, <2>5
<1> HIDE DEF S
<1>4. Nat \subseteq S
  BY <1>2, <1>3, Induction
<1>5. k \in S /\ k <= MaxPushes + 1
  BY <1>4
<1> QED BY <1>5 DEF S

\* What Walk finds are the nodes in the queue; e is the last of them.
LEMMA QueueIs ==
  ASSUME NEW root, NEW pos, Good(root, pos), NEW e \in Nodes, root[e] = Null, next[e] = End
  PROVE  /\ InQueue = Queue(root)
         /\ pos[e] \in head.seq..pushes
         /\ \A m \in Queue(root) : pos[m] \in head.seq..pos[e]
         /\ \A k \in 0..(pos[e] - head.seq) :
              Walk[k] \in Queue(root) /\ pos[Walk[k]] = head.seq + k
         /\ Cardinality(InQueue) = pos[e] - head.seq + 1
         /\ DOMAIN Contents = 1..(pos[e] - head.seq)
         /\ \A k \in 1..(pos[e] - head.seq) : Contents[k] = elem[Walk[k]]
<1> USE Sets
<1>1. /\ head.seq \in Nat /\ pushes \in 0..MaxPushes /\ e \in Queue(root)
      /\ \A m \in Queue(root) : pos[m] \in Nat /\ head.seq <= pos[m] /\ pos[m] <= pushes
  <2>1. head.seq \in Nat /\ pushes \in 0..MaxPushes
    BY DEF Good, TypeOK
  <2>2. \A m \in Queue(root) : pos[m] \in Nat
    BY DEF Good, Order, Queue
  <2>3. \A m \in Queue(root) : head.seq <= pos[m] /\ pos[m] <= pushes
    BY Bounded DEF Queue
  <2> QED BY <2>1, <2>2, <2>3 DEF Queue
<1>2. \A m \in Queue(root) : pos[m] <= pos[e]
  <2>1. \A m \in Queue(root) : ~ (pos[e] < pos[m])
    BY DEF Good, Order, Queue, IsList
  <2> QED BY <2>1, <1>1
<1>3. \A m, n \in Queue(root) : pos[m] = pos[n] => m = n
  BY DEF Good, Order, Queue, IsList
<1>4. \A k \in 0..(pos[e] - head.seq) :
        Walk[k] \in Queue(root) /\ pos[Walk[k]] = head.seq + k
  <2> TAKE k \in 0..(pos[e] - head.seq)
  <2>1. k \in 0..(MaxPushes + 1) /\ pos[e] >= head.seq + k
    BY <1>1
  <2>2. ~ \A m \in Queue(root) : pos[m] < head.seq + k
    BY <1>1, <2>1
  <2> QED BY <2>1, <2>2, Walks
<1>5. InQueue = Queue(root)
  <2>1. ASSUME NEW k \in 0..(MaxPushes + 1), Walk[k] \in Nodes PROVE Walk[k] \in Queue(root)
    BY <2>1, Walks
  <2>2. ASSUME NEW n \in Queue(root) PROVE n \in {Walk[k] : k \in 0..(MaxPushes + 1)} \cap Nodes
    <3>1. pos[n] - head.seq \in 0..(pos[e] - head.seq)
      BY <1>1, <1>2
    <3>2. pos[n] - head.seq \in 0..(MaxPushes + 1)
      BY <1>1
    <3>3. Walk[pos[n] - head.seq] = n
      <4>1. /\ Walk[pos[n] - head.seq] \in Queue(root)
            /\ pos[Walk[pos[n] - head.seq]] = head.seq + (pos[n] - head.seq)
        BY <3>1, <1>4
      <4>2. head.seq + (pos[n] - head.seq) = pos[n]
        BY <1>1
      <4> QED BY <4>1, <4>2, <1>3
    <3> QED BY <3>2, <3>3 DEF Queue
  <2> QED BY <2>1, <2>2 DEF InQueue
<1>6. Cardinality(InQueue) = pos[e] - head.seq + 1
  <2> DEFINE D == 0..(pos[e] - head.seq)
             f == [k \in D |-> Walk[k]]
  <2>1. f \in [D -> Queue(root)]
    BY <1>4
  <2>2. \A j, k \in D : f[j] = f[k] => j = k
    <3> SUFFICES ASSUME NEW j \in D, NEW k \in D, f[j] = f[k] PROVE j = k
      OBVIOUS
    <3>1. pos[Walk[j]] = head.seq + j /\ pos[Walk[k]] = head.seq + k /\ Walk[j] = Walk[k]
      BY <1>4
    <3> QED BY <3>1, <1>1
  <2>3. \A n \in Queue(root) : \E k \in D : f[k] = n
    <3> TAKE n \in Queue(root)
    <3>1. pos[n] - head.seq \in D /\ head.seq + (pos[n] - head.seq) = pos[n]
      BY <1>1, <1>2
    <3>2. Walk[pos[n] - head.seq] = n
      BY <3>1, <1>3, <1>4
    <3> QED BY <3>1, <3>2
  <2> HIDE DEF f
  <2>4. f \in Bijection(D, Queue(root))
    BY <2>1, <2>2, <2>3 DEF Bijection, Injection, Surjection, IsInjective
  <2>5. IsFiniteSet(D) /\ Cardinality(D) = pos[e] - head.seq + 1
    <3>1. pos[e] - head.seq \in Nat
      <4>1. pos[e] \in Nat /\ head.seq <= pos[e] /\ head.seq \in Nat
        BY <1>1
      <4> QED BY <4>1
    <3>2. ASSUME NEW b \in Nat PROVE IsFiniteSet(0..b) /\ Cardinality(0..b) = b + 1
      <4>1. 0 \in Int /\ b \in Int /\ ~ (0 > b) /\ b - 0 + 1 = b + 1
        OBVIOUS
      <4>2. IsFiniteSet(0..b) /\ Cardinality(0..b) = IF 0 > b THEN 0 ELSE b - 0 + 1
        BY <4>1, FS_Interval, Zenon
      <4> QED BY <4>1, <4>2
    <3> QED BY <3>1, <3>2
  <2>6. Cardinality(Queue(root)) = Cardinality(D)
    BY <2>4, <2>5, FS_Bijection DEF ExistsBijection
  <2> QED BY <2>5, <2>6, <1>5
<1>7. Cardinality(InQueue) - 1 = pos[e] - head.seq
  BY <1>1, <1>6
<1> QED BY <1>1, <1>2, <1>4, <1>5, <1>6, <1>7 DEF Contents

\* A queue without items has one node, and Contents shows none.
LEMMA OneNode ==
  ASSUME NEW root, NEW pos, Good(root, pos), next[head.node] = End
  PROVE  Contents = <<>> /\ Queue(root) = {head.node}
<1> USE Sets
<1>1. head.node \in Nodes /\ root[head.node] = Null /\ pos[head.node] = head.seq /\ head.seq \in Nat
  BY DEF Good, TypeOK, Ends, Order
<1>2. Cardinality(InQueue) - 1 = 0
  BY <1>1, QueueIs
<1>3. Contents = <<>>
  BY <1>2 DEF Contents
<1>4. \A m \in Queue(root) : pos[m] = head.seq
  BY <1>1, QueueIs
<1>5. \A m \in Queue(root) : m = head.node
  BY <1>1, <1>4 DEF Good, Order, Queue, IsList
<1> QED BY <1>1, <1>3, <1>5 DEF Queue

\* With nodes that are not used again, what was pushed is in the queue or was taken.
LEMMA PushedIn ==
  ASSUME NEW root, NEW pos, Good(root, pos), ~recycle, NEW i \in done, taken[i] = 0
  PROVE  \E n \in Queue(root) : n # head.node /\ elem[n] = i
<1>1. i \in 1..pushes
  BY DEF Good, Books
<1>2. PICK n \in Nodes : Carries(root, n) /\ elem[n] = i
  BY <1>1 DEF Good, Cargo
<1>3. root[n] = Null \/ root[n] = n
  BY DEF Good, Plain
<1>4. CASE root[n] # Null
  <2>1. PICK u \in Threads : th[u].pc \in HoldPcs /\ th[u].node = n
    BY <1>2, <1>3, <1>4 DEF Carries, Pending, Pushed
  <2>2. elem[n] = th[u].elem
    BY <2>1, Facts DEF PushOK
  <2>3. th[u].elem \notin done
    BY <2>1 DEF Good, Books, OpenPcs
  <2> QED BY <1>2, <2>2, <2>3
<1>5. CASE root[n] = Null
  BY <1>2, <1>5 DEF Carries, Pending, Queue
<1> QED BY <1>4, <1>5

\* With nothing linked behind the head, and nodes not used again, the queue is empty.
LEMMA SeenEmpty ==
  ASSUME NEW root, NEW pos, Good(root, pos), ~recycle, next[head.node] = End
  PROVE  IsEmpty
<1>1. ASSUME NEW i \in done PROVE taken[i] > 0
  <2>1. taken[i] # 0
    BY PushedIn, OneNode
  <2>2. taken \in [Null..MaxPushes -> Nat] /\ done \subseteq 1..MaxPushes
    BY DEF Good, TypeOK, Items
  <2>3. i \in Null..MaxPushes
    BY <2>2, Sets
  <2> QED BY <2>1, <2>2, <2>3
<1> QED BY <1>1, OneNode DEF IsEmpty

-----------------------------------------------------------------------------
(* The other steps of Pop that only read                                   *)

LEMMA ReadHeadNextGood ==
  ASSUME NEW root, NEW pos, Good(root, pos), NEW t \in Threads, ReadHeadNext(t), Watched
  PROVE  Good(root, pos)'
<1> USE Sets
<1> DEFINE l == th[t]
<1>1. l.pc = "next" /\ l \in ThreadType /\ PopOK(t, root, l)
  BY Facts DEF ReadHeadNext, At
<1>2. l.link.node \in Nodes /\ next[l.link.node] \in Pointers
  BY <1>1, Facts DEF PopOK, HeadPcs, PopPcs
<1>3. PICK k : k = [l EXCEPT !.pc = "recheck", !.pNext = next[l.link.node]]
  OBVIOUS
<1>4. k \in ThreadType /\ k.pc = "recheck" /\ k.link = l.link /\ k.tailSeq = l.tailSeq
      /\ k.pNext = next[l.link.node]
  BY <1>1, <1>2, <1>3 DEF ThreadType, PopPcs
<1>5. ~recycle /\ k.pNext = End => t \in empty
  <2> SUFFICES ASSUME ~recycle, next[l.link.node] = End PROVE t \in empty
    BY <1>4
  <2>1. ~Pending(root, l.link.node) /\ (root[l.link.node] = Null => l.link.node = head.node)
    BY <1>1 DEF PopOK, HeadPcs, PopPcs
  <2>2. IsList(root[l.link.node])
    BY <1>2 DEF Good, Ends
  <2>3. root[l.link.node] = Null
    <3> SUFFICES ASSUME root[l.link.node] # Null PROVE FALSE
      OBVIOUS
    <3>1. PICK u \in Threads : th[u].pc \in RootPcs /\ th[u].node = root[l.link.node]
      BY <2>2 DEF IsList
    <3>2. Pushed(root[l.link.node])
      BY <3>1 DEF RootPcs, Pushed
    <3> QED BY <2>1, <3>2 DEF Pending
  <2>4. IsEmpty
    BY <2>1, <2>3, SeenEmpty
  <2> QED BY <1>1, <2>4 DEF Good, Asked, Popping, PopPcs
<1>6. PopOK(t, root, k)
  <2>1. /\ l.link.node \in Nodes /\ l.link.seq <= head.seq /\ l.tailSeq <= tail.seq
        /\ l.link.seq = head.seq => l.link.node = head.node
        /\ ~recycle =>
             /\ ~Pending(root, l.link.node) /\ l.link.node <= used
             /\ root[l.link.node] = Null => l.link.node = head.node
    BY <1>1 DEF PopOK, HeadPcs, PopPcs
  <2> QED BY <1>4, <1>5, <2>1 DEF PopOK, HeadPcs, NextPcs, GotPcs, PopPcs
<1>7. Goto(t, k) /\ l.pc \in PopPcs /\ k.pc \in PopPcs
  BY <1>1, <1>3, <1>4 DEF ReadHeadNext, PopPcs
<1> QED BY <1>4, <1>6, <1>7, Reading DEF ReadHeadNext

LEMMA RecheckGood ==
  ASSUME NEW root, NEW pos, Good(root, pos), NEW t \in Threads, Recheck(t), Watched
  PROVE  Good(root, pos)'
<1> USE Sets
<1> DEFINE l == th[t]
<1>1. l.pc = "recheck" /\ l \in ThreadType /\ PopOK(t, root, l)
  BY Facts DEF Recheck, At
<1>2. CASE l.pNext = Null \/ l.link.seq # head.seq
  <2>1. PICK k : k = Again
    OBVIOUS
  <2>2. Goto(t, k)
    BY <1>2, <2>1 DEF Recheck
  <2>3. l.pc \notin OpenPcs \cup GotPcs
    BY <1>1 DEF OpenPcs, HoldPcs, GotPcs
  <2> QED BY <2>1, <2>2, <2>3, Empty, Resting DEF Recheck
<1>3. CASE ~ (l.pNext = Null \/ l.link.seq # head.seq)
  <2>1. PICK k : k = [l EXCEPT !.pc = "compare"]
    OBVIOUS
  <2>2. k \in ThreadType /\ k.pc = "compare" /\ k.link = l.link /\ k.tailSeq = l.tailSeq
        /\ k.pNext = l.pNext
    BY <1>1, <2>1 DEF ThreadType, PopPcs
  <2>3. PopOK(t, root, k)
    BY <1>1, <1>3, <2>2 DEF PopOK, HeadPcs, NextPcs, PopPcs, GotPcs
  <2>4. Goto(t, k) /\ l.pc \in PopPcs /\ k.pc \in PopPcs
    BY <1>1, <1>3, <2>1, <2>2 DEF Recheck, PopPcs
  <2> QED BY <2>2, <2>3, <2>4, Reading DEF Recheck
<1> QED BY <1>2, <1>3

LEMMA CompareTailGood ==
  ASSUME NEW root, NEW pos, Good(root, pos), NEW t \in Threads, CompareTail(t), Watched
  PROVE  Good(root, pos)'
<1> USE Sets
<1> DEFINE l == th[t]
<1>1. l.pc = "compare" /\ l \in ThreadType /\ PopOK(t, root, l)
  BY Facts DEF CompareTail, At
<1>2. l.pc \in PopPcs /\ l.pc \notin OpenPcs \cup GotPcs
  BY <1>1 DEF PopPcs, OpenPcs, HoldPcs, GotPcs
<1>3. PICK k : k = Compare(l)
  OBVIOUS
<1>4. Goto(t, k)
  BY <1>3 DEF CompareTail
<1>5. CASE k \in {Idle, Again}
  BY <1>2, <1>4, <1>5, Empty, Resting DEF CompareTail
<1>6. CASE l.link.node = tail.node /\ l.pNext # End
  <2>1. k = [l EXCEPT !.pc = "helpPop", !.link.seq = l.tailSeq]
    BY <1>3, <1>6 DEF Compare
  <2>2. k.link \in [node: Null..(MaxPushes + 1), seq: 0..Unread] /\ k.pc = "helpPop"
        /\ k.link.node = l.link.node /\ k.link.seq = l.tailSeq /\ k.pNext = l.pNext
    BY <1>1, <2>1 DEF ThreadType
  <2>3. k \in ThreadType
    BY <1>1, <2>1, <2>2 DEF ThreadType, PopPcs
  <2>4. l.pNext \in Nodes
    BY <1>1, <1>6 DEF PopOK, ThreadType
  <2>5. PopOK(t, root, k)
    <3>1. l.link.node \in Nodes /\ l.tailSeq <= tail.seq
          /\ (l.link.node = tail.node /\ l.tailSeq = tail.seq => l.pNext = next[tail.node])
      BY <1>1, <1>6 DEF PopOK, HeadPcs, PopPcs
    <3> QED BY <2>2, <2>4, <3>1 DEF PopOK, HeadPcs, NextPcs, PopPcs, GotPcs
  <2> QED BY <1>2, <1>4, <2>2, <2>3, <2>5, Reading DEF CompareTail, PopPcs
<1>7. CASE l.link.node # tail.node /\ l.pNext # End
  <2>1. k = [l EXCEPT !.pc = "readElem"]
    BY <1>3, <1>7 DEF Compare
  <2>2. k \in ThreadType /\ k.pc = "readElem" /\ k.link = l.link /\ k.pNext = l.pNext
    BY <1>1, <2>1 DEF ThreadType, PopPcs
  <2>3. l.pNext \in Nodes
    BY <1>1, <1>7 DEF PopOK, ThreadType
  <2>4. PopOK(t, root, k)
    BY <1>1, <1>7, <2>2, <2>3 DEF PopOK, HeadPcs, NextPcs, PopPcs, GotPcs
  <2> QED BY <1>2, <1>4, <2>2, <2>4, Reading DEF CompareTail, PopPcs
<1> QED BY <1>3, <1>5, <1>6, <1>7 DEF Compare

LEMMA ReadElemGood ==
  ASSUME NEW root, NEW pos, Good(root, pos), NEW t \in Threads, ReadElem(t), Watched
  PROVE  Good(root, pos)'
<1> USE Sets
<1> DEFINE l == th[t]
<1>1. l.pc = "readElem" /\ l \in ThreadType /\ PopOK(t, root, l)
  BY Facts DEF ReadElem, At
<1>2. l.pNext \in Nodes /\ elem[l.pNext] \in Null..MaxPushes
  BY <1>1, Facts DEF PopOK
<1>3. PICK k : k = [l EXCEPT !.pc = "takeHead", !.elem = elem[l.pNext]]
  OBVIOUS
<1>4. k \in ThreadType /\ k.pc = "takeHead" /\ k.link = l.link /\ k.pNext = l.pNext
      /\ k.elem = elem[l.pNext]
  BY <1>1, <1>2, <1>3 DEF ThreadType, PopPcs
<1>5. PopOK(t, root, k)
  BY <1>1, <1>4 DEF PopOK, HeadPcs, NextPcs, PopPcs, GotPcs
<1>6. Goto(t, k) /\ l.pc \in PopPcs /\ k.pc \in PopPcs
  BY <1>1, <1>3, <1>4 DEF ReadElem, PopPcs
<1> QED BY <1>4, <1>5, <1>6, Reading DEF ReadElem

-----------------------------------------------------------------------------
(* The steps of Push that only read, and those that move the tail          *)

\* A push that does not link its node: it is read why.
LEMMA LinkFails ==
  ASSUME NEW root, NEW pos, Good(root, pos), NEW t \in Threads, Link(t),
         next[th[t].link.node] # End, Watched
  PROVE  Good(root, pos)'
<1> USE Sets
<1> DEFINE l == th[t]
<1>1. l.pc = "link" /\ l \in ThreadType /\ PushOK(root, pos, l)
  BY Facts DEF Link, At
<1>2. PICK k : k = [l EXCEPT !.pc = "readNext"]
  OBVIOUS
<1>3. k \in ThreadType /\ k.pc = "readNext" /\ k.link = l.link /\ k.node = l.node /\ k.elem = l.elem
  BY <1>1, <1>2 DEF ThreadType, PushPcs
<1>4. PushOK(root, pos, k)
  BY <1>1, <1>3 DEF PushOK, HoldPcs, RootPcs, TriedPcs
<1>5. PopOK(t, root, k)
  BY <1>3 DEF PopOK, HeadPcs, NextPcs, PopPcs, GotPcs
<1>6. Goto(t, k) /\ UNCHANGED <<next, elem, head, tail, count, free, calls, history>>
  BY <1>2 DEF Link
<1>7. /\ l.pc \in HoldPcs /\ k.pc \in HoldPcs /\ l.pc \in RootPcs /\ k.pc \in RootPcs
      /\ l.pc \in OpenPcs /\ k.pc \in OpenPcs /\ l.pc \notin GotPcs /\ k.pc \notin GotPcs
  BY <1>1, <1>3 DEF HoldPcs, RootPcs, OpenPcs, GotPcs
<1> QED BY <1>3, <1>4, <1>5, <1>6, <1>7, Softly

LEMMA ReadNextGood ==
  ASSUME NEW root, NEW pos, Good(root, pos), NEW t \in Threads, ReadNext(t), Watched
  PROVE  Good(root, pos)'
<1> USE Sets
<1> DEFINE l == th[t]
<1>1. l.pc = "readNext" /\ l \in ThreadType /\ PushOK(root, pos, l)
  BY Facts DEF ReadNext, At
<1>2. l.link.node \in Nodes /\ next[l.link.node] \in Pointers
  BY <1>1, Facts DEF PushOK, TriedPcs
<1>3. PICK k : k = [l EXCEPT !.pc = "helpPush", !.pNext = next[l.link.node]]
  OBVIOUS
<1>4. k \in ThreadType /\ k.pc = "helpPush" /\ k.link = l.link /\ k.node = l.node /\ k.elem = l.elem
      /\ k.pNext = next[l.link.node]
  BY <1>1, <1>2, <1>3 DEF ThreadType, PushPcs
<1>5. PushOK(root, pos, k)
  BY <1>1, <1>4 DEF PushOK, HoldPcs, RootPcs, TriedPcs
<1>6. PopOK(t, root, k)
  BY <1>4 DEF PopOK, HeadPcs, NextPcs, PopPcs, GotPcs
<1>7. /\ l.pc \in HoldPcs /\ k.pc \in HoldPcs /\ l.pc \in RootPcs /\ k.pc \in RootPcs
      /\ l.pc \in OpenPcs /\ k.pc \in OpenPcs /\ l.pc \notin GotPcs /\ k.pc \notin GotPcs
  BY <1>1, <1>4 DEF HoldPcs, RootPcs, OpenPcs, GotPcs
<1>8. Goto(t, k)
  BY <1>3 DEF ReadNext
<1> QED BY <1>4, <1>5, <1>6, <1>7, <1>8, Softly DEF ReadNext

\* FinishPush moves the tail to the next node or leaves it.
LEMMA Finishes ==
  ASSUME NEW root, NEW pos, Good(root, pos), NEW n, NEW link, FinishPush(n, link),
         tail = link => next[tail.node] # End /\ n = next[tail.node]
  PROVE  TailMoves /\ tail'.seq \in Int /\ tail'.seq >= tail.seq
<1>1. tail.seq \in Int
  BY DEF Good, TypeOK
<1>2. TailMoves
  BY DEF FinishPush, TailMoves
<1>3. tail' = tail \/ tail'.seq = tail.seq + 1
  BY <1>2 DEF TailMoves
<1> QED BY <1>1, <1>2, <1>3

LEMMA HelpPushGood ==
  ASSUME NEW root, NEW pos, Good(root, pos), NEW t \in Threads, HelpPush(t), Watched
  PROVE  Good(root, pos)'
<1> USE Sets
<1> DEFINE l == th[t]
<1>1. l.pc = "helpPush" /\ l \in ThreadType /\ PushOK(root, pos, l)
  BY Facts DEF HelpPush, At
<1>2. TailMoves
  <2>1. PICK n, link : n = l.pNext /\ link = l.link
    OBVIOUS
  <2>2. tail = link => next[tail.node] # End /\ n = next[tail.node]
    BY <1>1, <2>1 DEF PushOK
  <2>3. FinishPush(n, link)
    BY <2>1 DEF HelpPush, FinishPush
  <2> QED BY <2>2, <2>3, Finishes
<1>3. PICK k : k = [Idle EXCEPT !.pc = "readTail", !.node = l.node, !.elem = l.elem]
  OBVIOUS
<1>4. k.pc = "readTail" /\ k.node = l.node /\ k.elem = l.elem /\ k.link.node = Null /\ k.link.seq = Unread
  BY <1>3 DEF Idle
<1>5. k \in ThreadType
  BY <1>1, <1>3, Empty DEF ThreadType, PushPcs
<1>6. Goto(t, k) /\ UNCHANGED <<next, elem, head, count, free, calls, history>>
  BY <1>3 DEF HelpPush
<1>7. th' \in [Threads -> ThreadType] /\ th'[t] = k /\ Others(t)
  BY <1>5, <1>6, Facts, Goes
<1>8. Alike(t) /\ Earns(t)
  BY <1>1, <1>4, <1>7 DEF Alike, Earns, HoldPcs, RootPcs, HeldPcs, OpenPcs, GotPcs, At, Holds
<1>9. (PushOK(root, pos, th[t]) /\ PopOK(t, root, th[t]))'
  <2>1. elem[l.node] = l.elem
    BY <1>1 DEF PushOK, HoldPcs
  <2>2. PushOK(root, pos, th[t])'
    BY <1>4, <1>6, <1>7, <2>1 DEF PushOK, TriedPcs
  <2>3. PopOK(t, root, th[t])'
    BY <1>4, <1>7 DEF PopOK, HeadPcs, NextPcs, PopPcs, GotPcs
  <2> QED BY <2>2, <2>3
<1> QED BY <1>2, <1>6, <1>7, <1>8, <1>9, Quietly

LEMMA FinishGood ==
  ASSUME NEW root, NEW pos, Good(root, pos), NEW t \in Threads, Finish(t), Watched
  PROVE  Good(root, pos)'
<1> USE Sets
<1> DEFINE l == th[t]
<1>1. l.pc = "finish" /\ l \in ThreadType /\ PushOK(root, pos, l)
  BY Facts DEF Finish, At
<1>2. TailMoves
  <2>1. PICK n, link : n = l.node /\ link = l.link
    OBVIOUS
  <2>2. tail = link => next[tail.node] # End /\ n = next[tail.node]
    BY <1>1, <2>1 DEF PushOK
  <2>3. FinishPush(n, link)
    BY <2>1 DEF Finish, FinishPush
  <2> QED BY <2>2, <2>3, Finishes
<1>3. PICK k : k = [Idle EXCEPT !.pc = "count", !.elem = l.elem]
  OBVIOUS
<1>4. k.pc = "count" /\ k.elem = l.elem
  BY <1>3 DEF Idle
<1>5. k \in ThreadType
  BY <1>1, <1>3, Empty DEF ThreadType, PushPcs
<1>6. Goto(t, k) /\ UNCHANGED <<next, elem, head, count, free, calls, history>>
  BY <1>3 DEF Finish
<1>7. th' \in [Threads -> ThreadType] /\ th'[t] = k /\ Others(t)
  BY <1>5, <1>6, Facts, Goes
<1>8. Alike(t) /\ Earns(t)
  BY <1>1, <1>4, <1>7 DEF Alike, Earns, HoldPcs, RootPcs, HeldPcs, OpenPcs, GotPcs, At, Holds
<1>9. (PushOK(root, pos, th[t]) /\ PopOK(t, root, th[t]))'
  <2>1. PushOK(root, pos, th[t])'
    BY <1>4, <1>7 DEF PushOK, TriedPcs, HoldPcs, RootPcs
  <2>2. PopOK(t, root, th[t])'
    BY <1>4, <1>7 DEF PopOK, HeadPcs, NextPcs, PopPcs, GotPcs
  <2> QED BY <2>1, <2>2
<1> QED BY <1>2, <1>6, <1>7, <1>8, <1>9, Quietly

LEMMA HelpPopGood ==
  ASSUME NEW root, NEW pos, Good(root, pos), NEW t \in Threads, HelpPop(t), Watched
  PROVE  Good(root, pos)'
<1> USE Sets
<1> DEFINE l == th[t]
<1>1. l.pc = "helpPop" /\ l \in ThreadType /\ PopOK(t, root, l)
  BY Facts DEF HelpPop, At
<1>2. TailMoves
  <2>1. PICK n, link : n = l.pNext /\ link = l.link
    OBVIOUS
  <2>2. tail = link => next[tail.node] # End /\ n = next[tail.node]
    BY <1>1, <2>1 DEF PopOK
  <2>3. FinishPush(n, link)
    BY <2>1 DEF HelpPop, FinishPush
  <2> QED BY <2>2, <2>3, Finishes
<1>3. PICK k : k = Again
  OBVIOUS
<1>4. k \in ThreadType /\ k.pc = "headSeq" /\ Goto(t, k)
  BY <1>3, Empty DEF HelpPop
<1>5. th' \in [Threads -> ThreadType] /\ th'[t] = k /\ Others(t)
  BY <1>4, Facts, Goes
<1>6. Alike(t) /\ Earns(t)
  BY <1>1, <1>4, <1>5 DEF Alike, Earns, HoldPcs, RootPcs, HeldPcs, OpenPcs, GotPcs, At, Holds
<1>7. (PushOK(root, pos, th[t]) /\ PopOK(t, root, th[t]))'
  <2>1. PushOK(root, pos, th[t])'
    BY <1>4, <1>5 DEF PushOK, TriedPcs, HoldPcs, RootPcs
  <2>2. PopOK(t, root, th[t])'
    BY <1>4, <1>5 DEF PopOK, HeadPcs, NextPcs, PopPcs, GotPcs
  <2> QED BY <2>1, <2>2
<1> QED BY <1>2, <1>5, <1>6, <1>7, Quietly DEF HelpPop

-----------------------------------------------------------------------------
(* The steps that count                                                    *)

Uncounting == {u \in Threads : At(u, "uncount")}

\* Count differs from the items in the queue by the threads that still have to count.
LEMMA Tallies ==
  ASSUME NEW root, NEW pos, Good(root, pos)
  PROVE  /\ IsFiniteSet(done) /\ Cardinality(done) \in Int
         /\ IsFiniteSet(Uncounting) /\ Cardinality(Uncounting) \in Int
         /\ head.seq \in Int /\ count \in Int /\ pushes \in Nat
         /\ count = Cardinality(done) - head.seq + Cardinality(Uncounting)
<1>1. pushes \in Nat /\ head.seq \in Int /\ count \in Int
  BY DEF Good, TypeOK
<1>2. IsFiniteSet(1..pushes)
  BY <1>1, FS_Interval
<1>3. done \subseteq 1..pushes
  BY DEF Good, Books
<1>4. IsFiniteSet(done)
  BY <1>2, <1>3, FS_Subset
<1>5. IsFiniteSet(Uncounting)
  <2>1. IsFiniteSet(Threads)
    BY ConstantsAssumption
  <2>2. Uncounting \subseteq Threads
    BY DEF Uncounting
  <2> QED BY <2>1, <2>2, FS_Subset
<1>6. count = Cardinality(done) - head.seq + Cardinality(Uncounting)
  BY DEF Good, Books, Uncounting
<1> QED BY <1>1, <1>4, <1>5, <1>6, FS_CardinalityType

LEMMA CountGood ==
  ASSUME NEW root, NEW pos, Good(root, pos), NEW t \in Threads, Count(t), Watched
  PROVE  Good(root, pos)'
<1> USE Sets
<1> DEFINE l == th[t]
<1>1. /\ l.pc = "count" /\ count' = count + 1 /\ done' = done \cup {l.elem} /\ Goto(t, Idle)
      /\ UNCHANGED <<next, elem, head, tail, free, calls, taken>>
  BY DEF Count, At
<1>2. th' \in [Threads -> ThreadType] /\ th'[t] = Idle /\ Others(t)
  BY <1>1, Empty, Facts, Goes
<1>3. Alike(t)
  BY <1>1, <1>2, Empty DEF Alike, HoldPcs, RootPcs, HeldPcs, GotPcs, Holds
<1>4. count \in Int /\ pushes \in Nat
  BY DEF Good, TypeOK
<1>5. Books'
  <2>1. Books
    BY DEF Good
  <2>2. l.elem \in (1..pushes) \ done
    BY <1>1, <2>1 DEF Books, OpenPcs
  <2>3. \A u \in Threads \ {t} : th'[u] = th[u]
    BY <1>2 DEF Others
  <2>4. th'[t].pc \notin OpenPcs /\ ~ At(t, "uncount") /\ ~ At(t, "uncount")'
    BY <1>1, <1>2, Empty DEF OpenPcs, HoldPcs, At
  <2>5. Uncounting' = Uncounting
    BY <2>3, <2>4 DEF At, Uncounting
  <2>6. Cardinality(done') = Cardinality(done) + 1
    <3>1. IsFiniteSet(done) /\ l.elem \notin done
      BY <2>2, Tallies
    <3>2. Cardinality(done \cup {l.elem}) = Cardinality(done) + 1
      BY <3>1, FS_AddElement
    <3> QED BY <1>1, <3>2
  <2>7. head' = head
    BY <1>1
  <2>8. count' = Cardinality(done') - head'.seq + Cardinality(Uncounting')
    <3>1. count = Cardinality(done) - head.seq + Cardinality(Uncounting) /\ count' = count + 1
          /\ Cardinality(done) \in Int /\ head.seq \in Int /\ Cardinality(Uncounting) \in Int
      BY <1>1, Tallies
    <3>2. count' = (Cardinality(done) + 1) - head.seq + Cardinality(Uncounting)
      BY <3>1
    <3> QED BY <2>5, <2>6, <2>7, <3>2
  <2>9. pushes' = pushes
    BY <1>1 DEF calls
  <2>10. done' \subseteq 1..pushes'
    BY <1>1, <2>1, <2>2, <2>9 DEF Books
  <2>11. \A u \in Threads : th'[u].pc \in OpenPcs => th'[u].elem \in (1..pushes') \ done'
    <3> SUFFICES ASSUME NEW u \in Threads, th'[u].pc \in OpenPcs
                 PROVE  th'[u].elem \in (1..pushes') \ done'
      OBVIOUS
    <3>1. u # t /\ th'[u] = th[u]
      BY <2>3, <2>4
    <3>2. th[u].elem \in (1..pushes) \ done
      BY <3>1, <2>1 DEF Books
    <3>3. th[u].elem # l.elem
      BY <3>1, <1>1, <2>1 DEF Books, OpenPcs
    <3> QED BY <1>1, <2>9, <3>1, <3>2, <3>3
  <2>12. \A u, v \in Threads :
           th'[u].pc \in OpenPcs /\ th'[v].pc \in OpenPcs /\ th'[u].elem = th'[v].elem => u = v
    BY <2>1, <2>3, <2>4 DEF Books
  <2>13. \A i \in 1..pushes' : i \in done' \/ \E u \in Threads : th'[u].pc \in OpenPcs /\ th'[u].elem = i
    BY <1>1, <2>1, <2>3, <2>9 DEF Books
  <2> QED BY <2>8, <2>10, <2>11, <2>12, <2>13 DEF Books, Uncounting
<1>6. (PushOK(root, pos, th[t]) /\ PopOK(t, root, th[t]))'
  BY <1>2, Empty DEF PushOK, TriedPcs, HoldPcs, RootPcs, PopOK, HeadPcs, NextPcs, PopPcs, GotPcs
<1> QED BY <1>1, <1>2, <1>3, <1>4, <1>5, <1>6, SameLists DEF TailMoves

LEMMA UncountGood ==
  ASSUME NEW root, NEW pos, Good(root, pos), NEW t \in Threads, Uncount(t), Watched
  PROVE  Good(root, pos)'
<1> USE Sets
<1> DEFINE l == th[t]
<1>1. /\ l.pc = "uncount" /\ l \in ThreadType /\ PopOK(t, root, l) /\ count' = count - 1
      /\ UNCHANGED <<next, elem, head, tail, free, calls, history>>
  BY Facts DEF Uncount, At
<1>2. PICK k : k = [l EXCEPT !.pc = "giveBack"]
  OBVIOUS
<1>3. k \in ThreadType /\ k.pc = "giveBack" /\ k.node = l.node /\ k.elem = l.elem
  BY <1>1, <1>2 DEF ThreadType, GotPcs
<1>4. Goto(t, k)
  BY <1>2 DEF Uncount
<1>5. th' \in [Threads -> ThreadType] /\ th'[t] = k /\ Others(t)
  BY <1>3, <1>4, Facts, Goes
<1>6. Alike(t)
  BY <1>1, <1>3, <1>5 DEF Alike, HoldPcs, RootPcs, HeldPcs, GotPcs, Holds
<1>7. count \in Int /\ pushes \in Nat
  BY DEF Good, TypeOK
<1>8. Books'
  <2>1. Books
    BY DEF Good
  <2>2. \A u \in Threads \ {t} : th'[u] = th[u]
    BY <1>5 DEF Others
  <2>3. th'[t].pc \notin OpenPcs /\ l.pc \notin OpenPcs /\ At(t, "uncount") /\ ~ At(t, "uncount")'
    BY <1>1, <1>3, <1>5 DEF OpenPcs, HoldPcs, At
  <2>4. Uncounting' = Uncounting \ {t} /\ t \in Uncounting
    BY <2>2, <2>3 DEF At, Uncounting
  <2>5. Cardinality(Uncounting') = Cardinality(Uncounting) - 1
    <3>1. IsFiniteSet(Uncounting)
      BY Tallies
    <3>2. Cardinality(Uncounting \ {t}) = Cardinality(Uncounting) - 1
      BY <2>4, <3>1, FS_RemoveElement
    <3> QED BY <2>4, <3>2
  <2>7. done' = done /\ pushes' = pushes /\ head' = head
    BY <1>1 DEF calls, history
  <2>8. count' = Cardinality(done') - head'.seq + Cardinality(Uncounting')
    <3>1. count = Cardinality(done) - head.seq + Cardinality(Uncounting) /\ count' = count - 1
          /\ Cardinality(done) \in Int /\ head.seq \in Int /\ Cardinality(Uncounting) \in Int
      BY <1>1, Tallies
    <3>2. count' = Cardinality(done) - head.seq + (Cardinality(Uncounting) - 1)
      BY <3>1
    <3> QED BY <2>5, <2>7, <3>2
  <2>9. /\ (done \subseteq 1..pushes)'
        /\ \A u \in Threads : th'[u].pc \in OpenPcs => th'[u].elem \in (1..pushes') \ done'
        /\ \A u, v \in Threads :
             th'[u].pc \in OpenPcs /\ th'[v].pc \in OpenPcs /\ th'[u].elem = th'[v].elem => u = v
        /\ \A i \in 1..pushes' : i \in done' \/ \E u \in Threads : th'[u].pc \in OpenPcs /\ th'[u].elem = i
    BY <2>1, <2>2, <2>3, <2>7 DEF Books
  <2> QED BY <2>8, <2>9 DEF Books, Uncounting
<1>9. (PushOK(root, pos, th[t]) /\ PopOK(t, root, th[t]))'
  <2>1. PushOK(root, pos, th[t])'
    BY <1>3, <1>5 DEF PushOK, TriedPcs, HoldPcs, RootPcs
  <2>2. PopOK(t, root, th[t])'
    BY <1>1, <1>3, <1>5 DEF PopOK, HeadPcs, NextPcs, PopPcs, GotPcs
  <2> QED BY <2>1, <2>2
<1>10. count' \in Int
  BY <1>1, <1>7
<1> QED BY <1>1, <1>5, <1>6, <1>8, <1>9, <1>10, SameLists DEF TailMoves, history

-----------------------------------------------------------------------------
(* Push: the node becomes a list                                           *)

\* A new node becomes a list of its own.
LEMMA SetNextGood ==
  ASSUME NEW root, NEW pos, Good(root, pos), NEW t \in Threads, SetNext(t), Watched
  PROVE  \E pos2 : Good(root, pos2)' /\ \A n \in Queue(root) : pos2[n] = pos[n]
<1> USE Sets
<1> DEFINE l == th[t]
<1>0. PICK n, pos2 : n = l.node /\ pos2 = [pos EXCEPT ![n] = 0]
  OBVIOUS
<1>1. /\ l.pc = "setNext" /\ l \in ThreadType /\ PushOK(root, pos, l)
      /\ next' = [next EXCEPT ![n] = End]
      /\ UNCHANGED <<elem, head, tail, count, free, calls, history>>
  BY <1>0, Facts DEF SetNext, At
<1>2. PICK k : k = [l EXCEPT !.pc = "readTail"]
  OBVIOUS
<1>3. k \in ThreadType /\ k.pc = "readTail" /\ k.node = l.node /\ k.elem = l.elem /\ k.link = l.link
  BY <1>1, <1>2 DEF ThreadType, PushPcs
<1>4. th' \in [Threads -> ThreadType] /\ th'[t] = k /\ Others(t)
  <2>1. Goto(t, k)
    BY <1>2 DEF SetNext
  <2> QED BY <1>3, <2>1, Facts, Goes
<1>5. Earns(t)
  BY <1>1, <1>3, <1>4 DEF Earns, OpenPcs, HoldPcs, At
<1>6. /\ head' = head /\ tail' = tail /\ elem' = elem /\ free' = free /\ count' = count /\ used' = used
      /\ pushes' = pushes /\ recycle' = recycle /\ done' = done /\ taken' = taken
  BY <1>1 DEF calls, history
<1>7. TypeOK /\ Own(root) /\ Ends(root) /\ Order(root, pos) /\ Cargo(root) /\ Books /\ Plain(root, pos)
  BY DEF Good
<1>8. Holds(t) /\ n \in Nodes /\ root[n] = n /\ n # Null
  <2>1. Holds(t)
    BY <1>1 DEF Holds, HeldPcs, HoldPcs
  <2>2. n \in Nodes /\ root[n] = n
    BY <2>1, <1>0, Holders
  <2> QED BY <1>0, <2>1, <2>2
<1>9. \A u \in Threads : u # t => th'[u] = th[u]
  BY <1>4 DEF Others
<1>10. \A u \in Threads \ {t} : Holds(u) => th[u].node # n
  BY <1>0, <1>7, <1>8 DEF Own
<1>11. \A u \in Threads : /\ (Holds(u)' <=> Holds(u)) /\ th'[u].node = th[u].node
                          /\ (th'[u].pc \in HoldPcs <=> th[u].pc \in HoldPcs)
                          /\ (th'[u].pc \in RootPcs <=> (th[u].pc \in RootPcs \/ u = t))
                          /\ (th[u].pc \in RootPcs => Holds(u) /\ u # t)
  BY <1>1, <1>3, <1>4, <1>9 DEF Holds, HeldPcs, HoldPcs, RootPcs
<1>12. \A c : IsList(c)' <=> IsList(c) \/ c = n
  BY <1>0, <1>11 DEF IsList
<1>13. ~ IsList(n)
  BY <1>8, <1>10, <1>11 DEF IsList
<1>14. \A m \in Nodes : root[m] = n => m = n
  BY <1>7, <1>13 DEF Own
<1>15. \A m : (Pending(root, m)' <=> Pending(root, m)) /\ (Carries(root, m)' <=> Carries(root, m))
  BY <1>6, <1>11 DEF Pending, Carries, Pushed
<1>16. \A c : Base(c)' = Base(c)
  BY <1>6 DEF Base
<1>17. next' \in [Nodes -> Pointers] /\ next'[n] = End /\ \A m \in Nodes : m # n => next'[m] = next[m]
  BY <1>1, <1>7, <1>8 DEF TypeOK
<1>18. pos2 \in [Nodes -> Nat] /\ pos2[n] = 0 /\ \A m \in Nodes : m # n => pos2[m] = pos[m]
  BY <1>0, <1>7, <1>8 DEF Order
<1>19. /\ head.node # n /\ tail.node # n /\ head.node \in Nodes /\ tail.node \in Nodes
       /\ next[n] # End
  <2>1. head.node \in Nodes /\ tail.node \in Nodes
    BY <1>7 DEF TypeOK
  <2>2. root[head.node] = Null /\ root[tail.node] = Null
    BY <1>7 DEF Ends
  <2>3. next[n] # End
    BY <1>7, <1>8, <1>13 DEF Ends
  <2> QED BY <2>1, <2>2, <2>3, <1>8
<1>20. TypeOK'
  <2>1. empty' \subseteq Threads
    BY AskedKept
  <2> QED BY <1>4, <1>6, <1>7, <1>17, <2>1 DEF TypeOK
<1>21. Own(root)'
  BY <1>6, <1>7, <1>11, <1>12 DEF Own
<1>22. Ends(root)'
  <2>1. \A m \in Nodes : next'[m] = End => IsList(root[m])'
    BY <1>7, <1>8, <1>12, <1>17 DEF Ends
  <2>2. \A c \in Null..(MaxPushes + 1) : IsList(c)' => \E m \in Nodes : root[m] = c /\ next'[m] = End
    BY <1>7, <1>8, <1>12, <1>17 DEF Ends
  <2>3. \A m \in Nodes : root[m] # Null /\ IsList(root[m])' => elem'[m] <= elem'[root[m]]
    <3> SUFFICES ASSUME NEW m \in Nodes, root[m] # Null, IsList(root[m])' PROVE elem[m] <= elem[root[m]]
      BY <1>6
    <3>1. CASE root[m] = n
      <4>1. m = n /\ elem[m] \in Null..MaxPushes
        BY <3>1, <1>14, Facts
      <4> QED BY <3>1, <4>1
    <3>2. CASE root[m] # n
      BY <3>2, <1>7, <1>12 DEF Ends
    <3> QED BY <3>1, <3>2
  <2> QED BY <1>6, <1>7, <2>1, <2>2, <2>3 DEF Ends
<1>23. Order(root, pos2)'
  <2>1. pos2[head'.node] = head'.seq /\ pos2[tail'.node] = tail'.seq
    BY <1>6, <1>7, <1>18, <1>19 DEF Order
  <2>2. \A u \in Threads : th'[u].pc \in RootPcs => pos2[th'[u].node] = 0
    <3> SUFFICES ASSUME NEW u \in Threads, th[u].pc \in RootPcs, u # t PROVE pos2[th[u].node] = 0
      BY <1>0, <1>11, <1>18
    <3>1. th[u].node \in Nodes /\ th[u].node # n
      BY <1>10, <1>11, Holders
    <3> QED BY <3>1, <1>7, <1>18 DEF Order
  <2>3. \A m \in Nodes : IsList(root[m])' /\ root[m] # n => IsList(root[m]) /\ m # n /\ pos2[m] = pos[m] /\ next'[m] = next[m]
    BY <1>8, <1>12, <1>17, <1>18
  <2>4. \A m \in Nodes : IsList(root[m])' => Base(root[m])' <= pos2[m]
    <3> TAKE m \in Nodes
    <3>1. CASE root[m] = n
      BY <3>1, <1>8, <1>14, <1>18 DEF Base
    <3>2. CASE root[m] # n
      BY <3>2, <2>3, <1>7, <1>16 DEF Order
    <3> QED BY <3>1, <3>2
  <2>5. \A m, p \in Nodes : IsList(root[p])' /\ root[m] = root[p] /\ pos2[m] = pos2[p] => m = p
    BY <2>3, <1>7, <1>14 DEF Order
  <2>6. \A m \in Nodes : IsList(root[m])' /\ next'[m] # End =>
          next'[m] \in Nodes /\ root[next'[m]] = root[m] /\ pos2[next'[m]] = pos2[m] + 1
    <3> SUFFICES ASSUME NEW m \in Nodes, IsList(root[m])', next'[m] # End
                 PROVE  next'[m] \in Nodes /\ root[next'[m]] = root[m] /\ pos2[next'[m]] = pos2[m] + 1
      OBVIOUS
    <3>1. root[m] # n
      BY <1>14, <1>17
    <3>2. next[m] \in Nodes /\ root[next[m]] = root[m] /\ pos[next[m]] = pos[m] + 1
      BY <2>3, <3>1, <1>7 DEF Order
    <3>3. next[m] # n
      BY <3>1, <3>2, <1>8
    <3> QED BY <2>3, <3>1, <3>2, <3>3, <1>18
  <2>7. \A m, p \in Nodes : IsList(root[p])' /\ root[m] = root[p] /\ pos2[m] < pos2[p] => next'[m] # End
    <3> SUFFICES ASSUME NEW m \in Nodes, NEW p \in Nodes, IsList(root[p])', root[m] = root[p],
                        pos2[m] < pos2[p]
                 PROVE  next'[m] # End
      OBVIOUS
    <3>1. CASE root[p] = n
      BY <3>1, <1>14, <1>18
    <3>2. CASE root[p] # n
      BY <3>2, <2>3, <1>7 DEF Order
    <3> QED BY <3>1, <3>2
  <2> QED BY <1>18, <2>1, <2>2, <2>4, <2>5, <2>6, <2>7 DEF Order
<1>24. Cargo(root)'
  BY <1>6, <1>7, <1>15 DEF Cargo
<1>25. Books'
  BY <1>4, <1>5, <1>6, <1>7, BooksKept
<1>26. Plain(root, pos2)'
  BY <1>6, <1>7, <1>8, <1>18 DEF Plain
<1>27. Calm(t, root, pos, root, pos2)
  <2>1. used \in Int /\ used <= used
    BY <1>7 DEF TypeOK
  <2>2. \A m \in Nodes : root[m] = Null => pos2[m] = pos[m]
    BY <1>8, <1>18
  <2> QED BY <1>6, <1>15, <1>17, <1>19, <2>1, <2>2 DEF Calm, Watched
<1>28. (PushOK(root, pos2, th[t]) /\ PopOK(t, root, th[t]))'
  <2>1. k.link.node = Null /\ k.link.seq = Unread
    BY <1>1, <1>3, Empty DEF PushOK
  <2>2. elem[k.node] = k.elem
    BY <1>1, <1>3 DEF PushOK, HoldPcs
  <2>3. PushOK(root, pos2, th[t])'
    BY <1>3, <1>4, <1>6, <2>1, <2>2 DEF PushOK, TriedPcs
  <2>4. PopOK(t, root, th[t])'
    BY <1>3, <1>4 DEF PopOK, HeadPcs, NextPcs, PopPcs, GotPcs
  <2> QED BY <2>3, <2>4
<1>29. Good(root, pos2)'
  BY <1>4, <1>20, <1>21, <1>22, <1>23, <1>24, <1>25, <1>26, <1>27, <1>28, Settled
<1>30. \A m \in Queue(root) : pos2[m] = pos[m]
  BY <1>8, <1>18 DEF Queue
<1> QED BY <1>29, <1>30

-----------------------------------------------------------------------------
(* Push: the call takes a node                                             *)

\* A node is taken from the free list, or is a new one; those who still look at it
\* have seen an older use of it.
LEMMA StartPushGood ==
  ASSUME NEW root, NEW pos, Good(root, pos), NEW t \in Threads, StartPush(t), Watched
  PROVE  Good(root, pos)'
<1> USE Sets
<1> DEFINE l == th[t]
<1>1. PICK n : n = IF recycle /\ free # <<>> THEN Head(free) ELSE used + 1
  OBVIOUS
<1>2. PICK k : k = [Idle EXCEPT !.pc = "setNext", !.node = n, !.elem = pushes + 1]
  OBVIOUS
<1>3. /\ l.pc = "idle" /\ pushes < MaxPushes /\ pushes' = pushes + 1
      /\ \/ recycle /\ free # <<>> /\ n = Head(free) /\ free' = Tail(free) /\ used' = used
         \/ n = used + 1 /\ free' = free /\ used' = used + 1
      /\ elem' = [elem EXCEPT ![n] = pushes + 1] /\ Goto(t, k)
      /\ next' = next /\ head' = head /\ tail' = tail /\ count' = count /\ recycle' = recycle
      /\ done' = done /\ taken' = taken
  BY <1>1, <1>2 DEF StartPush, At, history
<1>4. TypeOK /\ Own(root) /\ Ends(root) /\ Order(root, pos) /\ Cargo(root) /\ Books /\ Plain(root, pos)
  BY DEF Good
<1>5. pushes \in Nat /\ used \in Nodes /\ used <= pushes + 1 /\ free \in Seq(Nodes)
  BY <1>4 DEF TypeOK, Own
<1>6. n \in Nodes /\ root[n] = n /\ (n <= used \/ n = used + 1) /\ used <= used' /\ used' \in Nodes
      /\ n <= used' /\ used' <= pushes' + 1 /\ (recycle \/ n > used)
  <2>1. CASE recycle /\ free # <<>> /\ n = Head(free) /\ used' = used
    <3>1. 1 \in DOMAIN free /\ n = free[1] /\ n \in Nodes
      BY <2>1, <1>5
    <3>2. free[1] <= used /\ root[free[1]] = free[1]
      BY <3>1, <1>4 DEF Own
    <3> QED BY <3>1, <3>2, <2>1, <1>3, <1>5
  <2>2. CASE n = used + 1 /\ used' = used + 1
    <3>1. n \in Nodes /\ n > used
      BY <2>2, <1>3, <1>5
    <3> QED BY <2>2, <3>1, <1>3, <1>4, <1>5 DEF Own
  <2> QED BY <2>1, <2>2, <1>3
<1>7. \A u \in Threads : Holds(u) => th[u].node # n
  <2> SUFFICES ASSUME NEW u \in Threads, Holds(u), th[u].node = n PROVE FALSE
    OBVIOUS
  <2>1. n \in 1..used
    BY Holders
  <2>2. free # <<>> /\ n = Head(free)
    BY <1>3, <1>5, <2>1
  <2>3. 1 \in DOMAIN free /\ n = free[1]
    BY <1>5, <2>2
  <2> QED BY <2>3, <1>4 DEF Own
<1>8. free' \in Seq(Nodes)
  <2>1. free # <<>> => Tail(free) \in Seq(Nodes)
    BY <1>5, HeadTailProperties
  <2> QED BY <2>1, <1>3, <1>5
<1>9. \A j \in DOMAIN free' : \E i \in DOMAIN free : free'[j] = free[i] /\ free[i] # n
  <2>1. CASE free # <<>> /\ n = Head(free) /\ free' = Tail(free)
    <3> TAKE j \in DOMAIN free'
    <3>1. j + 1 \in DOMAIN free /\ 1 \in DOMAIN free /\ j + 1 # 1 /\ free'[j] = free[j + 1] /\ n = free[1]
      BY <2>1, <1>5
    <3>2. free[j + 1] # n
      BY <3>1, <1>4 DEF Own
    <3> QED BY <3>1, <3>2
  <2>2. CASE n = used + 1 /\ free' = free
    <3> TAKE j \in DOMAIN free'
    <3>1. j \in DOMAIN free /\ free[j] <= used /\ free[j] \in Nodes
      BY <2>2, <1>4, <1>5 DEF Own
    <3> QED BY <2>2, <3>1, <1>5
  <2> QED BY <2>1, <2>2, <1>3
<1>10. \A i, j \in DOMAIN free' : free'[i] = free'[j] => i = j
  <2>1. CASE free # <<>> /\ free' = Tail(free)
    <3> TAKE i, j \in DOMAIN free'
    <3>1. i + 1 \in DOMAIN free /\ free'[i] = free[i + 1] /\ j + 1 \in DOMAIN free /\ free'[j] = free[j + 1]
          /\ i \in Nat /\ j \in Nat
      BY <2>1, <1>5
    <3>2. free'[i] = free'[j] => i + 1 = j + 1
      BY <3>1, <1>4 DEF Own
    <3> QED BY <3>1, <3>2
  <2>2. CASE free' = free
    BY <2>2, <1>4 DEF Own
  <2> QED BY <2>1, <2>2, <1>3
<1>11. /\ k \in ThreadType /\ k.pc = "setNext" /\ k.node = n /\ k.elem = pushes + 1 /\ k.link = Idle.link
       /\ k.elem \in Null..MaxPushes
  <2>1. pushes + 1 \in Null..MaxPushes /\ n \in Null..(MaxPushes + 1)
    BY <1>3, <1>5, <1>6
  <2>2. k.pc = "setNext" /\ k.node = n /\ k.elem = pushes + 1 /\ k.link = Idle.link
    BY <1>2 DEF Idle
  <2> QED BY <1>2, <2>1, <2>2, Empty DEF ThreadType, PushPcs
<1>12. th' \in [Threads -> ThreadType] /\ th'[t] = k /\ Others(t)
  BY <1>3, <1>11, Facts, Goes
<1>13. \A u \in Threads : u # t => th'[u] = th[u]
  BY <1>12 DEF Others
<1>14. /\ Holds(t)' /\ ~ Holds(t) /\ th'[t].node = n /\ th'[t].pc \in HoldPcs /\ th[t].pc \notin HoldPcs
       /\ th'[t].pc \notin RootPcs /\ th[t].pc \notin RootPcs
       /\ th'[t].pc \in OpenPcs /\ th[t].pc \notin OpenPcs /\ ~ At(t, "uncount") /\ ~ At(t, "uncount")'
  BY <1>3, <1>11, <1>12 DEF Holds, HeldPcs, HoldPcs, RootPcs, GotPcs, OpenPcs, At
<1>15. \A c : IsList(c)' <=> IsList(c)
  BY <1>13, <1>14 DEF IsList
<1>16. ~ IsList(n)
  BY <1>6, <1>7 DEF IsList, RootPcs, HeldPcs, Holds
<1>17. \A m \in Nodes : root[m] = n => m = n
  BY <1>4, <1>16 DEF Own
<1>18. ~ Pushed(n) /\ \A m : Pushed(m)' <=> Pushed(m) \/ m = n
  <2>1. ~ Pushed(n)
    BY <1>7 DEF Pushed, Holds, HeldPcs
  <2> QED BY <2>1, <1>13, <1>14 DEF Pushed
<1>19. ~ Carries(root, n) /\ \A m \in Nodes : /\ (Pending(root, m)' <=> Pending(root, m) \/ m = n)
                                              /\ (Carries(root, m)' <=> Carries(root, m) \/ m = n)
  BY <1>3, <1>6, <1>18 DEF Pending, Carries
<1>20. elem' \in [Nodes -> Null..MaxPushes] /\ elem'[n] = pushes + 1
       /\ \A m \in Nodes : m # n => elem'[m] = elem[m]
  BY <1>3, <1>4, <1>6, <1>11 DEF TypeOK
<1>21. TypeOK'
  <2>1. empty' \subseteq Threads
    BY AskedKept
  <2>2. pushes' \in 0..MaxPushes
    BY <1>3, <1>5
  <2> QED BY <1>3, <1>4, <1>6, <1>8, <1>12, <1>20, <2>1, <2>2 DEF TypeOK
<1>22. Own(root)'
  <2>1. \A u \in Threads : Holds(u)' => th'[u].node \in 1..used' /\ root[th'[u].node] = th'[u].node
    <3> TAKE u \in Threads
    <3>1. CASE u = t
      BY <3>1, <1>6, <1>14
    <3>2. CASE u # t
      <4>1. Holds(u)' => Holds(u) /\ th'[u] = th[u]
        BY <3>2, <1>13 DEF Holds
      <4>2. Holds(u) => th[u].node \in Nodes /\ th[u].node \in 1..used /\ root[th[u].node] = th[u].node
        BY Holders
      <4>3. 1..used \subseteq 1..used'
        BY <1>5, <1>6
      <4> QED BY <4>1, <4>2, <4>3
    <3> QED BY <3>1, <3>2
  <2>2. \A u, v \in Threads : Holds(u)' /\ Holds(v)' /\ th'[u].node = th'[v].node => u = v
    <3>1. \A u, v \in Threads : Holds(u) /\ Holds(v) /\ th[u].node = th[v].node => u = v
      BY <1>4 DEF Own
    <3>2. \A u \in Threads : u # t /\ Holds(u)' => Holds(u) /\ th'[u] = th[u]
      BY <1>13 DEF Holds
    <3> QED BY <3>1, <3>2, <1>7, <1>14
  <2>3. \A j \in DOMAIN free' :
          /\ free'[j] <= used' /\ root[free'[j]] = free'[j]
          /\ \A u \in Threads : Holds(u)' => th'[u].node # free'[j]
    <3> TAKE j \in DOMAIN free'
    <3>1. PICK i \in DOMAIN free : free'[j] = free[i] /\ free[i] # n
      BY <1>9
    <3>2. free[i] <= used /\ root[free[i]] = free[i] /\ free[i] \in Nodes
          /\ \A u \in Threads : Holds(u) => th[u].node # free[i]
      BY <1>4, <1>5 DEF Own
    <3>3. \A u \in Threads : u # t /\ Holds(u)' => Holds(u) /\ th'[u] = th[u]
      BY <1>13 DEF Holds
    <3>4. free'[j] <= used'
      BY <3>1, <3>2, <1>5, <1>6
    <3> QED BY <3>1, <3>2, <3>3, <3>4, <1>14
  <2>4. \A m \in Nodes : m > used' => root[m] = m
    <3> TAKE m \in Nodes
    <3>1. m > used' => m > used
      BY <1>5, <1>6
    <3> QED BY <3>1, <1>4 DEF Own
  <2>5. \A m \in Nodes : root[m] = m \/ IsList(root[m])'
    BY <1>4, <1>15 DEF Own
  <2> QED BY <1>4, <1>6, <1>10, <2>1, <2>2, <2>3, <2>4, <2>5 DEF Own
<1>23. Ends(root)'
  <2>1. \A m \in Nodes : root[m] # Null /\ IsList(root[m])' => elem'[m] <= elem'[root[m]]
    <3> SUFFICES ASSUME NEW m \in Nodes, root[m] # Null, IsList(root[m]) PROVE elem'[m] <= elem'[root[m]]
      BY <1>15
    <3>1. m # n /\ root[m] # n /\ root[m] \in Nodes
      BY <1>4, <1>6, <1>16 DEF Own
    <3> QED BY <3>1, <1>4, <1>20 DEF Ends
  <2> QED BY <1>3, <1>4, <1>15, <2>1 DEF Ends
<1>24. Order(root, pos)'
  <2>1. \A u \in Threads : th'[u].pc \in RootPcs => pos[th'[u].node] = 0
    BY <1>4, <1>13, <1>14 DEF Order
  <2>2. \A c : Base(c)' = Base(c)
    BY <1>3 DEF Base
  <2> QED BY <1>3, <1>4, <1>15, <2>1, <2>2 DEF Order
<1>25. Cargo(root)'
  <2>1. \A m \in Nodes : Carries(root, m) => elem[m] \in 1..pushes /\ taken[elem[m]] = 0 /\ m # n
    BY <1>4, <1>19 DEF Cargo
  <2>2. taken[pushes + 1] = 0
    <3>1. pushes + 1 \in Null..MaxPushes /\ pushes + 1 \notin 1..pushes
      BY <1>3, <1>5
    <3> QED BY <3>1, <1>4 DEF Cargo
  <2>3. \A m \in Nodes : Carries(root, m)' => elem'[m] \in 1..pushes' /\ taken'[elem'[m]] = 0
    BY <1>3, <1>5, <1>19, <1>20, <2>1, <2>2
  <2>4. \A m, p \in Nodes : Carries(root, m)' /\ Carries(root, p)' /\ elem'[m] = elem'[p] => m = p
    <3>1. \A m, p \in Nodes : Carries(root, m) /\ Carries(root, p) /\ elem[m] = elem[p] => m = p
      BY <1>4 DEF Cargo
    <3>2. \A m \in Nodes : Carries(root, m) => elem[m] # pushes + 1
      BY <2>1, <1>5
    <3> QED BY <3>1, <3>2, <1>19, <1>20, <2>1
  <2>5. \A i \in Null..MaxPushes : taken'[i] = 0 \/ (taken'[i] = 1 /\ i \in 1..pushes')
    <3> TAKE i \in Null..MaxPushes
    <3>1. taken[i] = 0 \/ (taken[i] = 1 /\ i \in 1..pushes)
      BY <1>4 DEF Cargo
    <3> QED BY <3>1, <1>3, <1>5
  <2>6. \A i \in 1..pushes' : taken'[i] = 0 => \E m \in Nodes : Carries(root, m)' /\ elem'[m] = i
    <3> TAKE i \in 1..pushes'
    <3>1. CASE i = pushes + 1
      BY <3>1, <1>6, <1>19, <1>20
    <3>2. CASE i # pushes + 1
      <4>1. i \in 1..pushes
        BY <3>2, <1>3, <1>5
      <4>2. taken[i] = 0 => \E m \in Nodes : Carries(root, m) /\ elem[m] = i
        BY <4>1, <1>4 DEF Cargo
      <4> QED BY <4>2, <2>1, <1>3, <1>19, <1>20
    <3> QED BY <3>1, <3>2
  <2>7. (head.seq = Cardinality({i \in Items : taken[i] = 1}))'
    BY <1>3, <1>4 DEF Cargo
  <2> QED BY <2>3, <2>4, <2>5, <2>6, <2>7 DEF Cargo
<1>26. Books'
  <2>1. Uncounting' = Uncounting
    BY <1>13, <1>14 DEF Uncounting, At
  <2>2. count' = Cardinality(done') - head'.seq + Cardinality(Uncounting')
    BY <1>3, <2>1, Tallies
  <2>3. done' \subseteq 1..pushes'
    <3>1. 1..pushes \subseteq 1..pushes'
      BY <1>3, <1>5
    <3> QED BY <3>1, <1>3, <1>4 DEF Books
  <2>4. \A u \in Threads : u # t /\ th'[u].pc \in OpenPcs =>
          th'[u] = th[u] /\ th[u].elem \in (1..pushes) \ done /\ th[u].elem # pushes + 1
    BY <1>4, <1>5, <1>13 DEF Books
  <2>5. pushes + 1 \notin done
    BY <1>4, <1>5 DEF Books
  <2>6. \A u \in Threads : th'[u].pc \in OpenPcs => th'[u].elem \in (1..pushes') \ done'
    <3> TAKE u \in Threads
    <3>1. CASE u = t
      BY <3>1, <2>5, <1>3, <1>5, <1>11, <1>12
    <3>2. CASE u # t
      BY <3>2, <2>4, <1>3, <1>5
    <3> QED BY <3>1, <3>2
  <2>7. \A u, v \in Threads :
          th'[u].pc \in OpenPcs /\ th'[v].pc \in OpenPcs /\ th'[u].elem = th'[v].elem => u = v
    <3>1. \A u, v \in Threads :
            th[u].pc \in OpenPcs /\ th[v].pc \in OpenPcs /\ th[u].elem = th[v].elem => u = v
      BY <1>4 DEF Books
    <3> QED BY <3>1, <2>4, <1>11, <1>12
  <2>8. \A i \in 1..pushes' : i \in done' \/ \E u \in Threads : th'[u].pc \in OpenPcs /\ th'[u].elem = i
    <3> TAKE i \in 1..pushes'
    <3>1. CASE i = pushes + 1
      BY <3>1, <1>11, <1>12, <1>14
    <3>2. CASE i # pushes + 1
      <4>1. i \in 1..pushes
        BY <3>2, <1>3, <1>5
      <4>2. i \in done \/ \E u \in Threads : th[u].pc \in OpenPcs /\ th[u].elem = i
        BY <4>1, <1>4 DEF Books
      <4> QED BY <4>2, <1>3, <1>13, <1>14
    <3> QED BY <3>1, <3>2
  <2> QED BY <2>2, <2>3, <2>6, <2>7, <2>8 DEF Books, Uncounting
<1>27. Plain(root, pos)'
  BY <1>3, <1>4 DEF Plain
<1>28. Calm(t, root, pos, root, pos)
  <2>1. next[head.node] # End => elem'[next[head.node]] = elem[next[head.node]]
    <3> SUFFICES ASSUME next[head.node] # End PROVE elem'[next[head.node]] = elem[next[head.node]]
      OBVIOUS
    <3>1. next[head.node] \in Nodes /\ root[next[head.node]] = Null
      <4>1. head.node \in Nodes /\ root[head.node] = Null /\ IsList(Null)
        BY <1>4 DEF TypeOK, Ends, IsList
      <4> QED BY <4>1, <1>4 DEF Order
    <3> QED BY <3>1, <1>6, <1>20
  <2>2. \A u \in Threads \ {t} : th[u].pc \in HoldPcs => elem'[th[u].node] = elem[th[u].node]
    <3> SUFFICES ASSUME NEW u \in Threads, th[u].pc \in HoldPcs PROVE elem'[th[u].node] = elem[th[u].node]
      OBVIOUS
    <3>1. Holds(u)
      BY DEF Holds, HeldPcs
    <3> QED BY <3>1, <1>7, <1>20, Holders
  <2>3. \A m \in Nodes : Pending(root, m)' =>
          \/ Pending(root, m) /\ elem'[m] = elem[m]
          \/ elem'[m] \in Int /\ elem'[m] > pushes /\ (recycle \/ m > used)
    <3> TAKE m \in Nodes
    <3>1. CASE m = n
      BY <3>1, <1>5, <1>6, <1>20
    <3>2. CASE m # n
      BY <3>2, <1>19, <1>20
    <3> QED BY <3>1, <3>2
  <2>4. used' \in Int
    BY <1>6
  <2> QED BY <1>3, <1>6, <2>1, <2>2, <2>3, <2>4 DEF Calm, Watched
<1>29. (PushOK(root, pos, th[t]) /\ PopOK(t, root, th[t]))'
  <2>1. PushOK(root, pos, th[t])'
    BY <1>11, <1>12, <1>20 DEF PushOK, RootPcs, TriedPcs
  <2>2. PopOK(t, root, th[t])'
    BY <1>11, <1>12 DEF PopOK, HeadPcs, NextPcs, PopPcs, GotPcs
  <2> QED BY <2>1, <2>2
<1> QED BY <1>12, <1>21, <1>22, <1>23, <1>24, <1>25, <1>26, <1>27, <1>28, <1>29, Settled

-----------------------------------------------------------------------------
(* Pop: the head moves on                                                  *)

\* Another thread was faster: the sequence number has changed.
LEMMA TakeFails ==
  ASSUME NEW root, NEW pos, Good(root, pos), NEW t \in Threads, TakeHead(t),
         ~ HeadIs(th[t].link), Watched
  PROVE  Good(root, pos)'
<1>1. PICK k : k = Again
  OBVIOUS
<1>2. k \in ThreadType /\ k.pc = "headSeq" /\ Goto(t, k)
      /\ UNCHANGED <<next, elem, head, tail, count, free, calls, history>>
  BY <1>1, Empty DEF TakeHead, history
<1>3. th[t].pc \notin OpenPcs \cup GotPcs
  BY DEF TakeHead, At, OpenPcs, HoldPcs, GotPcs
<1> QED BY <1>2, <1>3, Resting

\* The head moves on: its node leaves the list, and the next one is the dummy.
LEMMA TakeSucceeds ==
  ASSUME NEW root, NEW pos, Good(root, pos), NEW t \in Threads, TakeHead(t),
         HeadIs(th[t].link), Watched
  PROVE  \E root2 : Good(root2, pos)' /\ Queue(root2) = Queue(root) \ {head.node}
<1> USE Sets
<1> DEFINE l == th[t]
<1>0. PICK h, n, e, root2 : h = head.node /\ n = l.pNext /\ e = l.elem /\ root2 = [root EXCEPT ![h] = h]
  OBVIOUS
<1>1. PICK k : k = [Idle EXCEPT !.pc = "uncount", !.node = l.link.node, !.elem = l.elem]
  OBVIOUS
<1>2. /\ l.pc = "takeHead" /\ l \in ThreadType /\ PopOK(t, root, l) /\ Goto(t, k) /\ head = l.link
      /\ head' = [node |-> n, seq |-> head.seq + 1] /\ taken' = [taken EXCEPT ![e] = @ + 1]
      /\ next' = next /\ elem' = elem /\ tail' = tail /\ count' = count /\ free' = free /\ used' = used
      /\ pushes' = pushes /\ recycle' = recycle /\ done' = done
  BY <1>0, <1>1, Facts DEF TakeHead, HeadIs, At, calls
<1>3. TypeOK /\ Own(root) /\ Ends(root) /\ Order(root, pos) /\ Cargo(root) /\ Books /\ Plain(root, pos)
  BY DEF Good
<1>4. h \in Nodes /\ root[h] = Null /\ pos[h] = head.seq /\ h <= used /\ h # tail.node /\ head.seq \in Nat
  BY <1>0, <1>2, Facts, TailKnown DEF PopOK
<1>5. n \in Nodes /\ n = next[h] /\ root[n] = Null /\ pos[n] = head.seq + 1 /\ n # h /\ e = elem[n]
  <2>1. n \in Nodes /\ n = next[h] /\ e = elem[n]
    <3>1. l.pNext \in Nodes /\ l.pNext = next[head.node] /\ l.elem = elem[l.pNext]
      BY <1>2 DEF PopOK, NextPcs
    <3> QED BY <3>1, <1>0
  <2>2. IsList(root[h]) /\ next[h] # End
    BY <2>1, <1>4 DEF IsList
  <2>3. root[n] = Null /\ pos[n] = head.seq + 1
    BY <2>1, <2>2, <1>3, <1>4 DEF Order
  <2> QED BY <2>1, <2>3, <1>4
<1>6. Carries(root, n) /\ e \in 1..pushes /\ taken[e] = 0
  <2>1. Carries(root, n)
    BY <1>0, <1>5 DEF Carries
  <2> QED BY <2>1, <1>3, <1>5 DEF Cargo
<1>7. \A u \in Threads : Holds(u) => th[u].node # h
  BY <1>4, Holders
<1>8. k.pc = "uncount" /\ k.node = h /\ k.elem = e
  BY <1>0, <1>1, <1>2 DEF Idle
<1>9. k \in ThreadType
  BY <1>1, <1>2, Empty DEF ThreadType, GotPcs
<1>10. th' \in [Threads -> ThreadType] /\ th'[t] = k /\ Others(t)
  BY <1>2, <1>9, Facts, Goes
<1>11. \A u \in Threads : u # t => th'[u] = th[u]
  BY <1>10 DEF Others
<1>12. /\ Holds(t)' /\ ~ Holds(t) /\ th'[t].node = h
       /\ th'[t].pc \notin HoldPcs /\ th[t].pc \notin HoldPcs
       /\ th'[t].pc \notin RootPcs /\ th[t].pc \notin RootPcs
       /\ th'[t].pc \notin OpenPcs /\ th[t].pc \notin OpenPcs
       /\ ~ At(t, "uncount") /\ At(t, "uncount")'
  BY <1>2, <1>8, <1>10 DEF Holds, HeldPcs, HoldPcs, RootPcs, GotPcs, OpenPcs, At
<1>13. \A c : (IsList(c)' <=> IsList(c)) /\ (Pushed(c)' <=> Pushed(c))
  BY <1>11, <1>12 DEF IsList, Pushed
<1>14. ~ IsList(h) /\ ~ Pushed(h)
  BY <1>4, <1>7 DEF IsList, Pushed, RootPcs, HeldPcs, Holds
<1>15. \A m \in Nodes : root[m] # h
  BY <1>3, <1>4, <1>14 DEF Own
<1>16. root2 \in [Nodes -> Null..(MaxPushes + 1)] /\ root2[h] = h
       /\ \A m \in Nodes : m # h => root2[m] = root[m]
  BY <1>0, <1>3, <1>4 DEF Own
<1>17. head'.node = n /\ head'.seq = head.seq + 1
  BY <1>2
<1>18. \A m \in Nodes : /\ (Pending(root2, m)' <=> Pending(root, m))
                        /\ (Carries(root2, m)' <=> Carries(root, m) /\ m # n)
  <2> TAKE m \in Nodes
  <2>1. CASE m = h
    <3>1. ~ Pending(root2, m)' /\ ~ Pending(root, m)
      BY <2>1, <1>4, <1>13, <1>14, <1>16 DEF Pending
    <3>2. ~ Carries(root2, m)' /\ ~ Carries(root, m)
      BY <2>1, <3>1, <1>0, <1>4, <1>16 DEF Carries
    <3> QED BY <3>1, <3>2
  <2>2. CASE m # h
    <3>1. root2[m] = root[m]
      BY <2>2, <1>16
    <3>2. Pending(root2, m)' <=> Pending(root, m)
      BY <3>1, <1>13 DEF Pending
    <3>3. ~ Pending(root, n)
      BY <1>5 DEF Pending
    <3> QED BY <2>2, <3>1, <3>2, <3>3, <1>0, <1>17 DEF Carries
  <2> QED BY <2>1, <2>2
<1>19. taken \in [Null..MaxPushes -> Nat] /\ e \in Null..MaxPushes /\ pushes \in 0..MaxPushes
       /\ taken'[e] = 1 /\ \A i \in Null..MaxPushes : i # e => taken'[i] = taken[i]
  <2>1. taken \in [Null..MaxPushes -> Nat] /\ pushes \in 0..MaxPushes
    BY <1>3 DEF TypeOK
  <2>2. e \in Null..MaxPushes
    BY <2>1, <1>6
  <2> QED BY <2>1, <2>2, <1>2, <1>6
<1>20. TypeOK'
  <2>1. empty' \subseteq Threads
    BY AskedKept
  <2>2. head.seq + 1 \in 0..MaxPushes
    <3>1. pos[n] <= pushes
      BY <1>5, Bounded
    <3>2. pos[n] = head.seq + 1 /\ head.seq \in Nat /\ pushes \in 0..MaxPushes
      BY <1>4, <1>5, <1>19
    <3> QED BY <3>1, <3>2
  <2>3. head' \in [node: Nodes, seq: 0..MaxPushes]
    BY <2>2, <1>2, <1>5
  <2>4. taken' \in [Null..MaxPushes -> Nat]
    BY <1>2, <1>19
  <2> QED BY <1>2, <1>3, <1>10, <2>1, <2>3, <2>4 DEF TypeOK
<1>21. Own(root2)'
  <2>1. \A u \in Threads : Holds(u)' => th'[u].node \in 1..used' /\ root2[th'[u].node] = th'[u].node
    <3> TAKE u \in Threads
    <3>1. CASE u = t
      <4>1. h \in 1..used
        BY <1>4, <1>3 DEF TypeOK
      <4> QED BY <3>1, <4>1, <1>2, <1>12, <1>16
    <3>2. CASE u # t
      <4>1. Holds(u)' => Holds(u) /\ th'[u] = th[u]
        BY <3>2, <1>11 DEF Holds
      <4>2. Holds(u) => th[u].node \in Nodes /\ th[u].node \in 1..used /\ root[th[u].node] = th[u].node
        BY Holders
      <4> QED BY <4>1, <4>2, <1>2, <1>7, <1>16
    <3> QED BY <3>1, <3>2
  <2>2. \A u \in Threads : u # t /\ Holds(u)' => Holds(u) /\ th'[u] = th[u]
    BY <1>11 DEF Holds
  <2>3. \A u, v \in Threads : Holds(u)' /\ Holds(v)' /\ th'[u].node = th'[v].node => u = v
    <3>1. \A u, v \in Threads : Holds(u) /\ Holds(v) /\ th[u].node = th[v].node => u = v
      BY <1>3 DEF Own
    <3> QED BY <3>1, <2>2, <1>7, <1>12
  <2>4. \A j \in DOMAIN free' :
          /\ free'[j] <= used' /\ root2[free'[j]] = free'[j]
          /\ \A u \in Threads : Holds(u)' => th'[u].node # free'[j]
    <3> TAKE j \in DOMAIN free'
    <3>1. free[j] <= used /\ root[free[j]] = free[j] /\ free[j] \in Nodes
          /\ \A u \in Threads : Holds(u) => th[u].node # free[j]
      <4>1. free \in Seq(Nodes) /\ j \in DOMAIN free
        BY <1>2, <1>3 DEF TypeOK
      <4>2. free[j] \in Nodes
        BY <4>1
      <4> QED BY <4>1, <4>2, <1>3 DEF Own
    <3>2. free[j] # h
      BY <3>1, <1>4
    <3> QED BY <3>1, <3>2, <2>2, <1>2, <1>12, <1>16
  <2>5. \A m \in Nodes : m > used' => root2[m] = m
    BY <1>2, <1>3, <1>16 DEF Own
  <2>6. \A m \in Nodes : root2[m] = m \/ IsList(root2[m])'
    BY <1>3, <1>13, <1>16 DEF Own
  <2>7. used' <= pushes' + 1 /\ \A i, j \in DOMAIN free' : free'[i] = free'[j] => i = j
    BY <1>2, <1>3 DEF Own
  <2> QED BY <1>16, <2>1, <2>3, <2>4, <2>5, <2>6, <2>7 DEF Own
<1>22. Ends(root2)'
  <2>1. root2[head'.node] = Null /\ root2[tail'.node] = Null
    BY <1>2, <1>3, <1>4, <1>5, <1>16, <1>17 DEF Ends, TypeOK
  <2>2. \A m \in Nodes : next'[m] = End => IsList(root2[m])'
    BY <1>2, <1>3, <1>5, <1>13, <1>16 DEF Ends
  <2>3. \A c \in Null..(MaxPushes + 1) : IsList(c)' => \E m \in Nodes : root2[m] = c /\ next'[m] = End
    <3> SUFFICES ASSUME NEW c \in Null..(MaxPushes + 1), IsList(c)
                 PROVE  \E m \in Nodes : root2[m] = c /\ next'[m] = End
      BY <1>13
    <3>1. PICK m \in Nodes : root[m] = c /\ next[m] = End
      BY <1>3 DEF Ends
    <3>2. m # h
      BY <3>1, <1>5
    <3> QED BY <3>1, <3>2, <1>2, <1>16
  <2>4. \A m \in Nodes : root2[m] # Null /\ IsList(root2[m])' => elem'[m] <= elem'[root2[m]]
    <3> SUFFICES ASSUME NEW m \in Nodes, root2[m] # Null, IsList(root2[m]) PROVE elem[m] <= elem[root2[m]]
      BY <1>2, <1>13
    <3>1. m # h
      BY <1>14, <1>16
    <3> QED BY <3>1, <1>3, <1>16 DEF Ends
  <2> QED BY <2>1, <2>2, <2>3, <2>4 DEF Ends
<1>23. Order(root2, pos)'
  <2>1. \A m \in Nodes : IsList(root2[m])' => IsList(root[m]) /\ root2[m] = root[m] /\ m # h
    BY <1>13, <1>14, <1>16
  <2>2. pos \in [Nodes -> Nat] /\ pos[head'.node] = head'.seq /\ pos[tail'.node] = tail'.seq
    BY <1>2, <1>3, <1>5, <1>17 DEF Order
  <2>3. \A u \in Threads : th'[u].pc \in RootPcs => pos[th'[u].node] = 0
    BY <1>3, <1>11, <1>12 DEF Order
  <2>4. \A m \in Nodes : IsList(root2[m])' => Base(root2[m])' <= pos[m]
    <3> SUFFICES ASSUME NEW m \in Nodes, IsList(root2[m])' PROVE Base(root2[m])' <= pos[m]
      OBVIOUS
    <3>1. IsList(root[m]) /\ root2[m] = root[m] /\ m # h /\ Base(root[m]) <= pos[m] /\ pos[m] \in Nat
      BY <2>1, <1>3 DEF Order
    <3>2. CASE root[m] # Null
      BY <3>1, <3>2 DEF Base
    <3>3. CASE root[m] = Null
      <4>1. head.seq <= pos[m]
        BY <3>1, <3>3 DEF Base
      <4>2. pos[m] # pos[h]
        BY <3>1, <3>3, <1>3, <1>4 DEF Order
      <4>3. head.seq + 1 <= pos[m]
        BY <4>1, <4>2, <3>1, <1>4
      <4> QED BY <3>1, <3>3, <4>3, <1>17 DEF Base
    <3> QED BY <3>2, <3>3
  <2>5. \A m, p \in Nodes : IsList(root2[p])' /\ root2[m] = root2[p] /\ pos[m] = pos[p] => m = p
    <3> SUFFICES ASSUME NEW m \in Nodes, NEW p \in Nodes, IsList(root2[p])', root2[m] = root2[p],
                        pos[m] = pos[p]
                 PROVE  m = p
      OBVIOUS
    <3>1. root[m] = root[p] /\ IsList(root[p])
      BY <2>1
    <3> QED BY <3>1, <1>3 DEF Order
  <2>6. \A m \in Nodes : IsList(root2[m])' /\ next'[m] # End =>
          next'[m] \in Nodes /\ root2[next'[m]] = root2[m] /\ pos[next'[m]] = pos[m] + 1
    <3> SUFFICES ASSUME NEW m \in Nodes, IsList(root2[m])', next[m] # End
                 PROVE  next[m] \in Nodes /\ root2[next[m]] = root2[m] /\ pos[next[m]] = pos[m] + 1
      BY <1>2
    <3>1. IsList(root[m]) /\ root2[m] = root[m] /\ m # h /\ Base(root[m]) <= pos[m] /\ pos[m] \in Nat
      BY <2>1, <1>3 DEF Order
    <3>2. next[m] \in Nodes /\ root[next[m]] = root[m] /\ pos[next[m]] = pos[m] + 1
      BY <3>1, <1>3 DEF Order
    <3>3. next[m] # h
      <4> SUFFICES ASSUME next[m] = h PROVE FALSE
        OBVIOUS
      <4>1. head.seq <= pos[m]
        BY <3>1, <3>2, <1>4 DEF Base
      <4> QED BY <4>1, <3>1, <3>2, <1>4
    <3> QED BY <3>1, <3>2, <3>3, <1>16
  <2>7. \A m, p \in Nodes : IsList(root2[p])' /\ root2[m] = root2[p] /\ pos[m] < pos[p] => next'[m] # End
    <3> SUFFICES ASSUME NEW m \in Nodes, NEW p \in Nodes, IsList(root2[p])', root2[m] = root2[p],
                        pos[m] < pos[p]
                 PROVE  next[m] # End
      BY <1>2
    <3>1. root[m] = root[p] /\ IsList(root[p])
      BY <2>1
    <3> QED BY <3>1, <1>3 DEF Order
  <2> QED BY <2>2, <2>3, <2>4, <2>5, <2>6, <2>7 DEF Order
<1>24. Cargo(root2)'
  <2>1. \A m \in Nodes : Carries(root, m) /\ m # n => elem[m] \in 1..pushes /\ elem[m] # e
    BY <1>3, <1>5, <1>6 DEF Cargo
  <2>2. \A m \in Nodes : Carries(root2, m)' => elem'[m] \in 1..pushes' /\ taken'[elem'[m]] = 0
    <3> SUFFICES ASSUME NEW m \in Nodes, Carries(root, m), m # n PROVE elem[m] \in 1..pushes /\ taken'[elem[m]] = 0
      BY <1>2, <1>18
    <3>1. elem[m] \in Null..MaxPushes /\ elem[m] # e /\ elem[m] \in 1..pushes
      BY <2>1, <1>19
    <3>2. taken[elem[m]] = 0
      BY <1>3 DEF Cargo
    <3> QED BY <3>1, <3>2, <1>19
  <2>3. \A m, p \in Nodes : Carries(root2, m)' /\ Carries(root2, p)' /\ elem'[m] = elem'[p] => m = p
    BY <1>2, <1>3, <1>18 DEF Cargo
  <2>4. \A i \in Null..MaxPushes : taken'[i] = 0 \/ (taken'[i] = 1 /\ i \in 1..pushes')
    BY <1>2, <1>3, <1>6, <1>19 DEF Cargo
  <2>5. \A i \in 1..pushes' : taken'[i] = 0 => \E m \in Nodes : Carries(root2, m)' /\ elem'[m] = i
    <3> SUFFICES ASSUME NEW i \in 1..pushes, taken'[i] = 0
                 PROVE  \E m \in Nodes : Carries(root2, m)' /\ elem[m] = i
      BY <1>2
    <3>1. i # e /\ i \in Null..MaxPushes
      BY <1>19
    <3>2. taken[i] = 0
      BY <3>1, <1>19
    <3>3. PICK m \in Nodes : Carries(root, m) /\ elem[m] = i
      BY <3>2, <1>3 DEF Cargo
    <3> QED BY <3>1, <3>3, <1>5, <1>18
  <2>6. (head.seq = Cardinality({i \in Items : taken[i] = 1}))'
    <3> DEFINE A == {i \in Items : taken[i] = 1}
    <3>1. e \in Items /\ Items \subseteq Null..MaxPushes
      BY <1>6, <1>19 DEF Items
    <3>2. A' = A \cup {e} /\ e \notin A
      <4>1. \A i \in Items : taken'[i] = 1 <=> taken[i] = 1 \/ i = e
        BY <3>1, <1>19
      <4> QED BY <4>1, <3>1, <1>6
    <3>3. IsFiniteSet(A)
      <4>1. IsFiniteSet(Items)
        BY FS_Interval DEF Items
      <4> QED BY <4>1, FS_Subset
    <3>4. head.seq = Cardinality(A)
      BY <1>3 DEF Cargo
    <3> HIDE DEF A
    <3>5. Cardinality(A \cup {e}) = Cardinality(A) + 1
      BY <3>2, <3>3, FS_AddElement
    <3>6. head'.seq = Cardinality(A')
      BY <3>2, <3>4, <3>5, <1>17
    <3> QED BY <3>6 DEF A
  <2> QED BY <2>2, <2>3, <2>4, <2>5, <2>6 DEF Cargo
<1>25. Books'
  <2>1. Uncounting' = Uncounting \cup {t} /\ t \notin Uncounting
    BY <1>11, <1>12 DEF Uncounting, At
  <2>2. Cardinality(Uncounting') = Cardinality(Uncounting) + 1
    <3>1. IsFiniteSet(Uncounting)
      BY Tallies
    <3>2. Cardinality(Uncounting \cup {t}) = Cardinality(Uncounting) + 1
      BY <2>1, <3>1, FS_AddElement
    <3> QED BY <2>1, <3>2
  <2>3. count' = Cardinality(done') - head'.seq + Cardinality(Uncounting')
    <3>1. count = Cardinality(done) - head.seq + Cardinality(Uncounting)
          /\ Cardinality(done) \in Int /\ head.seq \in Int /\ Cardinality(Uncounting) \in Int
      BY Tallies
    <3>2. count = Cardinality(done) - (head.seq + 1) + (Cardinality(Uncounting) + 1)
      BY <3>1
    <3> QED BY <2>2, <3>2, <1>2, <1>17
  <2>4. /\ done' \subseteq 1..pushes'
        /\ \A u \in Threads : th'[u].pc \in OpenPcs => th'[u].elem \in (1..pushes') \ done'
        /\ \A u, v \in Threads :
             th'[u].pc \in OpenPcs /\ th'[v].pc \in OpenPcs /\ th'[u].elem = th'[v].elem => u = v
        /\ \A i \in 1..pushes' : i \in done' \/ \E u \in Threads : th'[u].pc \in OpenPcs /\ th'[u].elem = i
    BY <1>2, <1>3, <1>11, <1>12 DEF Books
  <2> QED BY <2>3, <2>4 DEF Books, Uncounting
<1>26. Plain(root2, pos)'
  BY <1>2, <1>3, <1>16 DEF Plain
<1>27. Calm(t, root, pos, root2, pos)
  <2>1. head' # head
    BY <1>4, <1>17
  <2>2. used' \in Int /\ used <= used'
    BY <1>2, <1>3 DEF TypeOK
  <2>3. \A m \in Nodes : root2[m] = Null => root[m] = Null /\ m # h
    BY <1>16, <1>4
  <2> QED BY <1>0, <1>2, <1>17, <1>18, <2>1, <2>2, <2>3 DEF Calm, Watched
<1>28. (PushOK(root2, pos, th[t]) /\ PopOK(t, root2, th[t]))'
  <2>1. PushOK(root2, pos, th[t])'
    BY <1>8, <1>10 DEF PushOK, HoldPcs, RootPcs, TriedPcs
  <2>2. e \in Items
    BY <1>6, <1>19 DEF Items
  <2>3. PopOK(t, root2, th[t])'
    BY <1>8, <1>10, <2>2 DEF PopOK, HeadPcs, NextPcs, PopPcs, GotPcs
  <2> QED BY <2>1, <2>3
<1>29. Good(root2, pos)'
  BY <1>10, <1>20, <1>21, <1>22, <1>23, <1>24, <1>25, <1>26, <1>27, <1>28, Settled
<1>30. Queue(root2) = Queue(root) \ {head.node}
  BY <1>0, <1>4, <1>16 DEF Queue
<1> QED BY <1>29, <1>30


-----------------------------------------------------------------------------
(* Pop: the node is given back                                             *)

\* The node goes to the free list, and its next pointer is written.
LEMMA GiveBackGood ==
  ASSUME NEW root, NEW pos, Good(root, pos), NEW t \in Threads, GiveBack(t), Watched
  PROVE  Good(root, pos)'
<1> USE Sets
<1> DEFINE l == th[t]
<1>0. PICK n, k : n = l.node /\ k = Idle
  OBVIOUS
<1>1. /\ l.pc = "giveBack" /\ l \in ThreadType /\ PopOK(t, root, l) /\ Goto(t, k)
      /\ elem' = [elem EXCEPT ![n] = l.elem]
      /\ head' = head /\ tail' = tail /\ count' = count /\ used' = used
      /\ pushes' = pushes /\ recycle' = recycle /\ done' = done /\ taken' = taken
  BY <1>0, Facts DEF GiveBack, At, calls, history
<1>2. \/ /\ recycle /\ free' = <<n>> \o free
         /\ next' = [next EXCEPT ![n] = IF free = <<>> THEN Null ELSE Head(free)]
      \/ next' = next /\ free' = free
  BY <1>0 DEF GiveBack
<1>3. TypeOK /\ Own(root) /\ Ends(root) /\ Order(root, pos) /\ Cargo(root) /\ Books /\ Plain(root, pos)
  BY DEF Good
<1>4. Holds(t) /\ n \in Nodes /\ n \in 1..used /\ root[n] = n /\ n # Null
  <2>1. Holds(t)
    BY <1>1 DEF Holds, HeldPcs, GotPcs
  <2>2. n \in Nodes /\ n \in 1..used /\ root[n] = n
    BY <2>1, <1>0, Holders
  <2> QED BY <2>1, <2>2
<1>5. k \in ThreadType /\ k.pc = "idle"
  BY <1>0, Empty
<1>6. th' \in [Threads -> ThreadType] /\ th'[t] = k /\ Others(t)
  BY <1>1, <1>5, Facts, Goes
<1>7. \A u \in Threads : u # t => th'[u] = th[u]
  BY <1>6 DEF Others
<1>8. /\ ~ Holds(t)' /\ th'[t].pc \notin HoldPcs /\ th[t].pc \notin HoldPcs
      /\ th'[t].pc \notin RootPcs /\ th[t].pc \notin RootPcs
      /\ th'[t].pc \notin OpenPcs /\ th[t].pc \notin OpenPcs
      /\ ~ At(t, "uncount") /\ ~ At(t, "uncount")'
  BY <1>1, <1>5, <1>6 DEF Holds, HeldPcs, HoldPcs, RootPcs, GotPcs, OpenPcs, At
<1>9. \A u \in Threads : Holds(u)' => Holds(u) /\ u # t /\ th'[u] = th[u]
  BY <1>7, <1>8 DEF Holds
<1>10. \A u \in Threads \ {t} : Holds(u) => th[u].node # n
  BY <1>0, <1>3, <1>4 DEF Own
<1>11. \A c : (IsList(c)' <=> IsList(c)) /\ (Pushed(c)' <=> Pushed(c))
  BY <1>7, <1>8 DEF IsList, Pushed
<1>12. ~ IsList(n) /\ ~ Pushed(n)
  BY <1>4, <1>8, <1>10 DEF IsList, Pushed, RootPcs, HeldPcs, Holds
<1>13. \A m \in Nodes : root[m] = n => m = n
  BY <1>3, <1>12 DEF Own
<1>14. \A m : (Pending(root, m)' <=> Pending(root, m)) /\ (Carries(root, m)' <=> Carries(root, m))
  BY <1>1, <1>11 DEF Pending, Carries
<1>15. ~ Pending(root, n) /\ ~ Carries(root, n)
  BY <1>4, <1>12 DEF Pending, Carries
<1>16. \A c : Base(c)' = Base(c)
  BY <1>1 DEF Base
<1>17. elem' \in [Nodes -> Null..MaxPushes] /\ \A m \in Nodes : m # n => elem'[m] = elem[m]
  <2>1. l.elem \in Null..MaxPushes
    BY <1>1 DEF ThreadType
  <2> QED BY <2>1, <1>1, <1>3, <1>4 DEF TypeOK
<1>18. next \in [Nodes -> Pointers] /\ free \in Seq(Nodes) /\ next[n] # End
  <2>1. next \in [Nodes -> Pointers] /\ free \in Seq(Nodes)
    BY <1>3 DEF TypeOK
  <2>2. next[n] # End
    BY <1>3, <1>4, <1>12 DEF Ends
  <2> QED BY <2>1, <2>2
<1>19. next' \in [Nodes -> Pointers] /\ next'[n] # End /\ \A m \in Nodes : m # n => next'[m] = next[m]
  <2>1. CASE next' = [next EXCEPT ![n] = IF free = <<>> THEN Null ELSE Head(free)]
    <3>1. (IF free = <<>> THEN Null ELSE Head(free)) \in Pointers \ {End}
      BY <1>18
    <3> QED BY <2>1, <3>1, <1>4, <1>18
  <2>2. CASE next' = next
    BY <2>2, <1>18
  <2> QED BY <2>1, <2>2, <1>2
<1>20. free' \in Seq(Nodes)
  <2>1. CASE free' = <<n>> \o free
    <3>1. <<n>> \in Seq(Nodes)
      BY <1>4
    <3> QED BY <2>1, <3>1, <1>18
  <2>2. CASE free' = free
    BY <2>2, <1>18
  <2> QED BY <2>1, <2>2, <1>2
<1>21. \A j \in DOMAIN free' : free'[j] = n \/ \E i \in DOMAIN free : free'[j] = free[i]
  <2>1. CASE free' = <<n>> \o free
    <3> TAKE j \in DOMAIN free'
    <3>1. j = 1 \/ (j - 1 \in DOMAIN free /\ free'[j] = free[j - 1])
      BY <2>1, <1>18
    <3>2. j = 1 => free'[j] = n
      BY <2>1, <1>18
    <3> QED BY <3>1, <3>2
  <2>2. CASE free' = free
    BY <2>2
  <2> QED BY <2>1, <2>2, <1>2
<1>22. \A i, j \in DOMAIN free' : free'[i] = free'[j] => i = j
  <2>1. CASE free' = <<n>> \o free
    <3>1. \A i, j \in DOMAIN free : free[i] = free[j] => i = j
      BY <1>3 DEF Own
    <3>2. \A i \in DOMAIN free : free[i] # n
      BY <1>0, <1>3, <1>4 DEF Own
    <3>3. free'[1] = n /\ \A j \in DOMAIN free' : j = 1 \/ (j - 1 \in DOMAIN free /\ free'[j] = free[j - 1])
      BY <2>1, <1>18
    <3>4. \A j \in DOMAIN free' : j \in Int
      BY <1>20
    <3> TAKE i, j \in DOMAIN free'
    <3>5. i # 1 /\ j # 1 /\ free'[i] = free'[j] => i - 1 = j - 1
      BY <3>1, <3>3
    <3> QED BY <3>2, <3>3, <3>4, <3>5
  <2>2. CASE free' = free
    BY <2>2, <1>3 DEF Own
  <2> QED BY <2>1, <2>2, <1>2
<1>23. TypeOK'
  <2>1. empty' \subseteq Threads
    BY AskedKept
  <2> QED BY <1>1, <1>3, <1>6, <1>17, <1>19, <1>20, <2>1 DEF TypeOK
<1>24. Own(root)'
  <2>1. \A u \in Threads : Holds(u)' => th'[u].node \in 1..used' /\ root[th'[u].node] = th'[u].node
    BY <1>1, <1>3, <1>9 DEF Own
  <2>2. \A u, v \in Threads : Holds(u)' /\ Holds(v)' /\ th'[u].node = th'[v].node => u = v
    BY <1>3, <1>9 DEF Own
  <2>3. \A j \in DOMAIN free' :
          /\ free'[j] <= used' /\ root[free'[j]] = free'[j]
          /\ \A u \in Threads : Holds(u)' => th'[u].node # free'[j]
    <3> TAKE j \in DOMAIN free'
    <3>1. CASE free'[j] = n
      <4>1. n <= used
        BY <1>4
      <4> QED BY <3>1, <4>1, <1>1, <1>4, <1>9, <1>10
    <3>2. CASE free'[j] # n
      <4>1. PICK i \in DOMAIN free : free'[j] = free[i]
        BY <3>2, <1>21
      <4>2. free[i] <= used /\ root[free[i]] = free[i] /\ \A u \in Threads : Holds(u) => th[u].node # free[i]
        BY <1>3 DEF Own
      <4> QED BY <4>1, <4>2, <1>1, <1>9
    <3> QED BY <3>1, <3>2
  <2>4. \A m \in Nodes : (m > used' => root[m] = m) /\ (root[m] = m \/ IsList(root[m])')
    BY <1>1, <1>3, <1>11 DEF Own
  <2>5. root \in [Nodes -> Null..(MaxPushes + 1)] /\ used' <= pushes' + 1
    BY <1>1, <1>3 DEF Own
  <2> QED BY <1>22, <2>1, <2>2, <2>3, <2>4, <2>5 DEF Own
<1>25. Ends(root)'
  <2>1. \A m \in Nodes : next'[m] = End => IsList(root[m])'
    BY <1>3, <1>11, <1>19 DEF Ends
  <2>2. \A c \in Null..(MaxPushes + 1) : IsList(c)' => \E m \in Nodes : root[m] = c /\ next'[m] = End
    BY <1>3, <1>11, <1>18, <1>19 DEF Ends
  <2>3. \A m \in Nodes : root[m] # Null /\ IsList(root[m])' => elem'[m] <= elem'[root[m]]
    <3> SUFFICES ASSUME NEW m \in Nodes, root[m] # Null, IsList(root[m]) PROVE elem'[m] <= elem'[root[m]]
      BY <1>11
    <3>1. root[m] \in Null..(MaxPushes + 1)
      BY <1>3 DEF Own
    <3>2. m # n /\ root[m] # n /\ root[m] \in Nodes
      BY <3>1, <1>4, <1>12
    <3> QED BY <3>2, <1>3, <1>17 DEF Ends
  <2> QED BY <1>1, <1>3, <2>1, <2>2, <2>3 DEF Ends
<1>26. Order(root, pos)'
  <2>1. \A m \in Nodes : IsList(root[m]) => m # n
    BY <1>4, <1>12
  <2>2. \A u \in Threads : th'[u].pc \in RootPcs => pos[th'[u].node] = 0
    BY <1>3, <1>7, <1>8 DEF Order
  <2>3. \A m \in Nodes : IsList(root[m])' => Base(root[m])' <= pos[m]
    BY <1>3, <1>11, <1>16 DEF Order
  <2>4. \A m, p \in Nodes : IsList(root[p])' /\ root[m] = root[p] /\ pos[m] = pos[p] => m = p
    BY <1>3, <1>11 DEF Order
  <2>5. \A m \in Nodes : IsList(root[m])' /\ next'[m] # End =>
          next'[m] \in Nodes /\ root[next'[m]] = root[m] /\ pos[next'[m]] = pos[m] + 1
    BY <1>3, <1>11, <1>19, <2>1 DEF Order
  <2>6. \A m, p \in Nodes : IsList(root[p])' /\ root[m] = root[p] /\ pos[m] < pos[p] => next'[m] # End
    BY <1>3, <1>11, <1>19, <2>1 DEF Order
  <2>7. pos \in [Nodes -> Nat] /\ pos[head'.node] = head'.seq /\ pos[tail'.node] = tail'.seq
    BY <1>1, <1>3 DEF Order
  <2> QED BY <2>2, <2>3, <2>4, <2>5, <2>6, <2>7 DEF Order
<1>27. Cargo(root)'
  <2>1. \A m \in Nodes : Carries(root, m)' => Carries(root, m) /\ elem'[m] = elem[m]
    BY <1>14, <1>15, <1>17
  <2>2. \A i \in 1..pushes' : taken'[i] = 0 => \E m \in Nodes : Carries(root, m)' /\ elem'[m] = i
    BY <1>1, <1>3, <1>14, <1>15, <1>17 DEF Cargo
  <2> QED BY <1>1, <1>3, <2>1, <2>2 DEF Cargo
<1>28. Books'
  <2>1. Earns(t)
    BY <1>8 DEF Earns
  <2> QED BY <2>1, <1>1, <1>3, <1>6, BooksKept
<1>29. Plain(root, pos)'
  BY <1>1, <1>3 DEF Plain
<1>30. Calm(t, root, pos, root, pos)
  <2>1. used \in Int /\ used <= used
    BY <1>3 DEF TypeOK
  <2>2. head.node # n /\ tail.node # n /\ head.node \in Nodes /\ tail.node \in Nodes /\ root[head.node] = Null
    BY <1>4, Facts
  <2>3. next[head.node] # End => next[head.node] \in Nodes /\ next[head.node] # n
    <3>1. IsList(root[head.node])
      BY <2>2 DEF IsList
    <3> QED BY <2>2, <3>1, <1>3, <1>4 DEF Order
  <2>4. \A u \in Threads \ {t} : th[u].pc \in HoldPcs => elem'[th[u].node] = elem[th[u].node]
    <3>1. \A u \in Threads \ {t} : th[u].pc \in HoldPcs => Holds(u) /\ th[u].node # n
      BY <1>10 DEF Holds, HeldPcs
    <3> QED BY <3>1, <1>17, Holders
  <2>5. \A m \in Nodes : Pending(root, m)' => Pending(root, m) /\ elem'[m] = elem[m]
    BY <1>14, <1>15, <1>17
  <2> QED BY <1>1, <1>17, <1>19, <2>1, <2>2, <2>3, <2>4, <2>5 DEF Calm, Watched
<1>31. (PushOK(root, pos, th[t]) /\ PopOK(t, root, th[t]))'
  BY <1>5, <1>6 DEF PushOK, PopOK, HoldPcs, RootPcs, TriedPcs, HeadPcs, NextPcs, PopPcs, GotPcs
<1> QED BY <1>6, <1>23, <1>24, <1>25, <1>26, <1>27, <1>28, <1>29, <1>30, <1>31, Settled

-----------------------------------------------------------------------------
(* Push: the node is linked, and its list becomes the end of another       *)

\* The thread's node follows the last one of the queue.
Joined(t, root, pos, root2, pos2) ==
  LET n == th[t].node
      z == th[t].link.node
  IN  /\ z \in Queue(root) /\ n \in Nodes \ Queue(root) /\ Queue(root2) = Queue(root) \cup {n}
      /\ pos2[n] = pos[z] + 1 /\ \A m \in Queue(root) : pos2[m] = pos[m]

\* A list is hooked to the last node of another, in the queue or (with nodes used
\* again) pushed by a thread and not linked itself.
LEMMA LinkSucceeds ==
  ASSUME NEW root, NEW pos, Good(root, pos), NEW t \in Threads, Link(t),
         next[th[t].link.node] = End, Watched
  PROVE  \E root2, pos2 : Good(root2, pos2)' /\ (~recycle => Joined(t, root, pos, root2, pos2))
<1> USE Sets
<1> DEFINE l == th[t]
<1>0. PICK n, z, c, k : n = l.node /\ z = l.link.node /\ c = root[z] /\ k = [l EXCEPT !.pc = "finish"]
  OBVIOUS
<1>1. PICK root2, pos2 :
        /\ root2 = [m \in Nodes |-> IF root[m] = n THEN c ELSE root[m]]
        /\ pos2 = [m \in Nodes |-> IF root[m] = n THEN pos[m] + pos[z] + 1 ELSE pos[m]]
  OBVIOUS
<1>2. /\ l.pc = "link" /\ l \in ThreadType /\ PushOK(root, pos, l) /\ Goto(t, k)
      /\ next[z] = End /\ next' = [next EXCEPT ![z] = n]
      /\ elem' = elem /\ head' = head /\ tail' = tail /\ count' = count /\ free' = free
      /\ used' = used /\ pushes' = pushes /\ recycle' = recycle /\ done' = done /\ taken' = taken
  BY <1>0, Facts DEF Link, At, calls, history
<1>3. TypeOK /\ Own(root) /\ Ends(root) /\ Order(root, pos) /\ Cargo(root) /\ Books /\ Plain(root, pos)
  BY DEF Good
<1>4. k \in ThreadType /\ k.pc = "finish" /\ k.node = l.node /\ k.elem = l.elem /\ k.link = l.link
  BY <1>0, <1>2 DEF ThreadType, PushPcs
<1>5. th' \in [Threads -> ThreadType] /\ th'[t] = k /\ Others(t)
  BY <1>2, <1>4, Facts, Goes
<1>6. \A u \in Threads : u # t => th'[u] = th[u]
  BY <1>5 DEF Others
<1>7. /\ Holds(t) /\ ~ Holds(t)' /\ th[t].pc \in HoldPcs /\ th'[t].pc \notin HoldPcs
      /\ th[t].pc \in RootPcs /\ th'[t].pc \notin RootPcs
      /\ th[t].pc \in OpenPcs /\ th'[t].pc \in OpenPcs
      /\ ~ At(t, "uncount") /\ ~ At(t, "uncount")'
  BY <1>2, <1>4, <1>5 DEF Holds, HeldPcs, HoldPcs, RootPcs, GotPcs, OpenPcs, At
<1>8. n \in Nodes /\ n \in 1..used /\ root[n] = n /\ n # Null /\ pos[n] = 0 /\ elem[n] = l.elem
      /\ Pushed(n) /\ IsList(n)
  <2>1. n \in Nodes /\ n \in 1..used /\ root[n] = n
    BY <1>0, <1>7, Holders
  <2>2. pos[n] = 0
    BY <1>0, <1>3, <1>7 DEF Order
  <2>3. elem[n] = l.elem
    BY <1>0, <1>2, <1>7 DEF PushOK
  <2>4. Pushed(n) /\ IsList(n)
    BY <1>0, <1>7 DEF Pushed, IsList
  <2> QED BY <2>1, <2>2, <2>3, <2>4
<1>9. z \in Nodes /\ IsList(c) /\ c \in Null..(MaxPushes + 1)
  <2>1. z \in Nodes
    BY <1>0, <1>2 DEF PushOK, TriedPcs
  <2>2. IsList(c) /\ c \in Null..(MaxPushes + 1)
    BY <2>1, <1>0, <1>2, <1>3 DEF Ends, Own
  <2> QED BY <2>1, <2>2
<1>10. \A m \in Nodes : elem[m] \in Int /\ pos[m] \in Nat
  <2>1. elem \in [Nodes -> Null..MaxPushes] /\ pos \in [Nodes -> Nat]
    BY <1>3 DEF TypeOK, Order
  <2> QED BY <2>1
<1>11. \A m \in Nodes : root[m] = n => Pending(root, m)
  BY <1>8 DEF Pending
<1>12. Pending(root, z) => elem[z] > elem[n]
  BY <1>0, <1>2, <1>7, <1>8, <1>9 DEF PushOK
<1>13. c # n
  <2> SUFFICES ASSUME c = n PROVE FALSE
    OBVIOUS
  <2>1. elem[z] > elem[n]
    BY <1>0, <1>9, <1>11, <1>12
  <2>2. elem[z] <= elem[n]
    BY <1>0, <1>3, <1>8, <1>9 DEF Ends
  <2> QED BY <2>1, <2>2, <1>8, <1>9, <1>10
<1>14. c # Null => c \in Nodes /\ root[c] = c /\ Pending(root, z)
  <2> SUFFICES ASSUME c # Null PROVE c \in Nodes /\ root[c] = c /\ Pending(root, z)
    OBVIOUS
  <2>1. PICK u \in Threads : th[u].pc \in RootPcs /\ th[u].node = c
    BY <1>9 DEF IsList
  <2>2. th[u].pc \in HoldPcs /\ Holds(u)
    BY <2>1 DEF RootPcs, HeldPcs, Holds
  <2>3. c \in Nodes /\ root[c] = c
    BY <2>1, <2>2, Holders
  <2>4. z = c => Pushed(z)
    BY <2>1, <2>2 DEF Pushed
  <2> QED BY <2>3, <2>4, <1>0 DEF Pending
<1>15. c # Null => elem[n] < elem[z] /\ elem[z] <= elem[c]
  BY <1>0, <1>3, <1>9, <1>12, <1>14 DEF Ends
<1>16. \A u \in Threads \ {t} : Holds(u) => th[u].node # n
  BY <1>0, <1>3, <1>7 DEF Own
<1>17. \A u \in Threads : Holds(u)' => Holds(u) /\ u # t /\ th'[u] = th[u] /\ th[u].node # n
  BY <1>6, <1>7, <1>16 DEF Holds
<1>18. \A u \in Threads : /\ th[u].pc \in RootPcs => th[u].pc \in HoldPcs
                          /\ th[u].pc \in HoldPcs => Holds(u)
  BY DEF RootPcs, HeldPcs, Holds
<1>19. \A x : IsList(x)' <=> IsList(x) /\ x # n
  BY <1>0, <1>6, <1>7, <1>8, <1>16, <1>18 DEF IsList
<1>20. \A x : Pushed(x)' <=> Pushed(x) /\ x # n
  BY <1>0, <1>6, <1>7, <1>16, <1>18 DEF Pushed
<1>21. \A x : Base(x)' = Base(x)
  BY <1>2 DEF Base
<1>22. /\ root2 \in [Nodes -> Null..(MaxPushes + 1)] /\ pos2 \in [Nodes -> Nat]
       /\ \A m \in Nodes : root[m] = n => root2[m] = c /\ pos2[m] = pos[m] + pos[z] + 1
       /\ \A m \in Nodes : root[m] # n => root2[m] = root[m] /\ pos2[m] = pos[m]
  <2>1. root \in [Nodes -> Null..(MaxPushes + 1)] /\ pos \in [Nodes -> Nat]
    BY <1>3 DEF Own, Order
  <2>2. root2 \in [Nodes -> Null..(MaxPushes + 1)]
    BY <2>1, <1>1, <1>9
  <2>3. \A m \in Nodes : pos[m] + pos[z] + 1 \in Nat /\ pos[m] \in Nat
    BY <1>9, <1>10
  <2>4. pos2 \in [Nodes -> Nat]
    BY <2>3, <1>1
  <2> QED BY <2>2, <2>4, <1>1
<1>23. \A m \in Nodes : root[m] = c => pos[m] <= pos[z] /\ (m # z => pos[m] < pos[z] /\ next[m] # End)
  <2> SUFFICES ASSUME NEW m \in Nodes, root[m] = c
               PROVE  pos[m] <= pos[z] /\ (m # z => pos[m] < pos[z] /\ next[m] # End)
    OBVIOUS
  <2>1. ~ (pos[z] < pos[m])
    BY <1>0, <1>2, <1>3, <1>9 DEF Order
  <2>2. pos[m] = pos[z] => m = z
    BY <1>0, <1>3, <1>9 DEF Order
  <2>3. pos[m] < pos[z] => next[m] # End
    BY <1>0, <1>3, <1>9 DEF Order
  <2> QED BY <2>1, <2>2, <2>3, <1>9, <1>10
<1>24. next' \in [Nodes -> Pointers] /\ next'[z] = n /\ \A m \in Nodes : m # z => next'[m] = next[m]
  BY <1>2, <1>3, <1>8, <1>9 DEF TypeOK
<1>25. head.node \in Nodes /\ tail.node \in Nodes /\ root[head.node] = Null /\ root[tail.node] = Null
  BY Facts
<1>26. \A m \in Nodes : /\ Pending(root2, m)' => Pending(root, m)
                        /\ Carries(root2, m)' <=> Carries(root, m)
  <2> TAKE m \in Nodes
  <2>1. CASE root[m] = n
    <3>1. Pending(root, m) /\ root2[m] = c /\ m # head.node
      BY <2>1, <1>8, <1>11, <1>22, <1>25
    <3>2. c # Null => m # c
      BY <2>1, <1>13, <1>14
    <3> QED BY <3>1, <3>2, <1>2 DEF Carries, Pending
  <2>2. CASE root[m] # n
    BY <2>2, <1>2, <1>8, <1>20, <1>22 DEF Carries, Pending
  <2> QED BY <2>1, <2>2
<1>27. TypeOK'
  <2>1. empty' \subseteq Threads
    BY AskedKept
  <2> QED BY <1>2, <1>3, <1>5, <1>24, <2>1 DEF TypeOK
<1>28. Own(root2)'
  <2>1. \A u \in Threads : Holds(u)' => th'[u].node \in 1..used' /\ root2[th'[u].node] = th'[u].node
    <3> SUFFICES ASSUME NEW u \in Threads, Holds(u)'
                 PROVE  th'[u].node \in 1..used' /\ root2[th'[u].node] = th'[u].node
      OBVIOUS
    <3>1. Holds(u) /\ th'[u] = th[u] /\ th[u].node # n
      BY <1>17
    <3>2. th[u].node \in Nodes /\ th[u].node \in 1..used /\ root[th[u].node] = th[u].node
      BY <3>1, Holders
    <3> QED BY <3>1, <3>2, <1>2, <1>22
  <2>2. \A u, v \in Threads : Holds(u)' /\ Holds(v)' /\ th'[u].node = th'[v].node => u = v
    BY <1>3, <1>17 DEF Own
  <2>3. \A j \in DOMAIN free' :
          /\ free'[j] <= used' /\ root2[free'[j]] = free'[j]
          /\ \A u \in Threads : Holds(u)' => th'[u].node # free'[j]
    <3> TAKE j \in DOMAIN free'
    <3>1. free \in Seq(Nodes) /\ j \in DOMAIN free
      BY <1>2, <1>3 DEF TypeOK
    <3>2. free[j] \in Nodes
      BY <3>1
    <3>3. free[j] <= used /\ root[free[j]] = free[j] /\ \A u \in Threads : Holds(u) => th[u].node # free[j]
      BY <3>1, <1>3 DEF Own
    <3>4. free[j] # n
      BY <3>3, <1>0, <1>7
    <3> QED BY <3>2, <3>3, <3>4, <1>2, <1>17, <1>22
  <2>4. \A m \in Nodes : m > used' => root2[m] = m
    <3> TAKE m \in Nodes
    <3>1. m > used => m # n
      BY <1>3, <1>8 DEF TypeOK
    <3>2. m > used => root[m] = m
      BY <1>3 DEF Own
    <3> QED BY <3>1, <3>2, <1>2, <1>22
  <2>5. \A m \in Nodes : root2[m] = m \/ IsList(root2[m])'
    <3> TAKE m \in Nodes
    <3>1. root[m] = m \/ IsList(root[m])
      BY <1>3 DEF Own
    <3> QED BY <3>1, <1>9, <1>13, <1>19, <1>22
  <2>6. used' <= pushes' + 1 /\ \A i, j \in DOMAIN free' : free'[i] = free'[j] => i = j
    BY <1>2, <1>3 DEF Own
  <2> QED BY <1>22, <2>1, <2>2, <2>3, <2>4, <2>5, <2>6 DEF Own
<1>29. Ends(root2)'
  <2>1. root2[head'.node] = Null /\ root2[tail'.node] = Null
    BY <1>2, <1>8, <1>22, <1>25
  <2>2. \A m \in Nodes : next'[m] = End => IsList(root2[m])'
    <3> SUFFICES ASSUME NEW m \in Nodes, next'[m] = End PROVE IsList(root2[m])'
      OBVIOUS
    <3>1. next[m] = End
      BY <1>8, <1>24
    <3>2. IsList(root[m])
      BY <3>1, <1>3 DEF Ends
    <3> QED BY <3>2, <1>9, <1>13, <1>19, <1>22
  <2>3. \A x \in Null..(MaxPushes + 1) : IsList(x)' => \E m \in Nodes : root2[m] = x /\ next'[m] = End
    <3> SUFFICES ASSUME NEW x \in Null..(MaxPushes + 1), IsList(x), x # n
                 PROVE  \E m \in Nodes : root2[m] = x /\ next'[m] = End
      BY <1>19
    <3>1. CASE x = c
      <4>1. PICK m \in Nodes : root[m] = n /\ next[m] = End
        BY <1>3, <1>8 DEF Ends
      <4>2. m # z
        BY <4>1, <1>0, <1>13
      <4> QED BY <3>1, <4>1, <4>2, <1>22, <1>24
    <3>2. CASE x # c
      <4>1. PICK m \in Nodes : root[m] = x /\ next[m] = End
        BY <1>3 DEF Ends
      <4>2. m # z
        BY <3>2, <4>1, <1>0
      <4> QED BY <4>1, <4>2, <1>22, <1>24
    <3> QED BY <3>1, <3>2
  <2>4. \A m \in Nodes : root2[m] # Null /\ IsList(root2[m])' => elem'[m] <= elem'[root2[m]]
    <3> SUFFICES ASSUME NEW m \in Nodes, root2[m] # Null, IsList(root2[m])'
                 PROVE  elem[m] <= elem[root2[m]]
      BY <1>2
    <3>1. CASE root[m] = n
      <4>1. root2[m] = c /\ c # Null /\ c \in Nodes
        BY <3>1, <1>14, <1>22
      <4>2. elem[m] <= elem[n]
        BY <3>1, <1>3, <1>8 DEF Ends
      <4>3. elem[n] < elem[z] /\ elem[z] <= elem[c]
        BY <4>1, <1>15
      <4> QED BY <4>1, <4>2, <4>3, <1>8, <1>9, <1>10
    <3>2. CASE root[m] # n
      BY <3>2, <1>3, <1>19, <1>22 DEF Ends
    <3> QED BY <3>1, <3>2
  <2> QED BY <2>1, <2>2, <2>3, <2>4 DEF Ends
<1>30. Order(root2, pos2)'
  <2>1. pos2[head'.node] = head'.seq /\ pos2[tail'.node] = tail'.seq
    BY <1>2, <1>3, <1>8, <1>22, <1>25 DEF Order
  <2>2. \A u \in Threads : th'[u].pc \in RootPcs => pos2[th'[u].node] = 0
    <3> SUFFICES ASSUME NEW u \in Threads, th'[u].pc \in RootPcs PROVE pos2[th'[u].node] = 0
      OBVIOUS
    <3>1. u # t /\ th'[u] = th[u] /\ Holds(u) /\ th[u].node # n
      BY <1>6, <1>7, <1>16, <1>18
    <3>2. th[u].node \in Nodes /\ root[th[u].node] = th[u].node
      BY <3>1, Holders
    <3>3. pos[th[u].node] = 0
      BY <3>1, <1>3 DEF Order
    <3> QED BY <3>1, <3>2, <3>3, <1>22
  <2>3. \A m \in Nodes : IsList(root2[m])' => \/ root[m] = n
                                              \/ root[m] # n /\ root2[m] = root[m] /\ IsList(root[m])
    BY <1>19, <1>22
  <2>4. \A m \in Nodes : IsList(root2[m])' => Base(root2[m])' <= pos2[m]
    <3> SUFFICES ASSUME NEW m \in Nodes, IsList(root2[m])' PROVE Base(root2[m]) <= pos2[m]
      BY <1>21
    <3>1. CASE root[m] = n
      <4>1. Base(c) <= pos[z]
        BY <1>0, <1>3, <1>9 DEF Order
      <4>2. Base(c) \in Int
        BY Facts DEF Base
      <4>3. root2[m] = c /\ pos2[m] = pos[m] + pos[z] + 1
        BY <3>1, <1>22
      <4>4. pos[z] <= pos[m] + pos[z] + 1 /\ pos[m] + pos[z] + 1 \in Int /\ pos[z] \in Int
        BY <1>9, <1>10
      <4>5. Base(c) <= pos[m] + pos[z] + 1
        BY <4>1, <4>2, <4>4
      <4> QED BY <4>3, <4>5
    <3>2. CASE root[m] # n
      BY <3>2, <2>3, <1>3, <1>22 DEF Order
    <3> QED BY <3>1, <3>2
  <2>5. \A m, p \in Nodes : root[m] # n /\ root2[m] = root2[p] /\ root[p] = n => pos2[m] < pos2[p] /\ root[m] = c
    <3> SUFFICES ASSUME NEW m \in Nodes, NEW p \in Nodes, root[m] # n, root2[m] = root2[p], root[p] = n
                 PROVE  pos2[m] < pos2[p] /\ root[m] = c
      OBVIOUS
    <3>1. root[m] = c /\ pos2[m] = pos[m] /\ pos2[p] = pos[p] + pos[z] + 1
      BY <1>22
    <3>2. pos[m] <= pos[z]
      BY <3>1, <1>23
    <3> QED BY <3>1, <3>2, <1>9, <1>10
  <2>6. \A m, p \in Nodes : IsList(root2[p])' /\ root2[m] = root2[p] /\ pos2[m] = pos2[p] => m = p
    <3> SUFFICES ASSUME NEW m \in Nodes, NEW p \in Nodes, IsList(root2[p])', root2[m] = root2[p],
                        pos2[m] = pos2[p]
                 PROVE  m = p
      OBVIOUS
    <3>0. pos2[m] \in Nat /\ pos2[p] \in Nat
      BY <1>22
    <3>1. (root[m] = n) <=> (root[p] = n)
      BY <3>0, <2>5
    <3>2. CASE root[p] = n
      <4>1. root[m] = n
        BY <3>1, <3>2
      <4>2. pos[m] + pos[z] + 1 = pos[p] + pos[z] + 1
        BY <3>2, <4>1, <1>22
      <4>3. pos[m] = pos[p]
        BY <4>2, <1>9, <1>10
      <4> QED BY <3>2, <4>1, <4>3, <1>3, <1>8 DEF Order
    <3>3. CASE root[p] # n
      <4>1. root[m] = root[p] /\ IsList(root[p]) /\ pos[m] = pos[p]
        BY <3>1, <3>3, <2>3, <1>22
      <4> QED BY <4>1, <1>3 DEF Order
    <3> QED BY <3>2, <3>3
  <2>7. \A m \in Nodes : IsList(root2[m])' /\ next'[m] # End =>
          next'[m] \in Nodes /\ root2[next'[m]] = root2[m] /\ pos2[next'[m]] = pos2[m] + 1
    <3> SUFFICES ASSUME NEW m \in Nodes, IsList(root2[m])', next'[m] # End
                 PROVE  next'[m] \in Nodes /\ root2[next'[m]] = root2[m] /\ pos2[next'[m]] = pos2[m] + 1
      OBVIOUS
    <3>1. CASE m = z
      <4>1. root[m] # n /\ root2[m] = c /\ pos2[m] = pos[z]
        BY <3>1, <1>0, <1>9, <1>13, <1>22
      <4>2. root2[n] = c /\ pos2[n] = pos[z] + 1
        <5>1. root2[n] = c /\ pos2[n] = 0 + pos[z] + 1
          BY <1>8, <1>22
        <5>2. pos[z] \in Nat
          BY <1>9, <1>10
        <5> QED BY <5>1, <5>2
      <4> QED BY <3>1, <4>1, <4>2, <1>8, <1>24
    <3>2. CASE m # z
      <4>1. IsList(root[m])
        BY <2>3, <1>8
      <4>2. next'[m] = next[m] /\ next[m] \in Nodes /\ root[next[m]] = root[m] /\ pos[next[m]] = pos[m] + 1
        BY <3>2, <4>1, <1>3, <1>24 DEF Order
      <4>3. CASE root[m] = n
        <5>1. pos2[next[m]] = (pos[m] + 1) + pos[z] + 1 /\ pos2[m] = pos[m] + pos[z] + 1
              /\ root2[next[m]] = c /\ root2[m] = c
          BY <4>2, <4>3, <1>22
        <5>2. pos[m] \in Nat /\ pos[z] \in Nat
          BY <1>9, <1>10
        <5>3. (pos[m] + 1) + pos[z] + 1 = (pos[m] + pos[z] + 1) + 1
          BY <5>2
        <5> QED BY <4>2, <5>1, <5>3
      <4>4. CASE root[m] # n
        BY <4>2, <4>4, <1>22
      <4> QED BY <4>3, <4>4
    <3> QED BY <3>1, <3>2
  <2>8. \A m, p \in Nodes : IsList(root2[p])' /\ root2[m] = root2[p] /\ pos2[m] < pos2[p] => next'[m] # End
    <3> SUFFICES ASSUME NEW m \in Nodes, NEW p \in Nodes, IsList(root2[p])', root2[m] = root2[p],
                        pos2[m] < pos2[p], m # z
                 PROVE  next[m] # End
      BY <1>8, <1>24
    <3>0. pos2[m] \in Nat /\ pos2[p] \in Nat
      BY <1>22
    <3>1. CASE root[m] = n
      <4>1. root[p] = n
        BY <3>0, <3>1, <2>5
      <4>2. pos[m] + pos[z] + 1 < pos[p] + pos[z] + 1
        BY <3>1, <4>1, <1>22
      <4>3. pos[m] < pos[p]
        BY <4>2, <1>9, <1>10
      <4> QED BY <3>1, <4>1, <4>3, <1>3, <1>8 DEF Order
    <3>2. CASE root[m] # n /\ root[p] = n
      <4>1. root[m] = c
        BY <3>2, <2>5
      <4> QED BY <4>1, <1>23
    <3>3. CASE root[m] # n /\ root[p] # n
      <4>1. root[m] = root[p] /\ IsList(root[p]) /\ pos[m] < pos[p]
        BY <3>3, <2>3, <1>22
      <4> QED BY <4>1, <1>3 DEF Order
    <3> QED BY <3>1, <3>2, <3>3
  <2> QED BY <1>22, <2>1, <2>2, <2>4, <2>6, <2>7, <2>8 DEF Order
<1>31. Cargo(root2)'
  BY <1>2, <1>3, <1>26 DEF Cargo
<1>32. Books'
  <2>1. Earns(t)
    BY <1>4, <1>5, <1>7 DEF Earns
  <2> QED BY <2>1, <1>2, <1>3, <1>5, BooksKept
<1>33. ~ recycle => c = Null /\ pos[z] <= tail.seq
  <2>1. ~ recycle => ~ Pending(root, z)
    BY <1>0, <1>2, <1>7, <1>9 DEF PushOK
  <2>2. ~ recycle => c = Null
    BY <2>1, <1>14
  <2> QED BY <2>2, <1>0, <1>2, <1>7, <1>9 DEF PushOK
<1>34. Plain(root2, pos2)'
  <2> SUFFICES ASSUME ~ recycle, NEW m \in Nodes
               PROVE  root2[m] \in {Null, m} /\ (root2[m] = Null => pos2[m] <= tail.seq + 1)
    BY <1>2 DEF Plain
  <2>1. root[m] \in {Null, m} /\ (root[m] = Null => pos[m] <= tail.seq + 1)
    BY <1>3 DEF Plain
  <2>2. c = Null /\ pos[z] <= tail.seq
    BY <1>33
  <2>3. CASE root[m] = n
    <3>1. m = n /\ root2[m] = Null /\ pos2[m] = pos[z] + 1
      BY <2>1, <2>2, <2>3, <1>8, <1>9, <1>10, <1>22
    <3>2. tail.seq \in Nat
      BY Facts
    <3> QED BY <2>2, <3>1, <3>2, <1>9, <1>10
  <2>4. CASE root[m] # n
    BY <2>1, <2>4, <1>22
  <2> QED BY <2>3, <2>4
<1>35. Calm(t, root, pos, root2, pos2)
  <2>1. used \in Int /\ used <= used
    BY <1>3 DEF TypeOK
  <2>2. next[head.node] # End => next'[head.node] = next[head.node]
    BY <1>2, <1>24, <1>25
  <2>3. next[tail.node] # End => next'[tail.node] = next[tail.node]
    BY <1>2, <1>24, <1>25
  <2>4. \A m \in Nodes : root2[m] = Null /\ ~ Pending(root, m) => root[m] = Null /\ pos2[m] = pos[m]
    BY <1>11, <1>22
  <2> QED BY <1>2, <1>26, <2>1, <2>2, <2>3, <2>4 DEF Calm, Watched
<1>36. (PushOK(root2, pos2, th[t]) /\ PopOK(t, root2, th[t]))'
  <2>1. l.link.seq <= tail.seq /\ l.link.node \in Nodes
    BY <1>2 DEF PushOK, TriedPcs
  <2>2. tail = l.link => next'[tail.node] = k.node
    BY <1>0, <1>4, <1>24
  <2>3. PushOK(root2, pos2, th[t])'
    <3>1. k.link.seq <= tail.seq /\ k.link.node \in Nodes /\ k.node \in Nodes
          /\ (tail = k.link => next'[tail.node] = k.node)
      BY <2>1, <2>2, <1>0, <1>4, <1>8
    <3> QED BY <3>1, <1>2, <1>4, <1>5 DEF PushOK, HoldPcs, RootPcs, TriedPcs
  <2>4. PopOK(t, root2, th[t])'
    BY <1>4, <1>5 DEF PopOK, HeadPcs, NextPcs, PopPcs, GotPcs
  <2> QED BY <2>3, <2>4
<1>37. Good(root2, pos2)'
  BY <1>5, <1>27, <1>28, <1>29, <1>30, <1>31, <1>32, <1>34, <1>35, <1>36, Settled
<1>38. ~ recycle => Joined(t, root, pos, root2, pos2)
  <2> SUFFICES ASSUME ~ recycle PROVE Joined(t, root, pos, root2, pos2)
    OBVIOUS
  <2>1. \A m \in Nodes : root[m] = n => m = n
    BY <1>3, <1>8 DEF Plain
  <2>2. c = Null
    BY <1>33
  <2>3. Queue(root2) = Queue(root) \cup {n}
    BY <2>1, <2>2, <1>8, <1>22 DEF Queue
  <2>4. pos2[n] = pos[z] + 1
    BY <1>8, <1>9, <1>10, <1>22
  <2>5. \A m \in Queue(root) : pos2[m] = pos[m]
    BY <1>8, <1>22 DEF Queue
  <2> QED BY <2>2, <2>3, <2>4, <2>5, <1>0, <1>8, <1>9 DEF Joined, Queue
<1> QED BY <1>37, <1>38

-----------------------------------------------------------------------------
(* The invariant, of all states                                            *)

\* At the start the dummy is the queue, and no other node is anywhere.
LEMMA InitGood == Init => Inv
<1> SUFFICES ASSUME Init PROVE Inv
  OBVIOUS
<1> USE Sets
<1>1. PICK root, pos : root = [n \in Nodes |-> IF n = 1 THEN Null ELSE n] /\ pos = [n \in Nodes |-> 0]
  OBVIOUS
<1>2. /\ next = [n \in Nodes |-> IF n = 1 THEN End ELSE Null] /\ elem = [n \in Nodes |-> Null]
      /\ head = [node |-> 1, seq |-> 0] /\ tail = head
      /\ count = 0 /\ free = <<>> /\ used = 1 /\ pushes = 0 /\ th = [t \in Threads |-> Idle]
      /\ recycle \in Modes /\ empty = {} /\ done = {} /\ taken = [i \in Null..MaxPushes |-> 0]
  BY DEF Init
<1>3. \A t \in Threads : th[t] = Idle /\ th[t].pc = "idle"
  BY <1>2, Empty
<1>4. /\ 1 \in Nodes /\ root[1] = Null /\ next[1] = End
      /\ \A n \in Nodes : n # 1 => root[n] = n /\ next[n] = Null /\ n > 1
      /\ \A n \in Nodes : pos[n] = 0 /\ elem[n] = Null
  BY <1>1, <1>2
<1>5. head.node = 1 /\ head.seq = 0 /\ tail.node = 1 /\ tail.seq = 0
  BY <1>2
<1>6. \A t \in Threads : /\ th[t].pc \notin HeldPcs /\ th[t].pc \notin HoldPcs /\ th[t].pc \notin RootPcs
                         /\ th[t].pc \notin OpenPcs /\ th[t].pc \notin PopPcs
  BY <1>3 DEF HeldPcs, HoldPcs, RootPcs, OpenPcs, GotPcs, PopPcs
<1>7. (\A c : IsList(c) <=> c = Null) /\ \A n : ~ Pushed(n)
  BY <1>6 DEF IsList, Pushed
<1>8. \A n \in Nodes : ~ Pending(root, n) /\ ~ Carries(root, n)
  BY <1>4, <1>5, <1>7 DEF Pending, Carries
<1>9. TypeOK
  <2>1. th \in [Threads -> ThreadType]
    BY <1>2, Empty
  <2>2. next \in [Nodes -> Pointers] /\ elem \in [Nodes -> Null..MaxPushes]
        /\ head \in [node: Nodes, seq: 0..MaxPushes] /\ tail \in [node: Nodes, seq: 0..MaxPushes]
    BY <1>2, <1>4
  <2>3. recycle \in BOOLEAN
    BY <1>2, ConstantsAssumption
  <2>4. taken \in [Null..MaxPushes -> Nat] /\ free \in Seq(Nodes)
    BY <1>2
  <2> QED BY <1>2, <1>4, <2>1, <2>2, <2>3, <2>4 DEF TypeOK
<1>10. Own(root)
  <2>1. root \in [Nodes -> Null..(MaxPushes + 1)]
    BY <1>1
  <2>2. DOMAIN free = {}
    BY <1>2
  <2> QED BY <1>2, <1>4, <1>6, <1>7, <2>1, <2>2 DEF Own, Holds
<1>11. Ends(root)
  <2>1. \A n \in Nodes : next[n] = End => IsList(root[n])
    BY <1>4, <1>7
  <2>2. \A n \in Nodes : root[n] # Null => ~ IsList(root[n])
    BY <1>7
  <2> QED BY <1>4, <1>5, <1>7, <2>1, <2>2 DEF Ends
<1>12. Order(root, pos)
  <2>1. pos \in [Nodes -> Nat]
    BY <1>1
  <2>2. \A n \in Nodes : IsList(root[n]) => n = 1
    BY <1>4, <1>7
  <2>3. Base(Null) = 0
    BY <1>5 DEF Base
  <2>4. \A m \in Nodes : root[m] = Null => m = 1
    BY <1>4
  <2> QED BY <1>4, <1>5, <1>6, <1>7, <2>1, <2>2, <2>3, <2>4 DEF Order
<1>13. Cargo(root)
  <2>1. \A i \in Null..MaxPushes : taken[i] = 0
    BY <1>2
  <2>2. {i \in Items : taken[i] = 1} = {}
    BY <2>1 DEF Items
  <2>3. Cardinality({}) = 0
    BY FS_EmptySet
  <2>4. head.seq = Cardinality({i \in Items : taken[i] = 1})
    BY <1>5, <2>2, <2>3
  <2>5. 1..pushes = {}
    BY <1>2
  <2> QED BY <1>8, <2>1, <2>4, <2>5 DEF Cargo
<1>14. Books
  <2>1. {t \in Threads : At(t, "uncount")} = {}
    BY <1>3 DEF At
  <2>2. Cardinality({}) = 0
    BY FS_EmptySet
  <2>3. count = Cardinality(done) - head.seq + Cardinality({t \in Threads : At(t, "uncount")})
    <3>1. Cardinality(done) = 0 /\ Cardinality({t \in Threads : At(t, "uncount")}) = 0 /\ count = 0
      BY <1>2, <2>1, <2>2
    <3> QED BY <3>1, <1>5
  <2>4. 1..pushes = {} /\ done = {}
    BY <1>2
  <2> QED BY <1>6, <2>3, <2>4 DEF Books
<1>15. \A t \in Threads : PushOK(root, pos, th[t]) /\ PopOK(t, root, th[t])
  BY <1>3 DEF PushOK, PopOK, HoldPcs, RootPcs, TriedPcs, HeadPcs, NextPcs, PopPcs, GotPcs
<1>16. Asked
  BY <1>2, <1>6 DEF Asked, Popping
<1>17. Plain(root, pos)
  BY <1>4, <1>5 DEF Plain
<1>18. Good(root, pos)
  BY <1>9, <1>10, <1>11, <1>12, <1>13, <1>14, <1>15, <1>16, <1>17 DEF Good
<1> QED BY <1>18 DEF Inv

\* Each step keeps it.
LEMMA PushStepGood ==
  ASSUME NEW root, NEW pos, Good(root, pos), NEW t \in Threads, PushStep(t) \/ StartPush(t), Watched
  PROVE  Inv'
<1>1. CASE StartPush(t)
  BY <1>1, StartPushGood DEF Inv
<1>2. CASE SetNext(t)
  BY <1>2, SetNextGood DEF Inv
<1>3. CASE ReadTail(t)
  BY <1>3, ReadTailGood DEF Inv
<1>4. CASE Link(t)
  <2>1. CASE next[th[t].link.node] = End
    BY <1>4, <2>1, LinkSucceeds DEF Inv
  <2>2. CASE next[th[t].link.node] # End
    BY <1>4, <2>2, LinkFails DEF Inv
  <2> QED BY <2>1, <2>2
<1>5. CASE ReadNext(t)
  BY <1>5, ReadNextGood DEF Inv
<1>6. CASE HelpPush(t)
  BY <1>6, HelpPushGood DEF Inv
<1>7. CASE Finish(t)
  BY <1>7, FinishGood DEF Inv
<1>8. CASE Count(t)
  BY <1>8, CountGood DEF Inv
<1> QED BY <1>1, <1>2, <1>3, <1>4, <1>5, <1>6, <1>7, <1>8 DEF PushStep

LEMMA PopStepGood ==
  ASSUME NEW root, NEW pos, Good(root, pos), NEW t \in Threads, PopStep(t) \/ StartPop(t), Watched
  PROVE  Inv'
<1>1. CASE StartPop(t)
  BY <1>1, StartPopGood DEF Inv
<1>2. CASE ReadHeadSeq(t)
  BY <1>2, ReadHeadSeqGood DEF Inv
<1>3. CASE ReadHeadNode(t)
  BY <1>3, ReadHeadNodeGood DEF Inv
<1>4. CASE ReadTailSeq(t)
  BY <1>4, ReadTailSeqGood DEF Inv
<1>5. CASE ReadHeadNext(t)
  BY <1>5, ReadHeadNextGood DEF Inv
<1>6. CASE Recheck(t)
  BY <1>6, RecheckGood DEF Inv
<1>7. CASE CompareTail(t)
  BY <1>7, CompareTailGood DEF Inv
<1>8. CASE HelpPop(t)
  BY <1>8, HelpPopGood DEF Inv
<1>9. CASE ReadElem(t)
  BY <1>9, ReadElemGood DEF Inv
<1>10. CASE TakeHead(t)
  <2>1. CASE HeadIs(th[t].link)
    BY <1>10, <2>1, TakeSucceeds DEF Inv
  <2>2. CASE ~ HeadIs(th[t].link)
    BY <1>10, <2>2, TakeFails DEF Inv
  <2> QED BY <2>1, <2>2
<1>11. CASE Uncount(t)
  BY <1>11, UncountGood DEF Inv
<1>12. CASE GiveBack(t)
  BY <1>12, GiveBackGood DEF Inv
<1> QED BY <1>1, <1>2, <1>3, <1>4, <1>5, <1>6, <1>7, <1>8, <1>9, <1>10, <1>11, <1>12 DEF PopStep

LEMMA NextGood == Inv /\ [Next]_vars => Inv'
<1> SUFFICES ASSUME Inv, [Next]_vars PROVE Inv'
  OBVIOUS
<1>1. PICK root, pos : Good(root, pos)
  BY DEF Inv
<1>2. ASSUME NEW t \in Threads, Step(t) \/ Call(t) PROVE Inv'
  <2>1. CASE Watched /\ (PushStep(t) \/ StartPush(t))
    BY <1>1, <2>1, PushStepGood
  <2>2. CASE Watched /\ (PopStep(t) \/ StartPop(t))
    BY <1>1, <2>2, PopStepGood
  <2> QED BY <1>2, <2>1, <2>2 DEF Step, Call
<1>3. CASE UNCHANGED vars
  <2>1. /\ next' = next /\ elem' = elem /\ head' = head /\ tail' = tail /\ count' = count /\ free' = free
        /\ used' = used /\ pushes' = pushes /\ th' = th /\ recycle' = recycle /\ empty' = empty
        /\ done' = done /\ taken' = taken
    BY <1>3 DEF vars, calls, history
  <2>2. IsEmpty' <=> IsEmpty
    BY <2>1 DEF IsEmpty, Contents, InQueue, Walk
  <2>3. Good(root, pos)'
    <3>1. (Own(root) /\ Ends(root) /\ Order(root, pos))'
      BY <1>1, <2>1 DEF Good, Own, Ends, Order, IsList, Holds, Base
    <3>2. (TypeOK /\ Cargo(root) /\ Books /\ Plain(root, pos))'
      BY <1>1, <2>1 DEF Good, TypeOK, Cargo, Books, Plain, Carries, Pending, Pushed, At
    <3>3. \A t \in Threads : (PushOK(root, pos, th[t]) /\ PopOK(t, root, th[t]))'
      BY <1>1, <2>1 DEF Good, PushOK, PopOK, Pending, Pushed
    <3>4. Asked'
      BY <1>1, <2>1, <2>2 DEF Good, Asked, Popping
    <3> QED BY <3>1, <3>2, <3>3, <3>4 DEF Good
  <2> QED BY <2>3 DEF Inv
<1> QED BY <1>2, <1>3 DEF Next

\* The invariant holds in every state of the queue, with any interleaving of the calls.
THEOREM Invariant == Spec => []Inv
BY InitGood, NextGood, PTL DEF Spec

-----------------------------------------------------------------------------
(* What the invariant says of the queue                                    *)

\* The variables, and the locals of the threads, hold what they are meant to hold; in particular
\* the sequence numbers, which every move of head or tail counts up, stay within the pushes.
THEOREM TypeCorrect == Spec => []TypeOK
<1>1. Inv => TypeOK
  BY DEF Inv, Good
<1> QED BY <1>1, Invariant, PTL

\* The queue has a last node.
LEMMA Last ==
  ASSUME NEW root, NEW pos, Good(root, pos)
  PROVE  \E e \in Nodes : root[e] = Null /\ next[e] = End
<1>1. IsList(Null) /\ Null \in Null..(MaxPushes + 1)
  BY Sets DEF IsList
<1> QED BY <1>1 DEF Good, Ends

\* The nodes in the free list are not in the queue and nobody holds them.
LEMMA FreeNodes ==
  ASSUME NEW root, NEW pos, Good(root, pos)
  PROVE  /\ \A n \in Freed : n \in Nodes /\ root[n] = n
         /\ \A n \in Freed, t \in Threads : Holds(t) => th[t].node # n
         /\ Cardinality(Freed) = Len(free)
<1>1. free \in Seq(Nodes)
  BY DEF Good, TypeOK
<1>2. \A k \in DOMAIN free : /\ free[k] \in Nodes /\ root[free[k]] = free[k]
                             /\ \A t \in Threads : Holds(t) => th[t].node # free[k]
  BY <1>1 DEF Good, Own
<1>3. Cardinality(Freed) = Len(free)
  <2> DEFINE D == 1..Len(free)
  <2>1. Len(free) \in Nat /\ DOMAIN free = D /\ free \in [D -> Freed]
    BY <1>1 DEF Freed
  <2>2. \A j, k \in D : free[j] = free[k] => j = k
    BY <2>1 DEF Good, Own
  <2>3. free \in Bijection(D, Freed)
    <3>1. \A n \in Freed : \E k \in D : free[k] = n
      BY <2>1 DEF Freed
    <3> QED BY <2>1, <2>2, <3>1 DEF Bijection, Injection, Surjection, IsInjective
  <2>4. IsFiniteSet(D) /\ Cardinality(D) = Len(free)
    BY <2>1, FS_Interval
  <2> HIDE DEF D
  <2>5. Cardinality(Freed) = Cardinality(D)
    BY <2>3, <2>4, FS_Bijection DEF ExistsBijection
  <2> QED BY <2>4, <2>5
<1> QED BY <1>2, <1>3 DEF Freed

\* A node is never in two places, though PopItem gives nodes back while other threads
\* still hold pointers to them.
THEOREM NodesAreApart == Spec => []NodesApart
<1>1. Inv => NodesApart
  <2> SUFFICES ASSUME NEW root, NEW pos, Good(root, pos) PROVE NodesApart
    BY DEF Inv
  <2>1. InQueue = Queue(root)
    BY Last, QueueIs
  <2>2. \A n \in Freed : n \in Nodes /\ root[n] = n
    BY FreeNodes
  <2>3. InQueue \cap Freed = {}
    BY <2>1, <2>2, Sets DEF Queue
  <2>4. \A t \in Threads : Private(t) = IF Holds(t) THEN {th[t].node} ELSE {}
    BY DEF Private, Holds, HeldPcs, HoldPcs
  <2>5. \A t \in Threads : Holds(t) => th[t].node \notin InQueue
    BY <2>1, Holders, Sets DEF Queue
  <2>6. \A t \in Threads : Holds(t) => th[t].node \notin Freed
    BY FreeNodes
  <2>7. \A t, u \in Threads : Holds(t) /\ Holds(u) /\ th[t].node = th[u].node => t = u
    BY DEF Good, Own
  <2>8. \A t \in Threads : Private(t) \cap (InQueue \cup Freed) = {}
    BY <2>4, <2>5, <2>6
  <2>9. \A t, u \in Threads : t # u => Private(t) \cap Private(u) = {}
    BY <2>4, <2>7
  <2>10. Cardinality(Freed) = Len(free)
    BY FreeNodes
  <2> QED BY <2>3, <2>8, <2>9, <2>10 DEF NodesApart
<1> QED BY <1>1, Invariant, PTL

\* The tail never falls behind the head, and with Push at most one node is linked that
\* the tail has not reached.
THEOREM TailIsInQueue == Spec => []TailInQueue
<1>1. Inv => TailInQueue
  <2> SUFFICES ASSUME NEW root, NEW pos, Good(root, pos) PROVE TailInQueue
    BY DEF Inv
  <2>1. tail.node \in InQueue
    <3>1. InQueue = Queue(root)
      BY Last, QueueIs
    <3> QED BY <3>1 DEF Queue, Good, TypeOK, Ends
  <2>2. ASSUME ~ recycle, next[tail.node] # End PROVE next[next[tail.node]] = End
    <3> SUFFICES ASSUME next[next[tail.node]] # End PROVE FALSE
      OBVIOUS
    <3>1. PICK m \in Nodes : m = next[tail.node] /\ root[m] = Null /\ pos[m] = tail.seq + 1
      BY <2>2, TailNext
    <3>2. IsList(root[m])
      BY <3>1 DEF IsList
    <3>3. next[m] \in Nodes /\ root[next[m]] = Null /\ pos[next[m]] = (tail.seq + 1) + 1
      BY <3>1, <3>2 DEF Good, Order
    <3>4. pos[next[m]] <= tail.seq + 1 /\ tail.seq \in Nat
      BY <3>3, <2>2 DEF Good, Plain, TypeOK
    <3> QED BY <3>3, <3>4
  <2> QED BY <2>1, <2>2 DEF TailInQueue
<1> QED BY <1>1, Invariant, PTL

-----------------------------------------------------------------------------
(* The items in the queue                                                  *)

\* A function on 1..n is a sequence of n elements.
LEMMA Length ==
  ASSUME NEW S, NEW n \in Nat, NEW s \in [1..n -> S]
  PROVE  s \in Seq(S) /\ Len(s) = n
<1>1. s \in Seq(S)
  BY SeqDef
<1>2. Len(s) \in Nat /\ 1..Len(s) = 1..n
  BY <1>1, LenProperties
<1>3. ~ (n < Len(s)) /\ ~ (Len(s) < n)
  BY <1>2
<1> QED BY <1>1, <1>2, <1>3

\* Contents lists the items of the nodes after the dummy, each once and none taken.
LEMMA ItemsIn ==
  ASSUME NEW root, NEW pos, Good(root, pos), NEW e \in Nodes, root[e] = Null, next[e] = End
  PROVE  /\ Contents \in Seq(Items) /\ Len(Contents) = pos[e] - head.seq
         /\ pos[e] - head.seq \in Nat
         /\ \A k \in 1..(pos[e] - head.seq) :
              /\ Contents[k] = elem[Walk[k]] /\ Walk[k] \in Queue(root) /\ Walk[k] # head.node
              /\ pos[Walk[k]] = head.seq + k
         /\ \A n \in Queue(root) : n # head.node =>
              pos[n] - head.seq \in 1..(pos[e] - head.seq) /\ Walk[pos[n] - head.seq] = n
         /\ \A k \in 1..(pos[e] - head.seq) : Contents[k] \in 1..pushes /\ taken[Contents[k]] = 0
         /\ \A j, k \in 1..(pos[e] - head.seq) : Contents[j] = Contents[k] => j = k
<1> DEFINE D == 1..(pos[e] - head.seq)
<1>1. pos[e] \in head.seq..pushes /\ head.seq \in Nat /\ pushes \in 0..MaxPushes
      /\ pos[head.node] = head.seq /\ head.node \in Nodes /\ root[head.node] = Null
  <2>1. pos[e] \in head.seq..pushes
    BY QueueIs
  <2> QED BY <2>1 DEF Good, TypeOK, Ends, Order
<1>2. pos[e] \in Nat /\ pos[e] - head.seq \in Nat
  BY <1>1
<1>3. DOMAIN Contents = D /\ \A k \in D : Contents[k] = elem[Walk[k]]
  BY QueueIs
<1>4. \A k \in D : Walk[k] \in Queue(root) /\ pos[Walk[k]] = head.seq + k
  <2>1. D \subseteq 0..(pos[e] - head.seq)
    BY <1>2
  <2> QED BY <2>1, QueueIs
<1>5. \A k \in D : Walk[k] # head.node
  <2>1. \A k \in D : head.seq + k # head.seq
    BY <1>1, <1>2
  <2> QED BY <2>1, <1>1, <1>4
<1>6. \A k \in D : Carries(root, Walk[k])
  BY <1>4, <1>5 DEF Carries, Queue
<1>7. \A k \in D : Contents[k] \in 1..pushes /\ taken[Contents[k]] = 0
  BY <1>3, <1>4, <1>6 DEF Good, Cargo, Queue
<1>8. \A m, n \in Queue(root) : pos[m] = pos[n] => m = n
  BY DEF Good, Order, Queue, IsList
<1>9. \A j, k \in D : Contents[j] = Contents[k] => j = k
  <2> SUFFICES ASSUME NEW j \in D, NEW k \in D, Contents[j] = Contents[k] PROVE j = k
    OBVIOUS
  <2>1. Walk[j] = Walk[k]
    BY <1>3, <1>4, <1>6 DEF Good, Cargo, Queue
  <2>2. head.seq + j = head.seq + k
    BY <2>1, <1>4
  <2> QED BY <2>2, <1>1, <1>2
<1>10. ASSUME NEW n \in Queue(root), n # head.node
       PROVE  pos[n] - head.seq \in D /\ Walk[pos[n] - head.seq] = n
  <2>1. pos[n] \in head.seq..pos[e] /\ pos[n] # head.seq
    BY <1>1, <1>8, <1>10, QueueIs DEF Queue
  <2>2. pos[n] - head.seq \in D /\ head.seq + (pos[n] - head.seq) = pos[n]
    BY <2>1, <1>1, <1>2
  <2> QED BY <2>2, <1>4, <1>8
<1>11. Contents \in Seq(Items) /\ Len(Contents) = pos[e] - head.seq
  <2>1. \A k \in D : Contents[k] \in Items
    <3>1. 1..pushes \subseteq Items
      BY <1>1, Sets DEF Items
    <3> QED BY <3>1, <1>7
  <2>2. Contents = [k \in 1..(Cardinality(InQueue) - 1) |-> elem[Walk[k]]]
    BY DEF Contents
  <2>3. Contents \in [D -> Items]
    BY <2>1, <2>2, <1>3
  <2> QED BY <2>3, <1>2, Length
<1> QED BY <1>2, <1>3, <1>4, <1>5, <1>7, <1>9, <1>10, <1>11

\* When no push is under way, the items not taken are all in the queue.
LEMMA AllIn ==
  ASSUME NEW root, NEW pos, Good(root, pos), \A t \in Threads : th[t].pc \notin HoldPcs,
         NEW i \in 1..pushes, taken[i] = 0
  PROVE  \E n \in Queue(root) : n # head.node /\ elem[n] = i
<1>1. PICK n \in Nodes : Carries(root, n) /\ elem[n] = i
  BY DEF Good, Cargo
<1>2. \A c : ~ Pushed(c) /\ (IsList(c) => c = Null)
  BY DEF Pushed, IsList, RootPcs
<1>3. ~ Pending(root, n)
  BY <1>2 DEF Pending, Good, Own
<1> QED BY <1>1, <1>3 DEF Carries, Queue

\* Nothing pushed is lost, and nothing comes out twice: with every operation returned,
\* what was pushed is in the queue or was taken, and Count is right.
THEOREM ItemsConserved == Spec => []Conserved
<1>1. Inv => Conserved
  <2> SUFFICES ASSUME NEW root, NEW pos, Good(root, pos), \A t \in Threads : At(t, "idle")
               PROVE  /\ \A i \in 1..pushes :
                           taken[i] + Cardinality({k \in DOMAIN Contents : Contents[k] = i}) = 1
                      /\ count = Len(Contents)
    BY DEF Inv, Conserved
  <2>1. PICK e \in Nodes : root[e] = Null /\ next[e] = End
    BY Last
  <2>2. PICK N \in Nat : N = pos[e] - head.seq
    BY <2>1, ItemsIn
  <2>3. /\ Contents \in Seq(Items) /\ Len(Contents) = N /\ DOMAIN Contents = 1..N
        /\ \A k \in 1..N : /\ Contents[k] = elem[Walk[k]] /\ Walk[k] \in Queue(root)
                           /\ Contents[k] \in 1..pushes /\ taken[Contents[k]] = 0
        /\ \A j, k \in 1..N : Contents[j] = Contents[k] => j = k
        /\ \A n \in Queue(root) : n # head.node =>
             pos[n] - head.seq \in 1..N /\ Walk[pos[n] - head.seq] = n
    BY <2>1, <2>2, ItemsIn, QueueIs
  <2>4. \A t \in Threads : th[t].pc = "idle" /\ th[t].pc \notin HoldPcs /\ th[t].pc \notin OpenPcs
    BY DEF At, HoldPcs, OpenPcs
  <2>5. \A i \in 1..pushes : taken[i] = 0 => \E k \in 1..N : Contents[k] = i
    <3> SUFFICES ASSUME NEW i \in 1..pushes, taken[i] = 0 PROVE \E k \in 1..N : Contents[k] = i
      OBVIOUS
    <3>1. PICK n \in Queue(root) : n # head.node /\ elem[n] = i
      BY <2>4, AllIn
    <3> QED BY <3>1, <2>3
  <2>6. ASSUME NEW i \in 1..pushes
        PROVE  taken[i] + Cardinality({k \in DOMAIN Contents : Contents[k] = i}) = 1
    <3> DEFINE K == {k \in DOMAIN Contents : Contents[k] = i}
    <3>1. taken[i] = 0 \/ taken[i] = 1
      <4>1. i \in Null..MaxPushes
        BY Sets DEF Good, TypeOK
      <4> QED BY <4>1 DEF Good, Cargo
    <3>2. CASE taken[i] = 0
      <4>1. PICK k \in 1..N : Contents[k] = i
        BY <2>5, <3>2
      <4>2. K = {k}
        BY <4>1, <2>3
      <4>3. Cardinality({k}) = 1
        BY FS_Singleton
      <4> QED BY <3>2, <4>2, <4>3
    <3>3. CASE taken[i] = 1
      <4>1. K = {}
        BY <3>3, <2>3
      <4>2. Cardinality({}) = 0
        BY FS_EmptySet
      <4> QED BY <3>3, <4>1, <4>2
    <3> QED BY <3>1, <3>2, <3>3
  <2>7. N = pushes - head.seq
    <3> DEFINE D == 1..N
               U == {i \in 1..pushes : taken[i] = 0}
    <3>1. Contents \in [D -> U]
      <4>1. Contents \in [1..Len(Contents) -> Items]
        BY <2>3, LenProperties
      <4> QED BY <4>1, <2>3
    <3>2. Contents \in Bijection(D, U)
      BY <3>1, <2>3, <2>5 DEF Bijection, Injection, Surjection, IsInjective
    <3>3. IsFiniteSet(D) /\ Cardinality(D) = N
      BY <2>2, FS_Interval
    <3>4. Cardinality(U) = pushes - head.seq
      BY LeftToTake
    <3> HIDE DEF D, U
    <3>5. Cardinality(U) = Cardinality(D)
      BY <3>2, <3>3, FS_Bijection DEF ExistsBijection
    <3> QED BY <3>3, <3>4, <3>5
  <2>8. count = pushes - head.seq
    <3>1. done = 1..pushes
      BY <2>4 DEF Good, Books
    <3>2. Uncounting = {}
      BY <2>4 DEF Uncounting, At
    <3>3. Cardinality(done) = pushes
      <4>1. pushes \in Nat
        BY Tallies
      <4> QED BY <3>1, <4>1, FS_Interval
    <3>4. Cardinality(Uncounting) = 0
      BY <3>2, FS_EmptySet
    <3> QED BY <3>3, <3>4, Tallies
  <2> QED BY <2>3, <2>6, <2>7, <2>8
<1> QED BY <1>1, Invariant, PTL

\* A step moves one thread, and the only one that returns from the comparison with
\* the tail is CompareTail, which has read the end of the queue.
LEMMA AnswersAre ==
  ASSUME Inv, ~recycle, NEW u \in Threads, Step(u) \/ Call(u),
         NEW t \in Threads, At(t, "compare"), At(t, "idle")'
  PROVE  t \in empty
<1>1. PICK root, pos : Good(root, pos)
  BY DEF Inv
<1>2. th \in [Threads -> ThreadType] /\ PopOK(t, root, th[t])
  BY <1>1, Facts
<1>3. \E k : Goto(u, k)
  <2>1. CASE PushStep(u) \/ StartPush(u)
    BY <2>1 DEF PushStep, StartPush, SetNext, ReadTail, Link, ReadNext, HelpPush, Finish, Count
  <2>2. CASE PopStep(u) \/ StartPop(u)
    BY <2>2 DEF PopStep, StartPop, ReadHeadSeq, ReadHeadNode, ReadTailSeq, ReadHeadNext, Recheck,
                CompareTail, HelpPop, ReadElem, TakeHead, Uncount, GiveBack
  <2> QED BY <2>1, <2>2 DEF Step, Call
<1>4. u = t
  BY <1>2, <1>3 DEF Goto, At
<1>5. CompareTail(t)
  BY <1>4 DEF Step, Call, At, PushStep, StartPush, SetNext, ReadTail, Link, ReadNext, HelpPush, Finish,
              Count, PopStep, StartPop, ReadHeadSeq, ReadHeadNode, ReadTailSeq, ReadHeadNext, Recheck,
              HelpPop, ReadElem, TakeHead, Uncount, GiveBack
<1>6. th[t].pc = "compare" /\ Compare(th[t]).pc = "idle"
  BY <1>2, <1>5 DEF CompareTail, Goto, At
<1>7. th[t].pNext = End
  <2>1. th[t].pNext # End => Compare(th[t]).pc \in {"helpPop", "readElem"}
    BY <1>2 DEF Compare, ThreadType
  <2> QED BY <1>6, <2>1
<1> QED BY <1>2, <1>6, <1>7 DEF PopOK

\* With Push and Pop, whose nodes are not used again, a pop that finds the queue
\* empty is right: at some moment since its call all items pushed had been taken.
THEOREM EmptyIsAnswered == TRUE \notin Modes => (Spec => EmptyAnswers)
<1> SUFFICES ASSUME TRUE \notin Modes PROVE Spec => EmptyAnswers
  OBVIOUS
<1>1. Init => ~recycle
  BY DEF Init
<1>2. ~recycle /\ [Next]_vars => ~recycle'
  <2> SUFFICES ASSUME [Next]_vars PROVE recycle' = recycle
    OBVIOUS
  <2>1. ASSUME NEW t \in Threads, PushStep(t) \/ StartPush(t) PROVE recycle' = recycle
    BY <2>1 DEF PushStep, StartPush, SetNext, ReadTail, Link, ReadNext, HelpPush, Finish, Count, calls
  <2>2. ASSUME NEW t \in Threads, PopStep(t) \/ StartPop(t) PROVE recycle' = recycle
    BY <2>2 DEF PopStep, StartPop, ReadHeadSeq, ReadHeadNode, ReadTailSeq, ReadHeadNext, Recheck,
                CompareTail, HelpPop, ReadElem, TakeHead, Uncount, GiveBack, calls
  <2> QED BY <2>1, <2>2 DEF Next, Step, Call, vars, calls
<1>3. Inv /\ ~recycle /\ [Next]_vars
      => [\A t \in Threads : At(t, "compare") /\ At(t, "idle")' => t \in empty]_vars
  <2> SUFFICES ASSUME Inv, ~recycle, Next,
                      NEW t \in Threads, At(t, "compare"), At(t, "idle")'
               PROVE  t \in empty
    OBVIOUS
  <2>1. PICK u \in Threads : Step(u) \/ Call(u)
    BY DEF Next
  <2> QED BY <2>1, AnswersAre
<1> QED BY <1>1, <1>2, <1>3, Invariant, PTL DEF Spec, EmptyAnswers
=============================================================================
