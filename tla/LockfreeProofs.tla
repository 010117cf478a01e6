--------------------------- MODULE LockfreeProofs ---------------------------
(***************************************************************************)
(* Proofs about the lock-free stack: tagged exchanges implement a last-in  *)
(* first-out stack, for any number of threads and nodes, while the tags do *)
(* not come round.                                                         *)
(***************************************************************************)
EXTENDS LockfreeStack, TLAPS

USE SMTT(30)

-----------------------------------------------------------------------------
\* Sequences: their elements, and what taking and putting the first one does.
LEMMA SeqElements == ASSUME NEW S, NEW s \in Seq(S) PROVE Len(s) \in Nat /\ \A i \in 1 .. Len(s) : s[i] \in S
OBVIOUS

LEMMA SeqIsFunction == ASSUME NEW S, NEW s \in Seq(S) PROVE s = [i \in 1 .. Len(s) |-> s[i]]
OBVIOUS

LEMMA TailIs ==
    ASSUME NEW S, NEW s \in Seq(S), s # <<>>
    PROVE  /\ Tail(s) \in Seq(S) /\ Len(Tail(s)) = Len(s) - 1
           /\ \A i \in 1 .. Len(s) - 1 : Tail(s)[i] = s[i + 1]
OBVIOUS

LEMMA RestIs ==
    ASSUME NEW S, NEW s \in Seq(S), s # <<>>
    PROVE  SubSeq(s, 2, Len(s)) = Tail(s)
OBVIOUS

LEMMA ConsIs ==
    ASSUME NEW S, NEW s \in Seq(S), NEW x \in S
    PROVE  /\ <<x>> \o s \in Seq(S) /\ Len(<<x>> \o s) = Len(s) + 1
           /\ \A i \in 1 .. Len(s) + 1 : (<<x>> \o s)[i] = IF i = 1 THEN x ELSE s[i - 1]
OBVIOUS

\* t is s with x in front of it; if x is new, the elements stay distinct.
PutFirst(t, x, s) ==
    /\ Len(t) = Len(s) + 1
    /\ \A i \in 1 .. Len(s) + 1 : (i = 1 /\ t[i] = x) \/ (i - 1 \in 1 .. Len(s) /\ t[i] = s[i - 1])
    /\ \A i \in 1 .. Len(s) : t[i + 1] = s[i]

Distinct(s) == \A i, j \in 1 .. Len(s) : s[i] = s[j] => i = j

LEMMA ConsPutsFirst ==
    ASSUME NEW S, NEW s \in Seq(S), NEW x \in S
    PROVE  <<x>> \o s \in Seq(S) /\ PutFirst(<<x>> \o s, x, s)
<1>1. <<x>> \o s \in Seq(S) /\ Len(<<x>> \o s) = Len(s) + 1
  OBVIOUS
<1>2. \A i \in 1 .. Len(s) + 1 :
        (i = 1 /\ (<<x>> \o s)[i] = x) \/ (i - 1 \in 1 .. Len(s) /\ (<<x>> \o s)[i] = s[i - 1])
  OBVIOUS
<1>3. \A i \in 1 .. Len(s) : (<<x>> \o s)[i + 1] = s[i]
  OBVIOUS
<1> QED
  BY ZenonT(30), <1>1, <1>2, <1>3 DEF PutFirst

LEMMA PutFirstDistinct ==
    ASSUME NEW s, NEW t, NEW x, PutFirst(t, x, s), Len(s) \in Nat,
           Distinct(s), \A i \in 1 .. Len(s) : s[i] # x
    PROVE  Distinct(t)
<1> SUFFICES ASSUME NEW i \in 1 .. Len(s) + 1, NEW j \in 1 .. Len(s) + 1, t[i] = t[j]
             PROVE  i = j
  BY DEF PutFirst, Distinct
<1>1. t[1] = x /\ \A k \in 1 .. Len(s) + 1 : k # 1 => t[k] # x
  BY DEF PutFirst
<1>2. CASE i = 1 \/ j = 1
  BY <1>1, <1>2
<1>3. CASE i # 1 /\ j # 1
  <2>1. i - 1 \in 1 .. Len(s) /\ j - 1 \in 1 .. Len(s) /\ s[i - 1] = s[j - 1]
    BY <1>3 DEF PutFirst
  <2>2. i - 1 = j - 1
    BY <2>1 DEF Distinct
  <2> QED
    BY <2>2
<1> QED
  BY <1>2, <1>3

LEMMA ModSmall == ASSUME NEW a \in Nat, NEW b \in Nat, a < b PROVE a % b = a
OBVIOUS

LEMMA MovesOn ==
    \A a, b \in Nat : (a + 1) + (b - 1) = a + b /\ a + (b + 1) = (a + b) + 1
OBVIOUS

LEMMA ExceptIs == ASSUME NEW S, NEW T, NEW f \in [S -> T], NEW x, NEW y \in T PROVE [f EXCEPT ![x] = y] \in [S -> T]
BY ZenonT(30)

LEMMA TagsAre ==
    ASSUME NEW t \in Tagged(Node)
    PROVE  /\ t.ptr \in Node \cup {Null} /\ t.tag \in 0 .. TAGS - 1
           /\ t = [ptr |-> t.ptr, tag |-> t.tag]
BY DEF Tagged, Pointer

-----------------------------------------------------------------------------
STypes ==
    /\ head \in Tagged(Node)
    /\ data \in [Node -> Val \cup {None}]
    /\ next \in [Node -> Tagged(Node)]
    /\ fresh \subseteq Node /\ free \in Seq(Node)
    /\ owned \in [{"stack"} -> SUBSET Node]
    /\ pc \in [Pusher -> {"idle", "push_load", "push_link", "push_cas", "pop_read", "pop_cas", "pop_take"}]
    /\ ptr \in [Pusher -> Pointer(Node)]
    /\ old \in [Pusher -> Tagged(Node)]
    /\ new \in [Pusher -> Tagged(Node)]
    /\ pushes \in 0 .. STACK_PUSHES
    /\ chain \in Seq(Node)

\* The threads that have a node of their own, and that node.
Pushing == {p \in Pusher : pc[p] \in {"push_load", "push_link", "push_cas"}}
Holding == {p \in Pusher : pc[p] \in {"push_load", "push_link", "push_cas", "pop_take"}}
Held(p) == IF pc[p] = "pop_take" THEN old[p].ptr ELSE ptr[p]

\* A node is in the heap, in the pool once, on the stack once, or with one thread.
SSeparate ==
    /\ \A i, j \in 1 .. Len(free) : free[i] = free[j] => i = j
    /\ \A i \in 1 .. Len(free) : free[i] \notin fresh /\ free[i] \notin owned["stack"]
    /\ fresh \cap owned["stack"] = {}
    /\ \A i, j \in 1 .. Len(chain) : chain[i] = chain[j] => i = j
    /\ \A i \in 1 .. Len(chain) : chain[i] \in owned["stack"]
    /\ \A p \in Holding : Held(p) \in owned["stack"] /\ \A i \in 1 .. Len(chain) : chain[i] # Held(p)
    /\ \A p, q \in Holding : Held(p) = Held(q) => p = q

\* The nodes on the stack and in the hands of the threads have their elements.
SData ==
    /\ \A i \in 1 .. Len(chain) : data[chain[i]] \in Val
    /\ \A p \in Holding : data[Held(p)] \in Val

\* The tag counts the pops: what was pushed is on the stack or popped.
STags ==
    /\ head.tag + Len(chain) = pushes
    /\ \A p \in Pusher : old[p].tag <= head.tag

\* A head that is not outdated is still on the stack, and so is what followed it.
SCurrent ==
    \A p \in Pusher :
        pc[p] \in {"pop_read", "pop_cas"} /\ old[p].ptr # Null /\ old[p].tag = head.tag =>
            /\ \E i \in 1 .. Len(chain) : chain[i] = old[p].ptr
            /\ pc[p] = "pop_cas" => new[p].ptr = next[old[p].ptr].ptr

\* What the threads have prepared for their exchanges.
SPrepared ==
    \A p \in Pusher :
        /\ pc[p] = "pop_cas" => old[p].ptr # Null /\ new[p].tag = (old[p].tag + 1) % TAGS
        /\ pc[p] = "push_cas" =>
            new[p].ptr = ptr[p] /\ new[p].tag = old[p].tag /\ next[ptr[p]] = old[p]

StackInv == STypes /\ ChainLinked /\ SSeparate /\ SData /\ STags /\ SCurrent /\ SPrepared

LEMMA StackFacts ==
    ASSUME StackInv
    PROVE  /\ Len(chain) \in Nat /\ \A i \in 1 .. Len(chain) : chain[i] \in Node
           /\ head.ptr = Null => Len(chain) = 0
           /\ head.ptr # Null => Len(chain) > 0 /\ chain[1] = head.ptr
           /\ \A i \in 1 .. Len(chain) - 1 : next[chain[i]].ptr = chain[i + 1]
           /\ Len(chain) > 0 => next[chain[Len(chain)]].ptr = Null
<1>1. Len(chain) \in Nat /\ \A i \in 1 .. Len(chain) : chain[i] \in Node
  <2>1. chain \in Seq(Node)
    BY DEF StackInv, STypes
  <2> QED
    BY <2>1, SeqElements, ZenonT(30)
<1>2. Null \notin Node
  BY TaggedPtrAssumption
<1> QED
  BY <1>1, <1>2 DEF StackInv, ChainLinked

LEMMA ContentsIs == ASSUME StackInv PROVE Contents \in Seq(Val) /\ Len(Contents) = Len(chain)
<1>1. Len(chain) \in Nat
  BY StackFacts
<1> QED
  BY <1>1 DEF StackInv, SData, Contents

LEMMA StackStart == ASSUME Init PROVE StackInv /\ Lifo!StackInit
<1>1. [ptr |-> Null, tag |-> 0] \in Tagged(Node)
  BY TaggedPtrAssumption DEF Tagged, Pointer
<1>2. chain = <<>> /\ pushes = 0 /\ free = <<>> /\ fresh = Node /\ owned = [q \in {"stack"} |-> {}]
  BY DEF Init, Freelist!Init
<1>3. /\ head = [ptr |-> Null, tag |-> 0] /\ pc = [p \in Pusher |-> "idle"]
      /\ old = [p \in Pusher |-> [ptr |-> Null, tag |-> 0]]
      /\ new = [p \in Pusher |-> [ptr |-> Null, tag |-> 0]]
      /\ next = [n \in Node |-> [ptr |-> Null, tag |-> 0]]
      /\ data = [n \in Node |-> None] /\ ptr = [p \in Pusher |-> Null]
  BY DEF Init, NoTag, Tag
<1>4. STypes
  <2>1. chain \in Seq(Node) /\ free \in Seq(Node) /\ pushes \in 0 .. STACK_PUSHES
    BY <1>2, StackAssumption
  <2>2. owned \in [{"stack"} -> SUBSET Node] /\ fresh \subseteq Node
    BY <1>2
  <2> QED
    BY <1>1, <1>3, <2>1, <2>2 DEF STypes, Pointer
<1>5. Pushing = {} /\ Holding = {}
  BY <1>3 DEF Pushing, Holding
<1>6. Len(chain) = 0 /\ Len(free) = 0 /\ owned["stack"] = {}
  BY <1>2
<1>7. ChainLinked
  BY <1>3, <1>6 DEF ChainLinked
<1>8. SSeparate /\ SData
  BY <1>5, <1>6 DEF SSeparate, SData
<1>9. STags
  BY <1>2, <1>3, <1>6 DEF STags
<1>10. SCurrent /\ SPrepared
  BY <1>3 DEF SCurrent, SPrepared
<1>11. Contents = <<>>
  BY <1>2 DEF Contents
<1>12. Popped = [p \in Pusher |-> None]
  BY <1>3 DEF Popped
<1> QED
  BY <1>4, <1>7, <1>8, <1>9, <1>10, <1>11, <1>12 DEF StackInv, Lifo!StackInit

\* _head is loaded by a thread that has, or has not, a node to push.
LEMMA StackLoads ==
    ASSUME StackInv, NEW p \in Pusher, NEW l \in {"push_link", "pop_read"}, Load(p, l),
           IF l = "push_link" THEN p \in Pushing ELSE p \notin Holding,
           UNCHANGED <<head, data, next, fresh, free, owned, ptr, new, pushes, chain>>
    PROVE  StackInv' /\ UNCHANGED <<Contents, Popped>>
<1>0. /\ old' = [old EXCEPT ![p] = head] /\ pc' = [pc EXCEPT ![p] = l]
      /\ head' = head /\ data' = data /\ next' = next /\ fresh' = fresh /\ free' = free
      /\ owned' = owned /\ ptr' = ptr /\ new' = new /\ pushes' = pushes /\ chain' = chain
  BY DEF Load, Goto
<1>1. /\ old'[p] = head /\ pc'[p] = l
      /\ \A q \in Pusher : q # p => old'[q] = old[q] /\ pc'[q] = pc[q]
  BY <1>0 DEF StackInv, STypes
<1>2. Pushing' = Pushing /\ Holding' = Holding
  BY <1>1 DEF Pushing, Holding
<1>3. \A q \in Holding : Held(q)' = Held(q)
  BY <1>0, <1>1 DEF Held, Holding, Pushing
<1>4. STypes'
  BY <1>0 DEF StackInv, STypes
<1>5. ChainLinked'
  BY <1>0 DEF StackInv, ChainLinked
<1>6. SSeparate' /\ SData'
  BY <1>0, <1>2, <1>3 DEF StackInv, SSeparate, SData
<1>7. STags'
  <2>1. head.tag <= head.tag
    BY TagsAre DEF StackInv, STypes
  <2> QED
    BY <1>0, <1>1, <1>2, <2>1 DEF StackInv, STags
<1>8. SCurrent'
  <2>1. head.ptr # Null => \E i \in 1 .. Len(chain) : chain[i] = head.ptr
    BY StackFacts
  <2> QED
    BY <1>0, <1>1, <2>1 DEF StackInv, SCurrent
<1>9. SPrepared'
  BY <1>0, <1>1 DEF StackInv, SPrepared
<1>10. Contents' = Contents
  BY <1>0 DEF Contents
<1>11. Popped' = Popped
  <2>1. \A q \in Pusher : (pc'[q] = "pop_take" <=> pc[q] = "pop_take") /\ (pc[q] = "pop_take" => old'[q] = old[q])
    BY <1>1 DEF Holding, Pushing
  <2> QED
    BY <1>0, <2>1 DEF Popped
<1> QED
  BY <1>4, <1>5, <1>6, <1>7, <1>8, <1>9, <1>10, <1>11 DEF StackInv

\* push links its node, which nobody else sees, to the head it has loaded.
LEMMA StackLinks ==
    ASSUME StackInv, NEW p \in Pusher, PushLink(p)
    PROVE  StackInv' /\ UNCHANGED <<Contents, Popped>>
<1> DEFINE n == ptr[p]
<1>0. /\ head' = head /\ data' = data /\ fresh' = fresh /\ free' = free /\ owned' = owned
      /\ ptr' = ptr /\ old' = old /\ pushes' = pushes /\ chain' = chain
      /\ pc[p] = "push_link" /\ pc' = [pc EXCEPT ![p] = "push_cas"]
      /\ new' = [new EXCEPT ![p] = [ptr |-> n, tag |-> old[p].tag]] /\ next' = [next EXCEPT ![n] = old[p]]
  BY DEF PushLink, memory, Goto, Tag
<1>1. p \in Holding /\ Held(p) = n
  BY <1>0 DEF Holding, Held
<1>2. n \in Node /\ \A i \in 1 .. Len(chain) : chain[i] # n
  BY <1>1 DEF StackInv, STypes, SSeparate
<1>3. next'[n] = old[p] /\ \A k \in Node : k # n => next'[k] = next[k]
  BY <1>0, <1>2 DEF StackInv, STypes
<1>4. /\ pc'[p] = "push_cas" /\ new'[p] = [ptr |-> n, tag |-> old[p].tag]
      /\ \A q \in Pusher : q # p => pc'[q] = pc[q] /\ new'[q] = new[q]
  BY <1>0 DEF StackInv, STypes
<1>5. Pushing' = Pushing /\ Holding' = Holding
  BY <1>0, <1>4 DEF Pushing, Holding
<1>6. \A q \in Holding : Held(q)' = Held(q)
  BY <1>0, <1>4 DEF Held
<1>7. STypes'
  <2>1. [ptr |-> n, tag |-> old[p].tag] \in Tagged(Node)
    BY <1>2, TagsAre DEF StackInv, STypes, Tagged, Pointer
  <2>2. new' \in [Pusher -> Tagged(Node)] /\ next' \in [Node -> Tagged(Node)]
    BY ZenonT(30), <1>0, <2>1 DEF StackInv, STypes
  <2> QED
    BY <1>0, <2>2 DEF StackInv, STypes
<1>8. ChainLinked'
  <2>1. \A i \in 1 .. Len(chain) : next'[chain[i]] = next[chain[i]]
    BY <1>2, <1>3, StackFacts
  <2> QED
    BY <1>0, <2>1 DEF StackInv, ChainLinked
<1>9. SSeparate' /\ SData'
  <2>1. SSeparate'
    <3>1. \A q \in Holding' : q \in Holding /\ Held(q)' = Held(q)
      BY ZenonT(30), <1>5, <1>6
    <3>2. \A q \in Holding' : Held(q)' \in owned["stack"] /\ \A i \in 1 .. Len(chain) : chain[i] # Held(q)'
      BY ZenonT(30), <3>1 DEF StackInv, SSeparate
    <3>3. \A q, r \in Holding' : Held(q)' = Held(r)' => q = r
      BY ZenonT(30), <3>1 DEF StackInv, SSeparate
    <3> QED
      BY ZenonT(30), <1>0, <3>2, <3>3 DEF StackInv, SSeparate
  <2>2. SData'
    BY ZenonT(30), <1>0, <1>5, <1>6 DEF StackInv, SData
  <2> QED
    BY <2>1, <2>2
<1>10. STags'
  BY <1>0, <1>5 DEF StackInv, STags
<1>11. SCurrent'
  <2> SUFFICES ASSUME NEW q \in Pusher, pc'[q] \in {"pop_read", "pop_cas"},
                      old[q].ptr # Null, old[q].tag = head.tag
               PROVE  /\ \E i \in 1 .. Len(chain) : chain[i] = old[q].ptr
                      /\ pc'[q] = "pop_cas" => new'[q].ptr = next'[old[q].ptr].ptr
    BY <1>0 DEF SCurrent
  <2>1. q # p /\ pc'[q] = pc[q]
    BY <1>4
  <2>2. PICK i \in 1 .. Len(chain) : chain[i] = old[q].ptr
    BY <2>1 DEF StackInv, SCurrent
  <2>3. next'[old[q].ptr] = next[old[q].ptr]
    BY <1>2, <1>3, <2>2, StackFacts
  <2> QED
    <3>1. new'[q] = new[q]
      BY ZenonT(30), <1>4, <2>1
    <3>2. pc[q] = "pop_cas" => new[q].ptr = next[old[q].ptr].ptr
      BY ZenonT(30), <2>1 DEF StackInv, SCurrent
    <3> QED
      BY ZenonT(30), <2>1, <2>2, <2>3, <3>1, <3>2
<1>12. SPrepared'
  <2> SUFFICES ASSUME NEW q \in Pusher
               PROVE  /\ pc'[q] = "pop_cas" => old[q].ptr # Null /\ new'[q].tag = (old[q].tag + 1) % TAGS
                      /\ pc'[q] = "push_cas" => /\ new'[q].ptr = ptr[q] /\ new'[q].tag = old[q].tag
                                                 /\ next'[ptr[q]] = old[q]
    BY <1>0 DEF SPrepared
  <2>1. CASE q = p
    BY <1>3, <1>4, <2>1
  <2>2. CASE q # p
    <3>1. pc'[q] = pc[q] /\ new'[q] = new[q]
      BY <1>4, <2>2
    <3>2. pc[q] = "push_cas" => q \in Holding /\ Held(q) = ptr[q]
      BY DEF Holding, Held
    <3>3. pc[q] = "push_cas" => ptr[q] # n /\ ptr[q] \in Node
      BY <1>1, <2>2, <3>2 DEF StackInv, SSeparate, STypes
    <3> QED
      BY <1>3, <3>1, <3>3 DEF StackInv, SPrepared
  <2> QED
    BY <2>1, <2>2
<1>13. Contents' = Contents
  BY <1>0 DEF Contents
<1>14. Popped' = Popped
  BY <1>0, <1>4 DEF Popped
<1> QED
  BY <1>7, <1>8, <1>9, <1>10, <1>11, <1>12, <1>13, <1>14 DEF StackInv

\* pop reads the node after the head it has loaded, or finds no head.
LEMMA StackReads ==
    ASSUME StackInv, NEW p \in Pusher, PopRead(p)
    PROVE  StackInv' /\ UNCHANGED <<Contents, Popped>>
<1>0. /\ head' = head /\ data' = data /\ next' = next /\ fresh' = fresh /\ free' = free
      /\ owned' = owned /\ ptr' = ptr /\ old' = old /\ pushes' = pushes /\ chain' = chain
      /\ pc[p] = "pop_read"
  BY DEF PopRead, memory
<1>1. PICK l \in {"idle", "pop_cas"} : pc' = [pc EXCEPT ![p] = l] /\ (l = "idle" => new' = new)
        /\ (l = "pop_cas" => /\ old[p].ptr # Null
                              /\ new' = [new EXCEPT ![p] = [ptr |-> next[old[p].ptr].ptr,
                                                              tag |-> (old[p].tag + 1) % TAGS]])
  BY DEF PopRead, Goto, Tag, next_tag
<1>2. pc'[p] = l /\ \A q \in Pusher : q # p => pc'[q] = pc[q]
  BY <1>1 DEF StackInv, STypes
<1>3. Pushing' = Pushing /\ Holding' = Holding
  BY <1>0, <1>2 DEF Pushing, Holding
<1>4. \A q \in Holding : Held(q)' = Held(q)
  BY <1>0, <1>2 DEF Held, Holding
<1>5. l = "pop_cas" => [ptr |-> next[old[p].ptr].ptr, tag |-> (old[p].tag + 1) % TAGS] \in Tagged(Node)
  <2>1. l = "pop_cas" => old[p].ptr \in Node /\ old[p].tag \in 0 .. TAGS - 1
    BY <1>1, TagsAre DEF StackInv, STypes
  <2>2. l = "pop_cas" => next[old[p].ptr].ptr \in Node \cup {Null}
    BY <2>1, TagsAre DEF StackInv, STypes
  <2>3. l = "pop_cas" => (old[p].tag + 1) % TAGS \in 0 .. TAGS - 1
    BY <2>1, TaggedPtrAssumption
  <2> QED
    BY <2>2, <2>3 DEF Tagged, Pointer
<1>6. new' \in [Pusher -> Tagged(Node)] /\ \A q \in Pusher : q # p => new'[q] = new[q]
  BY <1>1, <1>5 DEF StackInv, STypes
<1>7. l = "pop_cas" => new'[p].ptr = next[old[p].ptr].ptr /\ new'[p].tag = (old[p].tag + 1) % TAGS
  BY <1>1 DEF StackInv, STypes
<1>8. STypes'
  BY ZenonT(30), <1>0, <1>1, <1>6 DEF StackInv, STypes
<1>9. ChainLinked' /\ STags'
  BY <1>0, <1>3 DEF StackInv, ChainLinked, STags
<1>10. SSeparate' /\ SData'
  BY <1>0, <1>3, <1>4 DEF StackInv, SSeparate, SData
<1>11. SCurrent'
  BY ZenonT(30), <1>0, <1>2, <1>6, <1>7 DEF StackInv, SCurrent
<1>12. SPrepared'
  BY <1>0, <1>1, <1>2, <1>6, <1>7 DEF StackInv, SPrepared
<1>13. Contents' = Contents
  BY <1>0 DEF Contents
<1>14. Popped' = Popped
  BY <1>0, <1>2 DEF Popped
<1> QED
  BY <1>8, <1>9, <1>10, <1>11, <1>12, <1>13, <1>14 DEF StackInv

\* push allocates: the node was in the pool or in the heap, so nobody has it.
LEMMA StackAllocates ==
    ASSUME StackInv, NEW p \in Pusher, NEW v \in Val, PushAllocate(p, v)
    PROVE  StackInv' /\ UNCHANGED <<Contents, Popped>>
<1> DEFINE mine == owned["stack"]
<1>0. /\ head' = head /\ old' = old /\ new' = new /\ chain' = chain
      /\ pc[p] = "idle" /\ pc' = [pc EXCEPT ![p] = "push_load"]
      /\ pushes' = pushes
  BY DEF PushAllocate, Goto
<1>1. \E n \in Node :
         /\ n \notin mine /\ owned' = [owned EXCEPT !["stack"] = @ \cup {n}]
         /\ fresh' \subseteq fresh /\ n \notin fresh'
         /\ free' \in Seq(Node) /\ \A i \in 1 .. Len(free') : free'[i] # n
         /\ \A i \in 1 .. Len(free') : free'[i] \notin fresh' /\ free'[i] \notin mine
         /\ \A i, j \in 1 .. Len(free') : free'[i] = free'[j] => i = j
  <2>0. free \in Seq(Node) /\ Len(free) \in Nat /\ \A i \in 1 .. Len(free) : free[i] \in Node
    BY SeqElements DEF StackInv, STypes
  <2>1. CASE Freelist!Recycle("stack")
    <3>1. /\ free # <<>> /\ free' = Tail(free) /\ fresh' = fresh
          /\ owned' = [owned EXCEPT !["stack"] = @ \cup {Head(free)}]
      BY <2>1 DEF Freelist!Recycle
    <3>2. Len(free) > 0 /\ Head(free) = free[1] /\ free[1] \in Node
      BY <2>0, <3>1
    <3>3. /\ free' \in Seq(Node) /\ Len(free') = Len(free) - 1
          /\ \A i \in 1 .. Len(free) - 1 : free'[i] = free[i + 1]
      BY <2>0, <3>1, TailIs
    <3>4. \A i \in 1 .. Len(free) - 1 : i + 1 \in 1 .. Len(free) /\ i + 1 # 1
      BY <2>0
    <3>5. /\ \A i \in 1 .. Len(free') : free'[i] # free[1] /\ free'[i] \notin fresh' /\ free'[i] \notin mine
          /\ \A i, j \in 1 .. Len(free') : free'[i] = free'[j] => i = j
      BY <2>0, <3>1, <3>2, <3>3, <3>4 DEF StackInv, SSeparate
    <3>6. free[1] \notin mine /\ free[1] \notin fresh'
      BY <2>0, <3>1, <3>2 DEF StackInv, SSeparate
    <3> QED
      BY ZenonT(30), <3>1, <3>2, <3>3, <3>5, <3>6
  <2>2. ASSUME NEW n \in Node, Freelist!FromHeap("stack", n)
        PROVE  /\ n \notin mine /\ owned' = [owned EXCEPT !["stack"] = @ \cup {n}]
               /\ fresh' \subseteq fresh /\ n \notin fresh' /\ free' = free
               /\ \A i \in 1 .. Len(free) : free[i] # n /\ free[i] \notin fresh' /\ free[i] \notin mine
    BY <2>2 DEF Freelist!FromHeap, StackInv, SSeparate
  <2>3. \A i, j \in 1 .. Len(free) : free[i] = free[j] => i = j
    BY DEF StackInv, SSeparate
  <2> QED
    BY <2>0, <2>1, <2>2, <2>3 DEF PushAllocate
<1>2. PICK n \in Node :
         /\ n \notin mine /\ owned' = [owned EXCEPT !["stack"] = @ \cup {n}]
         /\ fresh' \subseteq fresh /\ n \notin fresh'
         /\ free' \in Seq(Node) /\ \A i \in 1 .. Len(free') : free'[i] # n
         /\ \A i \in 1 .. Len(free') : free'[i] \notin fresh' /\ free'[i] \notin mine
         /\ \A i, j \in 1 .. Len(free') : free'[i] = free'[j] => i = j
  BY ZenonT(30), <1>1
<1>3. owned' \in [{"stack"} -> SUBSET Node] /\ owned'["stack"] = mine \cup {n}
  BY <1>2 DEF StackInv, STypes
<1>4. (CHOOSE k \in Node : k \in owned'["stack"] \ owned["stack"]) = n
  BY <1>2, <1>3
<1>5. /\ ptr' = [ptr EXCEPT ![p] = n] /\ data' = [data EXCEPT ![n] = v]
      /\ next' = [next EXCEPT ![n] = [ptr |-> Null, tag |-> 0]]
  BY ZenonT(30), <1>4 DEF PushAllocate, NoTag, Tag
<1>6. /\ pc'[p] = "push_load" /\ ptr'[p] = n
      /\ \A q \in Pusher : q # p => pc'[q] = pc[q] /\ ptr'[q] = ptr[q]
  BY <1>0, <1>5 DEF StackInv, STypes
<1>7. /\ data'[n] = v /\ \A k \in Node : k # n => data'[k] = data[k] /\ next'[k] = next[k]
  BY <1>5 DEF StackInv, STypes
<1>8. /\ Holding' = Holding \cup {p} /\ p \notin Holding /\ Pushing' = Pushing \cup {p} /\ p \notin Pushing
  BY <1>0, <1>6 DEF Holding, Pushing
<1>9. Held(p)' = n /\ \A q \in Holding : Held(q)' = Held(q)
  BY <1>0, <1>6, <1>8 DEF Held, Holding
<1>10. /\ \A i \in 1 .. Len(chain) : chain[i] # n /\ chain[i] \in Node
       /\ \A q \in Holding : Held(q) # n /\ Held(q) \in Node
  <2>1. \A q \in Holding : Held(q) \in mine /\ Held(q) \in Node
    BY DEF StackInv, SSeparate, STypes
  <2>2. \A i \in 1 .. Len(chain) : chain[i] \in mine /\ chain[i] \in Node
    BY StackFacts DEF StackInv, SSeparate
  <2> QED
    BY <1>2, <2>1, <2>2
<1>11. STypes'
  <2>1. [ptr |-> Null, tag |-> 0] \in Tagged(Node)
    BY TaggedPtrAssumption DEF Tagged, Pointer
  <2>2. ptr' \in [Pusher -> Pointer(Node)] /\ data' \in [Node -> Val \cup {None}]
    BY <1>5 DEF StackInv, STypes, Pointer
  <2>3. next' \in [Node -> Tagged(Node)]
    BY <1>5, <2>1 DEF StackInv, STypes
  <2>5. fresh' \subseteq Node
    BY <1>2 DEF StackInv, STypes
  <2> QED
    BY ZenonT(30), <1>0, <1>2, <1>3, <2>2, <2>3, <2>5 DEF StackInv, STypes
<1>12. ChainLinked'
  <2>1. \A i \in 1 .. Len(chain) : next'[chain[i]] = next[chain[i]]
    BY <1>7, <1>10
  <2> QED
    BY <1>0, <2>1 DEF StackInv, ChainLinked
<1>13. SSeparate'
  <2>1. \A i \in 1 .. Len(free') : free'[i] \notin fresh' /\ free'[i] \notin owned'["stack"]
    BY <1>2, <1>3
  <2>2. fresh' \cap owned'["stack"] = {}
    BY <1>2, <1>3 DEF StackInv, SSeparate
  <2>3. \A i \in 1 .. Len(chain) : chain[i] \in owned'["stack"]
    BY <1>3 DEF StackInv, SSeparate
  <2>4. \A q \in Holding' : Held(q)' \in owned'["stack"] /\ \A i \in 1 .. Len(chain) : chain[i] # Held(q)'
    BY <1>3, <1>8, <1>9, <1>10 DEF StackInv, SSeparate
  <2>5. \A q, r \in Holding' : Held(q)' = Held(r)' => q = r
    BY <1>8, <1>9, <1>10 DEF StackInv, SSeparate
  <2> QED
    BY <1>0, <1>2, <2>1, <2>2, <2>3, <2>4, <2>5 DEF StackInv, SSeparate
<1>14. SData'
  <2>1. \A i \in 1 .. Len(chain) : data'[chain[i]] \in Val
    BY <1>7, <1>10 DEF StackInv, SData
  <2>2. \A q \in Holding' : data'[Held(q)'] \in Val
    BY <1>7, <1>8, <1>9, <1>10 DEF StackInv, SData
  <2> QED
    BY <1>0, <2>1, <2>2 DEF SData
<1>15. STags'
  BY ZenonT(30), <1>0 DEF StackInv, STags
<1>16. SCurrent'
  <2> SUFFICES ASSUME NEW q \in Pusher, pc'[q] \in {"pop_read", "pop_cas"},
                      old[q].ptr # Null, old[q].tag = head.tag
               PROVE  /\ \E i \in 1 .. Len(chain) : chain[i] = old[q].ptr
                      /\ pc'[q] = "pop_cas" => new[q].ptr = next'[old[q].ptr].ptr
    BY <1>0 DEF SCurrent
  <2>1. q # p /\ pc'[q] = pc[q]
    BY <1>6
  <2>2. PICK i \in 1 .. Len(chain) : chain[i] = old[q].ptr
    BY ZenonT(30), <2>1 DEF StackInv, SCurrent
  <2>3. next'[old[q].ptr] = next[old[q].ptr]
    BY <1>7, <1>10, <2>2
  <2> QED
    <3>1. pc[q] = "pop_cas" => new[q].ptr = next[old[q].ptr].ptr
      BY ZenonT(30), <2>1 DEF StackInv, SCurrent
    <3> QED
      BY ZenonT(30), <1>0, <2>1, <2>2, <2>3, <3>1
<1>17. SPrepared'
  <2>1. \A q \in Pusher : pc[q] = "push_cas" => q \in Holding /\ Held(q) = ptr[q]
    BY DEF Holding, Held
  <2>2. \A q \in Pusher : pc[q] = "push_cas" => next'[ptr[q]] = next[ptr[q]]
    BY ZenonT(30), <1>7, <1>10, <2>1
  <2> QED
    BY ZenonT(30), <1>0, <1>6, <2>2 DEF StackInv, SPrepared
<1>18. Contents' = Contents
  BY ZenonT(30), <1>0, <1>7, <1>10 DEF Contents
<1>19. Popped' = Popped
  <2>1. \A q \in Pusher : pc[q] = "pop_take" => q \in Holding /\ Held(q) = old[q].ptr
    BY DEF Holding, Held
  <2>2. \A q \in Pusher : (pc'[q] = "pop_take" <=> pc[q] = "pop_take")
                        /\ (pc[q] = "pop_take" => data'[old[q].ptr] = data[old[q].ptr])
    <3>1. \A q \in Pusher : pc'[q] = "pop_take" <=> pc[q] = "pop_take"
      <4>1. pc[p] # "pop_take" /\ pc'[p] # "pop_take"
        BY <1>0, <1>6
      <4> QED
        BY ZenonT(30), <4>1, <1>6
    <3>2. \A q \in Pusher : pc[q] = "pop_take" => data'[old[q].ptr] = data[old[q].ptr]
      BY <1>7, <1>10, <2>1
    <3> QED
      BY ZenonT(30), <3>1, <3>2
  <2> QED
    BY ZenonT(30), <1>0, <2>2 DEF Popped
<1> QED
  BY <1>11, <1>12, <1>13, <1>14, <1>15, <1>16, <1>17, <1>18, <1>19 DEF StackInv

\* A successful exchange of push: the node it has linked to the head is the head.
PushedOn(p) ==
    /\ pc[p] = "push_cas" /\ head = old[p] /\ head' = new[p] /\ Goto(p, "idle")
    /\ chain' = <<ptr[p]>> \o chain /\ pushes < STACK_PUSHES /\ pushes' = pushes + 1
    /\ UNCHANGED <<old, data, next, fresh, free, owned, ptr, new>>

LEMMA StackPushes ==
    ASSUME StackInv, NEW p \in Pusher, PushedOn(p)
    PROVE  StackInv' /\ \E v \in Val : Lifo!Push(v)
<1> DEFINE n == ptr[p]
           m == Len(chain)
<1>0. /\ pc[p] = "push_cas" /\ head = old[p] /\ head' = new[p] /\ Goto(p, "idle")
      /\ old' = old /\ data' = data /\ next' = next /\ fresh' = fresh /\ free' = free
      /\ owned' = owned /\ ptr' = ptr /\ new' = new
      /\ pushes < STACK_PUSHES /\ pushes' = pushes + 1
  BY DEF PushedOn
<1> USE <1>0
<1>1. new[p].ptr = n /\ new[p].tag = head.tag /\ next[n] = head
  BY ZenonT(30) DEF StackInv, SPrepared
<1>2. p \in Holding /\ Held(p) = n /\ p \in Pushing
  BY DEF Holding, Held, Pushing
<1>3. /\ n \in Node /\ n \in owned["stack"] /\ \A i \in 1 .. m : chain[i] # n
      /\ data[n] \in Val
  BY <1>2 DEF StackInv, SSeparate, STypes, SData
<1>4. m \in Nat /\ \A i \in 1 .. m : chain[i] \in Node
  BY ZenonT(30), StackFacts
<1>a. chain' \in Seq(Node) /\ PutFirst(chain', n, chain)
  <2>1. chain \in Seq(Node) /\ n \in Node /\ chain' = <<n>> \o chain
    BY ZenonT(30), <1>3 DEF StackInv, STypes, PushedOn
  <2> QED
    BY ZenonT(30), <2>1, ConsPutsFirst
<1>5. /\ chain' \in Seq(Node) /\ Len(chain') = m + 1
      /\ \A i \in 1 .. m + 1 : (i = 1 /\ chain'[i] = n) \/ (i - 1 \in 1 .. m /\ chain'[i] = chain[i - 1])
      /\ \A i \in 1 .. m : chain'[i + 1] = chain[i]
  BY ZenonT(30), <1>a DEF PutFirst
<1>6. /\ pc'[p] = "idle" /\ \A q \in Pusher : q # p => pc'[q] = pc[q]
      /\ pc' = [pc EXCEPT ![p] = "idle"]
  BY DEF StackInv, STypes, Goto
<1>7. Holding' = Holding \ {p} /\ Pushing' = Pushing \ {p}
  BY <1>6 DEF Holding, Pushing
<1>8. \A q \in Holding' : Held(q)' = Held(q) /\ Held(q) # n
  <2>1. \A q \in Holding' : q \in Holding /\ q # p /\ q \in Pusher
    BY <1>7 DEF Holding
  <2>2. \A q \in Holding' : Held(q)' = Held(q)
    BY <1>6, <2>1 DEF Held
  <2> QED
    BY <1>2, <2>1, <2>2 DEF StackInv, SSeparate
<1>9. STypes'
  <2>1. pushes' \in 0 .. STACK_PUSHES
    BY StackAssumption DEF StackInv, STypes
  <2> QED
    BY <1>5, <1>6, <2>1 DEF StackInv, STypes
<1>10. ChainLinked'
  <2>1. head'.ptr = chain'[1] /\ 1 \in 1 .. Len(chain')
    BY <1>1, <1>4, <1>5
  <2>2. next'[chain'[1]].ptr = IF 2 \in 1 .. m + 1 THEN chain'[2] ELSE Null
    <3>1. chain'[1] = n /\ next'[n].ptr = head.ptr
      BY <1>0, <1>1, <1>4, <1>5
    <3>2. CASE m = 0
      <4>1. head.ptr = Null
        BY <3>2, StackFacts
      <4> QED
        BY <3>1, <3>2, <4>1
    <3>3. CASE m > 0
      <4>1. head.ptr = chain[1]
        BY <3>3, StackFacts
      <4>2. 2 \in 1 .. m + 1 /\ chain'[2] = chain[1]
        BY <1>4, <1>5, <3>3
      <4> QED
        BY ZenonT(30), <3>1, <4>1, <4>2
    <3> QED
      BY <1>4, <3>2, <3>3
  <2>3. \A i \in 2 .. m + 1 : next'[chain'[i]].ptr = IF i + 1 \in 1 .. m + 1 THEN chain'[i + 1] ELSE Null
    BY <1>4, <1>5, StackFacts
  <2>4. \A i \in 1 .. m + 1 : next'[chain'[i]].ptr = IF i + 1 \in 1 .. m + 1 THEN chain'[i + 1] ELSE Null
    BY <1>4, <2>2, <2>3
  <2> QED
    BY ZenonT(30), <1>5, <2>1, <2>4 DEF ChainLinked
<1>11. SSeparate'
  <2>1. \A i, j \in 1 .. m + 1 : chain'[i] = chain'[j] => i = j
    <3>1. Distinct(chain)
      BY ZenonT(30) DEF StackInv, SSeparate, Distinct
    <3>2. Distinct(chain')
      BY ZenonT(30), <1>3, <1>4, <1>a, <3>1, PutFirstDistinct
    <3> QED
      BY ZenonT(30), <1>5, <3>2 DEF Distinct
  <2>2. \A i \in 1 .. m + 1 : chain'[i] \in owned["stack"]
    <3>1. \A i \in 1 .. m : chain[i] \in owned["stack"]
      BY ZenonT(30) DEF StackInv, SSeparate
    <3> QED
      BY ZenonT(30), <1>3, <1>5, <3>1
  <2>3. \A q \in Holding' : \A i \in 1 .. m : chain[i] # Held(q)
    BY <1>7 DEF StackInv, SSeparate
  <2>4. \A q \in Holding' : Held(q)' \in owned["stack"] /\ \A i \in 1 .. m + 1 : chain'[i] # Held(q)'
    <3>1. \A q \in Holding : Held(q) \in owned["stack"]
      BY ZenonT(30) DEF StackInv, SSeparate
    <3>2. \A q \in Holding' : q \in Holding
      BY <1>7
    <3> QED
      BY ZenonT(30), <1>5, <1>8, <2>3, <3>1, <3>2
  <2>5. \A q, r \in Holding' : Held(q)' = Held(r)' => q = r
    BY <1>7, <1>8 DEF StackInv, SSeparate
  <2> QED
    BY <1>5, <2>1, <2>2, <2>4, <2>5 DEF StackInv, SSeparate
<1>12. SData'
  <2>1. \A i \in 1 .. m + 1 : data[chain'[i]] \in Val
    <3>1. \A i \in 1 .. m : data[chain[i]] \in Val
      BY DEF StackInv, SData
    <3>2. \A i \in 1 .. m + 1 : i # 1 => i - 1 \in 1 .. m
      BY <1>4
    <3>3. data[n] \in Val
      BY <1>3
    <3> QED
      BY ZenonT(30), <1>5, <3>1, <3>2, <3>3
  <2> QED
    BY ZenonT(30), <1>5, <1>7, <1>8, <2>1 DEF StackInv, SData
<1>13. STags'
  <2>1. head.tag \in Nat
    BY TagsAre DEF StackInv, STypes
  <2>2. head.tag + m = pushes /\ \A q \in Pusher : old[q].tag <= head.tag
    BY ZenonT(30) DEF StackInv, STags
  <2>3. head.tag + (m + 1) = pushes + 1
    BY ZenonT(30), <1>4, <2>1, <2>2, MovesOn
  <2> QED
    BY ZenonT(30), <1>0, <1>1, <1>5, <2>2, <2>3 DEF STags
<1>14. SCurrent'
  <2> SUFFICES ASSUME NEW q \in Pusher, pc'[q] \in {"pop_read", "pop_cas"},
                      old[q].ptr # Null, old[q].tag = head.tag
               PROVE  /\ \E i \in 1 .. m + 1 : chain'[i] = old[q].ptr
                      /\ pc'[q] = "pop_cas" => new[q].ptr = next[old[q].ptr].ptr
    BY <1>1, <1>5 DEF SCurrent
  <2>1. pc'[q] = pc[q]
    BY <1>6
  <2>2. PICK i \in 1 .. m : chain[i] = old[q].ptr
    BY <2>1 DEF StackInv, SCurrent
  <2>3. chain'[i + 1] = old[q].ptr /\ i + 1 \in 1 .. m + 1
    BY <1>4, <1>5, <2>2
  <2> QED
    BY <2>1, <2>3 DEF StackInv, SCurrent
<1>15. SPrepared'
  BY <1>6 DEF StackInv, SPrepared
<1>16. Contents' = <<data[n]>> \o Contents
  <2>1. Contents \in Seq(Val) /\ Len(Contents) = m
    BY ContentsIs
  <2>2. <<data[n]>> \o Contents = [k \in 1 .. m + 1 |-> IF k = 1 THEN data[n] ELSE Contents[k - 1]]
    BY <1>3, <1>4, <2>1
  <2>3. Contents' = [k \in 1 .. m + 1 |-> data[chain'[k]]]
    BY <1>5 DEF Contents
  <2>4. \A k \in 1 .. m + 1 : data[chain'[k]] = IF k = 1 THEN data[n] ELSE Contents[k - 1]
    BY <1>4, <1>5 DEF Contents
  <2> QED
    BY ZenonT(30), <2>2, <2>3, <2>4
<1>17. Popped' = Popped
  BY <1>6 DEF Popped
<1>18. Lifo!Push(data[n])
  BY <1>16, <1>17 DEF Lifo!Push
<1> QED
  BY ZenonT(30), <1>3, <1>9, <1>10, <1>11, <1>12, <1>13, <1>14, <1>15, <1>18 DEF StackInv

\* A successful exchange of pop: the head was not outdated, for the tag is that of the
\* last pop; its second node becomes the head.
PoppedOff(p) ==
    /\ pc[p] = "pop_cas" /\ head = old[p] /\ head' = new[p] /\ Goto(p, "pop_take")
    /\ chain' = SubSeq(chain, 2, Len(chain))
    /\ UNCHANGED <<old, data, next, fresh, free, owned, ptr, new, pushes>>

LEMMA StackPops ==
    ASSUME StackInv, NEW p \in Pusher, PoppedOff(p)
    PROVE  StackInv' /\ Lifo!Pop(p)
<1> DEFINE n == old[p].ptr
           m == Len(chain)
<1>0. /\ pc[p] = "pop_cas" /\ head = old[p] /\ head' = new[p] /\ Goto(p, "pop_take")
      /\ old' = old /\ data' = data /\ next' = next /\ fresh' = fresh /\ free' = free
      /\ owned' = owned /\ ptr' = ptr /\ new' = new /\ pushes' = pushes
  BY DEF PoppedOff
<1> USE <1>0
<1>1. n # Null /\ new[p].tag = (head.tag + 1) % TAGS /\ new[p].ptr = next[n].ptr
  BY DEF StackInv, SPrepared, SCurrent
<1>2. m \in Nat /\ m > 0 /\ chain[1] = n /\ \A i \in 1 .. m : chain[i] \in Node
  BY <1>1, StackFacts
<1>3. /\ chain' \in Seq(Node) /\ Len(chain') = m - 1
      /\ \A i \in 1 .. m - 1 : chain'[i] = chain[i + 1]
  <2>1. chain \in Seq(Node) /\ chain # <<>>
    BY <1>2 DEF StackInv, STypes
  <2>2. chain' = Tail(chain)
    BY ZenonT(30), <2>1, RestIs DEF PoppedOff
  <2>3. /\ Tail(chain) \in Seq(Node) /\ Len(Tail(chain)) = Len(chain) - 1
        /\ \A i \in 1 .. Len(chain) - 1 : Tail(chain)[i] = chain[i + 1]
    BY ZenonT(30), <2>1, TailIs
  <2> QED
    BY ZenonT(30), <2>2, <2>3
<1>4. /\ pc'[p] = "pop_take" /\ \A q \in Pusher : q # p => pc'[q] = pc[q]
      /\ pc' = [pc EXCEPT ![p] = "pop_take"]
  BY DEF StackInv, STypes, Goto
<1>5. Holding' = Holding \cup {p} /\ p \notin Holding /\ Pushing' = Pushing
  BY <1>4 DEF Holding, Pushing
<1>6. Held(p)' = n /\ \A q \in Holding : Held(q)' = Held(q)
  BY <1>4, <1>5 DEF Held, Holding
<1>7. /\ n \in Node /\ n \in owned["stack"] /\ data[n] \in Val /\ \A q \in Holding : Held(q) # n
      /\ \A i \in 2 .. m : chain[i] # n
  <2>1. 1 \in 1 .. m /\ \A i \in 2 .. m : i \in 1 .. m /\ i # 1
    BY <1>2
  <2>2. n \in owned["stack"] /\ data[n] \in Val /\ \A q \in Holding : Held(q) # n
    BY <1>2, <2>1 DEF StackInv, SSeparate, SData
  <2>3. \A i \in 2 .. m : chain[i] # n
    BY <1>2, <2>1 DEF StackInv, SSeparate
  <2> QED
    BY ZenonT(30), <1>2, <2>1, <2>2, <2>3
<1>8. head.tag \in Nat /\ head.tag + 1 < TAGS /\ new[p].tag = head.tag + 1
  <2>1. head.tag \in Nat
    BY TagsAre DEF StackInv, STypes
  <2>2. head.tag + m <= STACK_PUSHES
    BY StackAssumption DEF StackInv, STags, STypes
  <2>3. head.tag + 1 < TAGS
    BY <1>2, <2>1, <2>2, StackAssumption, TaggedPtrAssumption
  <2>4. (head.tag + 1) % TAGS = head.tag + 1
    <3>1. head.tag + 1 \in Nat /\ TAGS \in Nat
      BY <2>1, TaggedPtrAssumption
    <3> QED
      BY ZenonT(30), <2>3, <3>1, ModSmall
  <2> QED
    BY <1>1, <2>1, <2>3, <2>4
<1>9. STypes'
  BY <1>3, <1>4 DEF StackInv, STypes
<1>10. ChainLinked'
  <2>1. head'.ptr = next[chain[1]].ptr
    BY <1>1, <1>2
  <2>2. CASE m = 1
    <3>1. head'.ptr = Null /\ Len(chain') = 0
      BY <1>3, <2>1, <2>2, StackFacts
    <3> QED
      BY <3>1 DEF ChainLinked
  <2>3. CASE m > 1
    <3>1. head'.ptr = chain'[1] /\ 1 \in 1 .. Len(chain')
      BY <1>2, <1>3, <2>1, <2>3, StackFacts
    <3>2. \A i \in 1 .. m - 1 : next'[chain'[i]].ptr = IF i + 1 \in 1 .. m - 1 THEN chain'[i + 1] ELSE Null
      BY <1>2, <1>3, <2>3, StackFacts
    <3> QED
      BY <1>2, <1>3, <3>1, <3>2 DEF ChainLinked
  <2>4. m = 1 \/ m > 1
    <3>1. m \in Nat /\ m > 0
      BY <1>2
    <3> HIDE DEF m
    <3> QED
      BY <3>1
  <2> QED
    BY <2>2, <2>3, <2>4, ZenonT(30)
<1>11. SSeparate'
  <2>1. \A i, j \in 1 .. m - 1 : chain'[i] = chain'[j] => i = j
    BY <1>2, <1>3 DEF StackInv, SSeparate
  <2>2. \A i \in 1 .. m - 1 : chain'[i] \in owned["stack"] /\ chain'[i] # n
    BY <1>2, <1>3, <1>7 DEF StackInv, SSeparate
  <2>3. \A q \in Holding : \A i \in 1 .. m - 1 : chain'[i] # Held(q)
    BY <1>2, <1>3 DEF StackInv, SSeparate
  <2>4. \A q \in Holding' : Held(q)' \in owned["stack"] /\ \A i \in 1 .. m - 1 : chain'[i] # Held(q)'
    BY <1>5, <1>6, <1>7, <2>2, <2>3 DEF StackInv, SSeparate
  <2>5. \A q, r \in Holding' : Held(q)' = Held(r)' => q = r
    BY <1>5, <1>6, <1>7 DEF StackInv, SSeparate
  <2> QED
    BY <1>3, <2>1, <2>2, <2>4, <2>5 DEF StackInv, SSeparate
<1>12. SData'
  <2>1. \A i \in 1 .. m - 1 : data[chain'[i]] \in Val
    BY <1>2, <1>3 DEF StackInv, SData
  <2> QED
    BY <1>3, <1>5, <1>6, <1>7, <2>1 DEF StackInv, SData
<1>13. \A q \in Pusher : old[q].tag \in Int /\ old[q].tag < head.tag + 1
  BY <1>8, TagsAre DEF StackInv, STypes, STags
<1>14. STags'
  <2>1. (head.tag + 1) + (m - 1) = pushes
    <3>1. head.tag + m = pushes
      BY ZenonT(30) DEF StackInv, STags
    <3> QED
      BY ZenonT(30), <1>2, <1>8, <3>1, MovesOn
  <2>2. \A q \in Pusher : old[q].tag <= head.tag + 1
    BY <1>8, <1>13
  <2> QED
    <3>1. head'.tag = head.tag + 1 /\ Len(chain') = m - 1 /\ pushes' = pushes /\ old' = old
      BY ZenonT(30), <1>0, <1>3, <1>8
    <3> QED
      BY ZenonT(30), <2>1, <2>2, <3>1 DEF StackInv, STags
<1>15. SCurrent'
  BY <1>8, <1>13 DEF SCurrent
<1>16. SPrepared'
  BY <1>4 DEF StackInv, SPrepared
<1>17. /\ Contents # <<>> /\ Head(Contents) = data[n]
       /\ Contents' = Tail(Contents)
  <2>1. Contents \in Seq(Val) /\ Len(Contents) = m
    BY ContentsIs
  <2>2. Contents # <<>> /\ Head(Contents) = data[n]
    BY <1>2, <2>1 DEF Contents
  <2>3. /\ Tail(Contents) \in Seq(Val) /\ Len(Tail(Contents)) = m - 1
        /\ \A k \in 1 .. m - 1 : Tail(Contents)[k] = Contents[k + 1]
    BY <2>1, <2>2, TailIs
  <2>4. Tail(Contents) = [k \in 1 .. m - 1 |-> Tail(Contents)[k]]
    BY ZenonT(30), <2>3, SeqIsFunction
  <2>5. Contents' = [k \in 1 .. m - 1 |-> data[chain'[k]]]
    BY <1>3 DEF Contents
  <2>6. \A k \in 1 .. m - 1 : data[chain'[k]] = Tail(Contents)[k]
    BY <1>2, <1>3, <2>3 DEF Contents
  <2> QED
    BY ZenonT(30), <2>2, <2>4, <2>5, <2>6
<1>18. /\ Popped[p] = None /\ Popped' = [Popped EXCEPT ![p] = data[n]]
  BY ZenonT(30), <1>4 DEF Popped
<1>19. Lifo!Pop(p)
  BY ZenonT(30), <1>17, <1>18 DEF Lifo!Pop
<1> QED
  BY <1>9, <1>10, <1>11, <1>12, <1>14, <1>15, <1>16, <1>19 DEF StackInv

\* pop copies the element out and returns the node to the Freelist.
LEMMA StackTakes ==
    ASSUME StackInv, NEW p \in Pusher, PopTake(p)
    PROVE  StackInv' /\ Lifo!CopyOut(p)
<1> DEFINE n == old[p].ptr
<1>0. /\ head' = head /\ next' = next /\ ptr' = ptr /\ old' = old /\ new' = new
      /\ pushes' = pushes /\ chain' = chain /\ fresh' = fresh
      /\ pc[p] = "pop_take" /\ pc' = [pc EXCEPT ![p] = "idle"]
      /\ data' = [data EXCEPT ![n] = None] /\ n \in owned["stack"]
      /\ owned' = [owned EXCEPT !["stack"] = @ \ {n}] /\ free' = <<n>> \o free
  BY DEF PopTake, Freelist!Return, Goto
<1>1. p \in Holding /\ Held(p) = n /\ n \in Node
  BY <1>0 DEF Holding, Held, StackInv, STypes
<1>2. data[n] \in Val /\ (\A i \in 1 .. Len(chain) : chain[i] # n) /\ n \notin fresh
  BY <1>0, <1>1 DEF StackInv, SSeparate, SData
<1>3. pc'[p] = "idle" /\ \A q \in Pusher : q # p => pc'[q] = pc[q]
  BY <1>0 DEF StackInv, STypes
<1>4. Holding' = Holding \ {p} /\ Pushing' = Pushing
  BY <1>0, <1>3 DEF Holding, Pushing
<1>5. \A q \in Holding' : Held(q)' = Held(q) /\ Held(q) # n
  <2>1. \A q \in Holding' : q \in Holding /\ q # p /\ q \in Pusher
    BY <1>4 DEF Holding
  <2>2. \A q \in Holding' : Held(q)' = Held(q)
    BY <1>0, <1>3, <2>1 DEF Held
  <2> QED
    BY <1>1, <2>1, <2>2 DEF StackInv, SSeparate
<1>6. data'[n] = None /\ \A k \in Node : k # n => data'[k] = data[k]
  BY <1>0, <1>1 DEF StackInv, STypes
<1>7. owned' \in [{"stack"} -> SUBSET Node] /\ owned'["stack"] = owned["stack"] \ {n}
  BY <1>0 DEF StackInv, STypes
<1>8. /\ Len(free) \in Nat /\ free' \in Seq(Node) /\ Len(free') = Len(free) + 1
      /\ \A i \in 1 .. Len(free) + 1 : free'[i] = IF i = 1 THEN n ELSE free[i - 1]
  <2>1. free \in Seq(Node)
    BY DEF StackInv, STypes
  <2> QED
    BY <1>0, <1>1, <2>1, ConsIs, SeqElements
<1>9. STypes'
  <2>1. data' \in [Node -> Val \cup {None}]
    BY <1>0 DEF StackInv, STypes
  <2> QED
    BY <1>0, <1>7, <1>8, <2>1 DEF StackInv, STypes
<1>10. ChainLinked' /\ SCurrent'
  BY <1>0, <1>3 DEF StackInv, ChainLinked, SCurrent
<1>11. SSeparate'
  <2>1. \A i \in 1 .. Len(free) : free[i] # n
    BY ZenonT(30), <1>0 DEF StackInv, SSeparate
  <2>2. \A i, j \in 1 .. Len(free') : free'[i] = free'[j] => i = j
    <3>1. \A i, j \in 1 .. Len(free) : free[i] = free[j] => i = j
      BY DEF StackInv, SSeparate
    <3>2. \A i \in 1 .. Len(free) + 1 :
             /\ i = 1 => free'[i] = n
             /\ i # 1 => i - 1 \in 1 .. Len(free) /\ free'[i] = free[i - 1]
      BY <1>8
    <3>3. \A i, j \in 1 .. Len(free) + 1 : i - 1 = j - 1 => i = j
      BY <1>8
    <3>4. \A i, j \in 1 .. Len(free) + 1 : free'[i] = free'[j] => i = j
      <4> SUFFICES ASSUME NEW i \in 1 .. Len(free) + 1, NEW j \in 1 .. Len(free) + 1,
                          free'[i] = free'[j]
                   PROVE  i = j
        OBVIOUS
      <4>1. CASE i = 1 /\ j = 1
        BY <4>1
      <4>2. CASE i = 1 /\ j # 1
        BY ZenonT(30), <4>2, <3>2, <2>1
      <4>3. CASE i # 1 /\ j = 1
        BY ZenonT(30), <4>3, <3>2, <2>1
      <4>4. CASE i # 1 /\ j # 1
        <5>1. /\ i - 1 \in 1 .. Len(free) /\ free'[i] = free[i - 1]
              /\ j - 1 \in 1 .. Len(free) /\ free'[j] = free[j - 1]
          BY <4>4, <3>2
        <5>2. i - 1 = j - 1
          BY ZenonT(30), <5>1, <3>1
        <5> QED
          BY ZenonT(30), <5>2, <3>3
      <4> QED
        BY ZenonT(30), <4>1, <4>2, <4>3, <4>4
    <3> QED
      BY ZenonT(30), <1>8, <3>4
  <2>3. \A i \in 1 .. Len(free) : free[i] \notin fresh /\ free[i] \notin owned'["stack"]
    BY <1>7 DEF StackInv, SSeparate
  <2>4. \A i \in 1 .. Len(free') : free'[i] \notin fresh /\ free'[i] \notin owned'["stack"]
    BY <1>2, <1>7, <1>8, <2>3
  <2>5. fresh \cap owned'["stack"] = {}
    BY <1>7 DEF StackInv, SSeparate
  <2>6. \A i \in 1 .. Len(chain) : chain[i] \in owned'["stack"]
    BY <1>2, <1>7 DEF StackInv, SSeparate
  <2>7. \A q \in Holding' : Held(q)' \in owned'["stack"] /\ \A i \in 1 .. Len(chain) : chain[i] # Held(q)'
    BY <1>4, <1>5, <1>7 DEF StackInv, SSeparate
  <2>8. \A q, r \in Holding' : Held(q)' = Held(r)' => q = r
    BY <1>4, <1>5 DEF StackInv, SSeparate
  <2>9. \A i, j \in 1 .. Len(chain) : chain[i] = chain[j] => i = j
    BY DEF StackInv, SSeparate
  <2> QED
    BY ZenonT(30), <1>0, <2>2, <2>4, <2>5, <2>6, <2>7, <2>8, <2>9 DEF SSeparate
<1>12. SData'
  <2>1. \A i \in 1 .. Len(chain) : data'[chain[i]] \in Val
    BY <1>2, <1>6, StackFacts DEF StackInv, SData
  <2>2. \A q \in Holding' : Held(q) \in Node
    BY <1>4 DEF StackInv, SSeparate, STypes
  <2>3. \A q \in Holding' : data'[Held(q)'] \in Val
    BY <1>4, <1>5, <1>6, <2>2 DEF StackInv, SData
  <2> QED
    BY <1>0, <2>1, <2>3 DEF SData
<1>13. STags'
  BY <1>0, <1>4 DEF StackInv, STags
<1>14. SPrepared'
  BY ZenonT(30), <1>0, <1>3 DEF StackInv, SPrepared
<1>15. Contents' = Contents
  BY <1>0, <1>2, <1>6, StackFacts DEF Contents
<1>16. /\ Popped[p] = data[n] /\ Popped' = [Popped EXCEPT ![p] = None]
  <2>1. \A q \in Pusher : q # p /\ pc[q] = "pop_take" => q \in Holding' /\ Held(q) = old[q].ptr
    BY <1>4 DEF Holding, Held
  <2>2. \A q \in Pusher : q # p /\ pc[q] = "pop_take" => old[q].ptr # n /\ old[q].ptr \in Node
    BY ZenonT(30), <1>4, <1>5, <2>1 DEF StackInv, SSeparate, STypes
  <2>3. \A q \in Pusher : q # p /\ pc[q] = "pop_take" => data'[old[q].ptr] = data[old[q].ptr]
    BY <1>6, <2>2
  <2> QED
    BY ZenonT(30), <1>0, <1>3, <2>3 DEF Popped
<1>17. data[n] # None
  BY <1>2, StackAssumption
<1>18. Lifo!CopyOut(p)
  BY <1>15, <1>16, <1>17 DEF Lifo!CopyOut
<1> QED
  BY <1>9, <1>10, <1>11, <1>12, <1>13, <1>14, <1>18 DEF StackInv

\* Every step keeps the invariant and is a step of the stack, or is not seen by it.
LEMMA StackKept ==
    ASSUME StackInv, [Next]_vars
    PROVE  StackInv' /\ [Lifo!StackNext]_<<Contents, Popped>>
<1>1. CASE UNCHANGED vars
  <2>1. /\ head' = head /\ data' = data /\ next' = next /\ fresh' = fresh /\ free' = free
        /\ owned' = owned /\ pc' = pc /\ ptr' = ptr /\ old' = old /\ new' = new
        /\ pushes' = pushes /\ chain' = chain
    BY <1>1 DEF vars, memory
  <2>2. Pushing' = Pushing /\ Holding' = Holding /\ \A q : Held(q)' = Held(q)
    BY <2>1 DEF Pushing, Holding, Held
  <2>3. STypes' /\ ChainLinked' /\ STags' /\ SCurrent' /\ SPrepared'
    BY ZenonT(30), <2>1, <2>2 DEF StackInv, STypes, ChainLinked, STags, SCurrent, SPrepared
  <2>4. SSeparate' /\ SData'
    BY ZenonT(30), <2>1, <2>2 DEF StackInv, SSeparate, SData
  <2>5. UNCHANGED <<Contents, Popped>>
    BY <2>1 DEF Contents, Popped
  <2> QED
    BY <2>3, <2>4, <2>5 DEF StackInv
<1>2. ASSUME NEW p \in Pusher, PushLoad(p) \/ PopLoad(p)
      PROVE  StackInv' /\ UNCHANGED <<Contents, Popped>>
  <2>1. PICK l \in {"push_link", "pop_read"} :
            /\ Load(p, l) /\ pc[p] = IF l = "push_link" THEN "push_load" ELSE "idle"
            /\ UNCHANGED <<head, data, next, fresh, free, owned, ptr, new, pushes, chain>>
    BY <1>2 DEF PushLoad, PopLoad, memory
  <2>2. IF l = "push_link" THEN p \in Pushing ELSE p \notin Holding
    BY <2>1 DEF Pushing, Holding
  <2> QED
    BY <2>1, <2>2, StackLoads
<1>3. ASSUME NEW p \in Pusher, PushCas(p)
      PROVE  StackInv' /\ [Lifo!StackNext]_<<Contents, Popped>>
  <2>1. /\ pc[p] = "push_cas" /\ p \in Pushing
        /\ UNCHANGED <<data, next, fresh, free, owned, ptr, new>>
    BY <1>3 DEF PushCas, memory, Pushing
  <2>2. CASE Load(p, "push_link") /\ UNCHANGED <<head, pushes, chain>>
    BY <2>1, <2>2, StackLoads
  <2>3. CASE ~ (Load(p, "push_link") /\ UNCHANGED <<head, pushes, chain>>)
    <3>1. /\ head = old[p] /\ head' = new[p] /\ chain' = <<ptr[p]>> \o chain
          /\ pushes < STACK_PUSHES /\ pushes' = pushes + 1 /\ Goto(p, "idle") /\ UNCHANGED old
      BY <1>3, <2>3 DEF PushCas
    <3> QED
      BY ZenonT(30), <2>1, <3>1, StackPushes DEF Lifo!StackNext, PushedOn
  <2> QED
    BY <2>2, <2>3
<1>4. ASSUME NEW p \in Pusher, PopCas(p)
      PROVE  StackInv' /\ [Lifo!StackNext]_<<Contents, Popped>>
  <2>1. /\ pc[p] = "pop_cas" /\ p \notin Holding
        /\ UNCHANGED <<data, next, fresh, free, owned, ptr, new, pushes>>
    BY <1>4 DEF PopCas, memory, Holding
  <2>2. CASE Load(p, "pop_read") /\ UNCHANGED <<head, chain>>
    BY <2>1, <2>2, StackLoads
  <2>3. CASE ~ (Load(p, "pop_read") /\ UNCHANGED <<head, chain>>)
    <3>1. /\ head = old[p] /\ head' = new[p] /\ chain' = SubSeq(chain, 2, Len(chain))
          /\ Goto(p, "pop_take") /\ UNCHANGED old
      BY <1>4, <2>3 DEF PopCas
    <3> QED
      BY ZenonT(30), <2>1, <3>1, StackPops DEF Lifo!StackNext, PoppedOff
  <2> QED
    BY <2>2, <2>3
<1>5. ASSUME NEW p \in Pusher, PopTake(p)
      PROVE  StackInv' /\ [Lifo!StackNext]_<<Contents, Popped>>
  BY <1>5, StackTakes DEF Lifo!StackNext
<1> QED
  BY <1>1, <1>2, <1>3, <1>4, <1>5, StackAllocates, StackLinks, StackReads DEF Next

LEMMA StackApart == ASSUME StackInv PROVE NoReuseWhileLinked
<1>1. \A p \in Pusher : pc[p] \in {"push_load", "push_link", "push_cas"} => p \in Holding /\ Held(p) = ptr[p]
  BY DEF Holding, Held
<1>2. \A p \in Pusher : pc[p] = "pop_take" => p \in Holding /\ Held(p) = old[p].ptr
  BY DEF Holding, Held
<1>3. \A k \in 1 .. Len(chain) : \A j \in 1 .. Len(free) : free[j] # chain[k]
  BY DEF StackInv, SSeparate
<1> QED
  BY <1>1, <1>2, <1>3 DEF StackInv, SSeparate, NoReuseWhileLinked
-----------------------------------------------------------------------------
\* push and pop of the lock-free stack are atomic operations of a stack, last in first
\* out.  A pop prepared from an outdated head fails on the tag, even when the same node
\* is on top again: for any number of threads and nodes, as long as fewer than TAGS
\* nodes are pushed.
THEOREM LifoCorrect == Spec => LifoSpec
<1>1. Init => StackInv /\ Lifo!StackInit
  BY StackStart
<1>2. StackInv /\ [Next]_vars => StackInv'
  BY StackKept
<1>3. StackInv /\ [Next]_vars => [Lifo!StackNext]_<<Contents, Popped>>
  BY StackKept
<1> QED
  BY <1>1, <1>2, <1>3, PTL DEF Spec, LifoSpec, Lifo!StackSpec

\* A node linked from _head of the stack is linked once, is not in the Freelist and
\* belongs to no push or pop in progress, and the nodes linked from _head are those
\* that were pushed and not popped.
THEOREM NodesStaySafe == Spec => []NodesSafe
<1>1. Init => StackInv
  BY StackStart
<1>2. StackInv /\ [Next]_vars => StackInv'
  BY StackKept
<1>3. StackInv => NodesSafe
  BY StackApart DEF StackInv, NodesSafe
<1> QED
  BY <1>1, <1>2, <1>3, PTL DEF Spec
=============================================================================
