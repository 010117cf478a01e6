---------------------------- MODULE AtomicProofs ----------------------------
(***************************************************************************)
(* Proofs about the programs of Concurrency/ whose shared state is one     *)
(* atomic word: the Freelist, whose word is a tagged pointer, the shared   *)
(* mutex, whose word counts readers, and the spin locks.  They hold for    *)
(* any number of threads, nodes and rounds.                                *)
(***************************************************************************)
EXTENDS Locks, Freelist, TLAPS

USE SMTT(30)

\* Sequences: their elements, and what taking and putting the first one does.
LEMMA SeqElements == ASSUME NEW S, NEW s \in Seq(S) PROVE Len(s) \in Nat /\ \A i \in 1 .. Len(s) : s[i] \in S
OBVIOUS

LEMMA SeqIsFunction == ASSUME NEW S, NEW s \in Seq(S) PROVE s = [i \in 1 .. Len(s) |-> s[i]]
OBVIOUS

LEMMA TailIs ==
    ASSUME NEW S, NEW s \in Seq(S), s # <<>>
    PROVE  /\ Tail(s) \in Seq(S) /\ Len(Tail(s)) = Len(s) - 1
           /\ \A i \in 1 .. Len(s) - 1 : Tail(s)[i] = s[i + 1]
OBVIOUS

LEMMA RestIs ==
    ASSUME NEW S, NEW s \in Seq(S), s # <<>>
    PROVE  SubSeq(s, 2, Len(s)) = Tail(s)
OBVIOUS

LEMMA ConsIs ==
    ASSUME NEW S, NEW s \in Seq(S), NEW x \in S
    PROVE  /\ <<x>> \o s \in Seq(S) /\ Len(<<x>> \o s) = Len(s) + 1
           /\ \A i \in 1 .. Len(s) + 1 : (<<x>> \o s)[i] = IF i = 1 THEN x ELSE s[i - 1]
OBVIOUS

LEMMA ModSmall == ASSUME NEW a \in Nat, NEW b \in Nat, a < b PROVE a % b = a
OBVIOUS

LEMMA MovesOn ==
    \A a, b \in Nat : (a + 1) + (b - 1) = a + b /\ a + (b + 1) = (a + b) + 1
OBVIOUS

LEMMA ExceptIs == ASSUME NEW S, NEW T, NEW f \in [S -> T], NEW x, NEW y \in T PROVE [f EXCEPT ![x] = y] \in [S -> T]
BY ZenonT(30)
-----------------------------------------------------------------------------
(* The freelist: the inductive invariant *)

FTypes ==
    /\ pool \in Tagged(Node)
    /\ link \in [Node -> Tagged(Node)]
    /\ fFresh \subseteq Node
    /\ fOwned \in [Allocator -> SUBSET Node]
    /\ fPc \in [Allocator -> {"idle", "alloc_read", "alloc_cas", "dealloc_link", "dealloc_cas"}]
    /\ fOld \in [Allocator -> Tagged(Node)]
    /\ fNew \in [Allocator -> Tagged(Node)]
    /\ allocs \in 0 .. MAX_ALLOCS
    /\ fChain \in Seq(Node)

\* A node is in the heap, in the pool once, or has one owner.
FSeparate ==
    /\ \A i, j \in 1 .. Len(fChain) : fChain[i] = fChain[j] => i = j
    /\ \A i \in 1 .. Len(fChain) : fChain[i] \notin fFresh /\ \A p \in Allocator : fChain[i] \notin fOwned[p]
    /\ \A p \in Allocator : fOwned[p] \cap fFresh = {}
    /\ \A p, q \in Allocator : p # q => fOwned[p] \cap fOwned[q] = {}

\* The tag counts the allocations, so an outdated head has a smaller one.
FTags ==
    /\ pool.tag = allocs
    /\ \A p \in Allocator : fOld[p].tag <= allocs

\* A head that is not outdated is still in the pool, and so is what followed it.
FCurrent ==
    \A p \in Allocator :
        fPc[p] \in {"alloc_read", "alloc_cas"} /\ fOld[p].ptr # Null /\ fOld[p].tag = allocs =>
            /\ \E i \in 1 .. Len(fChain) : fChain[i] = fOld[p].ptr
            /\ fPc[p] = "alloc_cas" => fNew[p].ptr = link[fOld[p].ptr].ptr

\* What the threads have prepared for their exchanges.
FPrepared ==
    \A p \in Allocator :
        /\ fPc[p] = "alloc_cas" => fOld[p].ptr # Null /\ fNew[p].tag = (fOld[p].tag + 1) % TAGS
        /\ fPc[p] \in {"dealloc_link", "dealloc_cas"} => fNew[p].ptr \in fOwned[p]
        /\ fPc[p] = "dealloc_cas" => fNew[p].tag = fOld[p].tag /\ link[fNew[p].ptr] = fOld[p]

ListInv == FTypes /\ ListLinked /\ FSeparate /\ FTags /\ FCurrent /\ FPrepared

LEMMA ListFacts ==
    ASSUME ListInv
    PROVE  /\ Len(fChain) \in Nat /\ \A i \in 1 .. Len(fChain) : fChain[i] \in Node
           /\ pool.ptr = Null => Len(fChain) = 0
           /\ pool.ptr # Null => Len(fChain) > 0 /\ fChain[1] = pool.ptr
           /\ \A i \in 1 .. Len(fChain) - 1 : link[fChain[i]].ptr = fChain[i + 1]
           /\ Len(fChain) > 0 => link[fChain[Len(fChain)]].ptr = Null
<1>1. Len(fChain) \in Nat /\ \A i \in 1 .. Len(fChain) : fChain[i] \in Node
  <2>1. fChain \in Seq(Node)
    BY DEF ListInv, FTypes
  <2> QED
    BY <2>1, SeqElements, ZenonT(30)
<1>2. Null \notin Node
  BY ListAssumption, TaggedPtrAssumption
<1> QED
  BY <1>1, <1>2 DEF ListInv, ListLinked

LEMMA TagsAre ==
    ASSUME NEW t \in Tagged(Node)
    PROVE  /\ t.ptr \in Node \cup {Null} /\ t.tag \in 0 .. TAGS - 1
           /\ t = [ptr |-> t.ptr, tag |-> t.tag]
BY DEF Tagged, Pointer

LEMMA ListStart == ASSUME ListInit PROVE ListInv
<1>1. [ptr |-> Null, tag |-> 0] \in Tagged(Node)
  BY ListAssumption, TaggedPtrAssumption DEF Tagged, Pointer
<1>2. FTypes
  <2>1. fChain \in Seq(Node) /\ allocs \in 0 .. MAX_ALLOCS
    BY ListAssumption, TaggedPtrAssumption DEF ListInit
  <2> QED
    BY <1>1, <2>1 DEF ListInit, FTypes, NoTag, Tag
<1>3. Len(fChain) = 0 /\ pool.ptr = Null /\ pool.tag = 0 /\ allocs = 0
  BY DEF ListInit, NoTag, Tag
<1>4. ListLinked /\ FSeparate
  BY <1>3 DEF ListInit, ListLinked, FSeparate
<1>5. FTags /\ FCurrent /\ FPrepared
  BY <1>3 DEF ListInit, NoTag, Tag, FTags, FCurrent, FPrepared
<1> QED
  BY <1>2, <1>4, <1>5 DEF ListInv

\* _pool is loaded: by a call that begins, or after a failed exchange.
LEMMA ListLoads ==
    ASSUME ListInv, NEW p \in Allocator, NEW l \in {"alloc_read", "dealloc_link"}, ListLoad(p, l),
           UNCHANGED <<pool, link, fFresh, fOwned, allocs, fChain>>,
           fNew' \in [Allocator -> Tagged(Node)],
           \A q \in Allocator : q # p => fNew'[q] = fNew[q],
           l = "dealloc_link" => fNew'[p].ptr \in fOwned[p]
    PROVE  ListInv'
<1>0. /\ fOld' = [fOld EXCEPT ![p] = pool] /\ fPc' = [fPc EXCEPT ![p] = l]
      /\ pool' = pool /\ link' = link /\ fFresh' = fFresh /\ fOwned' = fOwned /\ allocs' = allocs
      /\ fChain' = fChain
  BY DEF ListLoad, ListGoto
<1>1. /\ fOld'[p] = pool /\ fPc'[p] = l
      /\ \A q \in Allocator : q # p => fOld'[q] = fOld[q] /\ fPc'[q] = fPc[q]
  BY <1>0 DEF ListInv, FTypes
<1>2. FTypes'
  BY <1>0 DEF ListInv, FTypes
<1>3. ListLinked' /\ FSeparate'
  BY <1>0 DEF ListInv, ListLinked, FSeparate
<1>4. FTags'
  <2>1. allocs <= allocs
    BY ListAssumption, TaggedPtrAssumption DEF ListInv, FTypes
  <2> QED
    BY <1>0, <1>1, <2>1 DEF ListInv, FTags
<1>5. FCurrent'
  <2>1. pool.ptr # Null => \E i \in 1 .. Len(fChain) : fChain[i] = pool.ptr
    BY ListFacts
  <2> QED
    BY <1>0, <1>1, <2>1 DEF ListInv, FCurrent
<1>6. FPrepared'
  BY <1>0, <1>1 DEF ListInv, FPrepared
<1> QED
  BY <1>2, <1>3, <1>4, <1>5, <1>6 DEF ListInv

\* The pool was seen empty and the heap gives a node, or the next node is read; what is
\* read counts only if the head is not outdated, and then the node is not owned.
LEMMA ListReads ==
    ASSUME ListInv, NEW p \in Allocator, AllocateRead(p)
    PROVE  ListInv' /\ [Pool!Next]_(Pool!pool)
<1>0. /\ pool' = pool /\ link' = link /\ fOld' = fOld /\ allocs' = allocs /\ fChain' = fChain
      /\ fPc[p] = "alloc_read"
  BY DEF AllocateRead
<1>1. CASE fOld[p].ptr = Null /\ ListFromHeap(p) /\ ListGoto(p, "idle") /\ fNew' = fNew
  <2>1. PICK nd \in fFresh : /\ \A m \in fFresh : nd <= m
                            /\ fFresh' = fFresh \ {nd} /\ fOwned' = [fOwned EXCEPT ![p] = @ \cup {nd}]
    BY ZenonT(30), <1>1 DEF ListFromHeap
  <2>2. nd \in Node /\ fPc' = [fPc EXCEPT ![p] = "idle"]
    BY <1>1 DEF ListInv, FTypes, ListGoto
  <2>3. /\ fPc'[p] = "idle" /\ \A q \in Allocator : q # p => fPc'[q] = fPc[q] /\ fOwned'[q] = fOwned[q]
        /\ fOwned'[p] = fOwned[p] \cup {nd}
    BY <2>1, <2>2 DEF ListInv, FTypes
  <2>4. FTypes'
    <3>1. fOwned' \in [Allocator -> SUBSET Node] /\ fFresh' \subseteq Node
      BY <2>1, <2>2 DEF ListInv, FTypes
    <3> QED
      BY ZenonT(30), <1>0, <1>1, <2>2, <3>1 DEF ListInv, FTypes
  <2>5. FSeparate'
    <3>1. \A i \in 1 .. Len(fChain) : fChain[i] \notin fFresh' /\ \A q \in Allocator : fChain[i] \notin fOwned'[q]
      BY <2>1, <2>3 DEF ListInv, FSeparate
    <3>2. \A q \in Allocator : fOwned'[q] \cap fFresh' = {}
      BY <2>1, <2>3 DEF ListInv, FSeparate
    <3>3. \A q \in Allocator : nd \notin fOwned[q]
      BY <2>1 DEF ListInv, FSeparate
    <3>4. \A q, r \in Allocator : q # r => fOwned'[q] \cap fOwned'[r] = {}
      BY <2>3, <3>3 DEF ListInv, FSeparate
    <3> QED
      BY <1>0, <3>1, <3>2, <3>4 DEF ListInv, FSeparate
  <2>6. ListLinked' /\ FTags'
    BY <1>0 DEF ListInv, ListLinked, FTags
  <2>7. FCurrent'
    BY <1>0, <1>1, <2>3 DEF ListInv, FCurrent
  <2>8. FPrepared'
    BY <1>0, <1>1, <2>3 DEF ListInv, FPrepared
  <2>9. Pool!FromHeap(p, nd)
    BY <1>0, <2>1 DEF Pool!FromHeap
  <2> QED
    BY <2>2, <2>4, <2>5, <2>6, <2>7, <2>8, <2>9 DEF ListInv, Pool!Next
<1>2. CASE /\ fOld[p].ptr # Null
           /\ \E nxt \in IF Owned(fOld[p].ptr) THEN Pointer(Node) ELSE {link[fOld[p].ptr].ptr} :
                 fNew' = [fNew EXCEPT ![p] = Tag(nxt, next_tag(fOld[p]))]
           /\ ListGoto(p, "alloc_cas") /\ UNCHANGED <<fFresh, fOwned>>
  <2>1. PICK nxt \in IF Owned(fOld[p].ptr) THEN Pointer(Node) ELSE {link[fOld[p].ptr].ptr} :
            fNew' = [fNew EXCEPT ![p] = Tag(nxt, next_tag(fOld[p]))]
    BY ZenonT(30), <1>2
  <2>2. fOld[p] \in Tagged(Node) /\ fOld[p].ptr \in Node /\ fOld[p].tag \in 0 .. TAGS - 1
    BY <1>2, TagsAre DEF ListInv, FTypes
  <2>3. link[fOld[p].ptr].ptr \in Pointer(Node)
    BY <2>2, TagsAre DEF ListInv, FTypes, Pointer
  <2>4. nxt \in Pointer(Node)
    BY <2>1, <2>3
  <2>5. next_tag(fOld[p]) = (fOld[p].tag + 1) % TAGS /\ (fOld[p].tag + 1) % TAGS \in 0 .. TAGS - 1
    BY <2>2, ListAssumption, TaggedPtrAssumption DEF next_tag
  <2>6. Tag(nxt, next_tag(fOld[p])) \in Tagged(Node)
    BY <2>4, <2>5 DEF Tag, Tagged
  <2>7. /\ fNew' \in [Allocator -> Tagged(Node)]
        /\ fNew'[p].ptr = nxt /\ fNew'[p].tag = (fOld[p].tag + 1) % TAGS
        /\ \A q \in Allocator : q # p => fNew'[q] = fNew[q]
    BY <2>1, <2>5, <2>6 DEF ListInv, FTypes, Tag
  <2>8. /\ fPc' = [fPc EXCEPT ![p] = "alloc_cas"] /\ fPc'[p] = "alloc_cas"
        /\ \A q \in Allocator : q # p => fPc'[q] = fPc[q]
    BY <1>2 DEF ListInv, FTypes, ListGoto
  <2>9. fOld[p].tag = allocs => nxt = link[fOld[p].ptr].ptr
    <3>1. fOld[p].tag = allocs => ~ Owned(fOld[p].ptr)
      BY <1>0, <1>2 DEF ListInv, FCurrent, FSeparate, Owned
    <3> QED
      BY <2>1, <3>1
  <2>10. FTypes'
    BY <1>0, <1>2, <2>7, <2>8 DEF ListInv, FTypes
  <2>11. ListLinked' /\ FSeparate' /\ FTags'
    BY <1>0, <1>2 DEF ListInv, ListLinked, FSeparate, FTags
  <2>12. FCurrent'
    BY <1>0, <2>7, <2>8, <2>9 DEF ListInv, FCurrent
  <2>13. FPrepared'
    BY <1>0, <1>2, <2>7, <2>8 DEF ListInv, FPrepared
  <2>14. UNCHANGED Pool!pool
    BY <1>0, <1>2 DEF Pool!pool
  <2> QED
    BY <2>10, <2>11, <2>12, <2>13, <2>14 DEF ListInv
<1> QED
  BY <1>1, <1>2 DEF AllocateRead

\* A successful exchange of allocate: the head was not outdated, for the tag is that of
\* the last allocation; its second node becomes the head.
TakenOff(p) ==
    /\ fPc[p] = "alloc_cas" /\ pool = fOld[p] /\ allocs < MAX_ALLOCS /\ pool' = fNew[p]
    /\ fOwned' = [fOwned EXCEPT ![p] = @ \cup {fOld[p].ptr}] /\ allocs' = allocs + 1
    /\ fChain' = SubSeq(fChain, 2, Len(fChain)) /\ ListGoto(p, "idle")
    /\ UNCHANGED <<fOld, link, fFresh, fNew>>

LEMMA ListTakes ==
    ASSUME ListInv, NEW p \in Allocator, TakenOff(p)
    PROVE  ListInv' /\ Pool!Recycle(p)
<1> DEFINE m == Len(fChain)
<1>0. /\ fPc[p] = "alloc_cas" /\ pool = fOld[p] /\ allocs < MAX_ALLOCS /\ pool' = fNew[p]
      /\ fOwned' = [fOwned EXCEPT ![p] = @ \cup {fOld[p].ptr}] /\ allocs' = allocs + 1
      /\ ListGoto(p, "idle") /\ fOld' = fOld /\ link' = link /\ fFresh' = fFresh /\ fNew' = fNew
  BY DEF TakenOff
<1> USE <1>0
<1>1. /\ fOld[p].ptr # Null /\ fOld[p].tag = allocs /\ fNew[p].tag = (allocs + 1) % TAGS
      /\ fNew[p].ptr = link[fOld[p].ptr].ptr
  BY DEF ListInv, FTags, FPrepared, FCurrent
<1>2. allocs \in Nat /\ allocs + 1 \in 0 .. MAX_ALLOCS /\ (allocs + 1) % TAGS = allocs + 1
  <2>1. allocs \in Nat /\ allocs + 1 \in 0 .. MAX_ALLOCS
    BY ListAssumption DEF ListInv, FTypes
  <2>2. allocs + 1 \in Nat /\ TAGS \in Nat /\ allocs + 1 < TAGS
    BY <2>1, ListAssumption, TaggedPtrAssumption
  <2> QED
    BY ZenonT(30), <2>1, <2>2, ModSmall
<1>3. m \in Nat /\ m > 0 /\ fChain[1] = fOld[p].ptr /\ fOld[p].ptr \in Node
  BY <1>1, ListFacts
<1>31. fChain' = Tail(fChain)
  <2>1. fChain \in Seq(Node) /\ fChain # <<>>
    BY <1>3 DEF ListInv, FTypes
  <2> QED
    BY ZenonT(30), <2>1, RestIs DEF TakenOff
<1>4. /\ fChain' \in Seq(Node) /\ Len(fChain') = m - 1
      /\ \A i \in 1 .. m - 1 : fChain'[i] = fChain[i + 1]
  <2>1. fChain \in Seq(Node) /\ fChain # <<>>
    BY <1>3 DEF ListInv, FTypes
  <2>2. /\ Tail(fChain) \in Seq(Node) /\ Len(Tail(fChain)) = Len(fChain) - 1
        /\ \A i \in 1 .. Len(fChain) - 1 : Tail(fChain)[i] = fChain[i + 1]
    BY ZenonT(30), <2>1, TailIs
  <2> QED
    BY ZenonT(30), <2>2, <1>31
<1>5. /\ fPc'[p] = "idle" /\ fOwned'[p] = fOwned[p] \cup {fOld[p].ptr}
      /\ \A q \in Allocator : q # p => fPc'[q] = fPc[q] /\ fOwned'[q] = fOwned[q]
      /\ fPc' = [fPc EXCEPT ![p] = "idle"]
  BY DEF ListInv, FTypes, ListGoto
<1>6. FTypes'
  <2>1. fOwned' \in [Allocator -> SUBSET Node]
    BY <1>3 DEF ListInv, FTypes
  <2>2. pool' \in Tagged(Node) /\ allocs' \in 0 .. MAX_ALLOCS
    BY <1>2 DEF ListInv, FTypes
  <2> QED
    BY <1>4, <1>5, <2>1, <2>2 DEF ListInv, FTypes
<1>7. ListLinked'
  <2>1. pool'.ptr = link[fChain[1]].ptr
    BY <1>1, <1>3
  <2>2. CASE m = 1
    <3>1. pool'.ptr = Null /\ Len(fChain') = 0
      BY <1>4, <2>1, <2>2, ListFacts
    <3> QED
      BY <3>1 DEF ListLinked
  <2>3. CASE m > 1
    <3>1. pool'.ptr = fChain'[1] /\ 1 \in 1 .. Len(fChain')
      BY <1>3, <1>4, <2>1, <2>3, ListFacts
    <3>2. \A i \in 1 .. m - 1 : link'[fChain'[i]].ptr = IF i + 1 \in 1 .. m - 1 THEN fChain'[i + 1] ELSE Null
      BY <1>3, <1>4, <2>3, ListFacts
    <3> QED
      BY <1>3, <1>4, <3>1, <3>2 DEF ListLinked
  <2>4. m = 1 \/ m > 1
    <3>1. m \in Nat /\ m > 0
      BY <1>3
    <3> HIDE DEF m
    <3> QED
      BY <3>1
  <2> QED
    BY <2>2, <2>3, <2>4, ZenonT(30)
<1>8. FSeparate'
  <2>1. \A i, j \in 1 .. m - 1 : fChain'[i] = fChain'[j] => i = j
    BY <1>3, <1>4 DEF ListInv, FSeparate
  <2>2. \A i \in 1 .. m - 1 : fChain'[i] # fOld[p].ptr
    BY <1>3, <1>4 DEF ListInv, FSeparate
  <2>3. \A i \in 1 .. m - 1 : fChain'[i] \notin fFresh /\ \A q \in Allocator : fChain'[i] \notin fOwned[q]
    BY <1>3, <1>4 DEF ListInv, FSeparate
  <2>4. fOld[p].ptr \notin fFresh /\ \A q \in Allocator : fOld[p].ptr \notin fOwned[q]
    BY <1>3 DEF ListInv, FSeparate
  <2>5. \A q \in Allocator : fOwned'[q] \cap fFresh = {}
    BY <1>5, <2>4 DEF ListInv, FSeparate
  <2>6. \A q, r \in Allocator : q # r => fOwned'[q] \cap fOwned'[r] = {}
    BY <1>5, <2>4 DEF ListInv, FSeparate
  <2>7. \A i \in 1 .. m - 1 : \A q \in Allocator : fChain'[i] \notin fOwned'[q]
    BY <1>5, <2>2, <2>3
  <2> QED
    BY <1>4, <2>1, <2>3, <2>5, <2>6, <2>7 DEF FSeparate
<1>9. \A q \in Allocator : fOld'[q].tag \in Int /\ fOld'[q].tag < allocs'
  BY <1>2, TagsAre DEF ListInv, FTypes, FTags
<1>10. FTags'
  BY <1>1, <1>2, <1>9 DEF FTags
<1>11. FCurrent'
  BY <1>2, <1>9 DEF FCurrent
<1>12. FPrepared'
  BY <1>5 DEF ListInv, FPrepared
<1>13. Pool!Recycle(p)
  <2>1. fChain # <<>> /\ Head(fChain) = fOld[p].ptr
    BY <1>3 DEF ListInv, FTypes
  <2> QED
    BY ZenonT(30), <2>1, <1>31 DEF Pool!Recycle
<1> QED
  BY <1>6, <1>7, <1>8, <1>10, <1>11, <1>12, <1>13 DEF ListInv

\* deallocate links its node, which nobody else sees, to the head it has loaded.
LEMMA ListLinks ==
    ASSUME ListInv, NEW p \in Allocator, DeallocateLink(p)
    PROVE  ListInv' /\ UNCHANGED Pool!pool
<1> DEFINE nd == fNew[p].ptr
<1>0. /\ pool' = pool /\ fFresh' = fFresh /\ fOwned' = fOwned /\ fOld' = fOld /\ allocs' = allocs
      /\ fChain' = fChain /\ fPc[p] = "dealloc_link" /\ fPc' = [fPc EXCEPT ![p] = "dealloc_cas"]
      /\ fNew' = [fNew EXCEPT ![p].tag = fOld[p].tag] /\ link' = [link EXCEPT ![nd] = fOld[p]]
  BY DEF DeallocateLink, ListGoto
<1>1. nd \in fOwned[p] /\ nd \in Node
  BY <1>0 DEF ListInv, FPrepared, FTypes
<1>2. \A i \in 1 .. Len(fChain) : fChain[i] # nd
  BY <1>1 DEF ListInv, FSeparate
<1>3. link'[nd] = fOld[p] /\ \A k \in Node : k # nd => link'[k] = link[k]
  BY <1>0, <1>1 DEF ListInv, FTypes
<1>4. /\ fNew'[p].ptr = nd /\ fNew'[p].tag = fOld[p].tag /\ fNew'[p] \in Tagged(Node)
      /\ \A q \in Allocator : q # p => fNew'[q] = fNew[q]
  <2>1. fNew[p] \in Tagged(Node) /\ fOld[p] \in Tagged(Node)
    BY DEF ListInv, FTypes
  <2>2. fNew'[p] = [fNew[p] EXCEPT !.tag = fOld[p].tag]
    BY <1>0 DEF ListInv, FTypes
  <2>3. \A q \in Allocator : q # p => fNew'[q] = fNew[q]
    BY <1>0 DEF ListInv, FTypes
  <2> QED
    BY <2>1, <2>2, <2>3 DEF Tagged
<1>5. /\ fPc'[p] = "dealloc_cas" /\ \A q \in Allocator : q # p => fPc'[q] = fPc[q]
  BY <1>0 DEF ListInv, FTypes
<1>6. FTypes'
  <2>1. link' \in [Node -> Tagged(Node)]
    BY ZenonT(30), <1>0 DEF ListInv, FTypes
  <2>2. fNew' \in [Allocator -> Tagged(Node)]
    BY <1>0, <1>4 DEF ListInv, FTypes
  <2> QED
    BY <1>0, <2>1, <2>2 DEF ListInv, FTypes
<1>7. ListLinked'
  <2>1. \A i \in 1 .. Len(fChain) : link'[fChain[i]] = link[fChain[i]]
    BY <1>2, <1>3, ListFacts
  <2> QED
    BY <1>0, <2>1 DEF ListInv, ListLinked
<1>8. FSeparate' /\ FTags'
  BY <1>0 DEF ListInv, FSeparate, FTags
<1>9. FCurrent'
  <2> SUFFICES ASSUME NEW q \in Allocator, fPc'[q] \in {"alloc_read", "alloc_cas"},
                      fOld[q].ptr # Null, fOld[q].tag = allocs
               PROVE  /\ \E i \in 1 .. Len(fChain) : fChain[i] = fOld[q].ptr
                      /\ fPc'[q] = "alloc_cas" => fNew'[q].ptr = link'[fOld[q].ptr].ptr
    BY <1>0 DEF FCurrent
  <2>1. q # p /\ fPc'[q] = fPc[q]
    BY <1>5
  <2>2. PICK i \in 1 .. Len(fChain) : fChain[i] = fOld[q].ptr
    BY <2>1 DEF ListInv, FCurrent
  <2>3. link'[fOld[q].ptr] = link[fOld[q].ptr]
    BY <1>2, <1>3, <2>2, ListFacts
  <2> QED
    BY <1>4, <2>1, <2>2, <2>3 DEF ListInv, FCurrent
<1>10. FPrepared'
  <2> SUFFICES ASSUME NEW q \in Allocator
               PROVE  /\ fPc'[q] = "alloc_cas" => fOld[q].ptr # Null /\ fNew'[q].tag = (fOld[q].tag + 1) % TAGS
                      /\ fPc'[q] \in {"dealloc_link", "dealloc_cas"} => fNew'[q].ptr \in fOwned[q]
                      /\ fPc'[q] = "dealloc_cas" => fNew'[q].tag = fOld[q].tag /\ link'[fNew'[q].ptr] = fOld[q]
    BY <1>0 DEF FPrepared
  <2>1. CASE q = p
    BY <1>1, <1>3, <1>4, <1>5, <2>1
  <2>2. CASE q # p
    <3>1. fPc'[q] = fPc[q] /\ fNew'[q] = fNew[q]
      BY <1>4, <1>5, <2>2
    <3>2. fPc[q] = "dealloc_cas" => fNew[q].ptr # nd /\ fNew[q].ptr \in Node
      BY <1>1, <2>2 DEF ListInv, FPrepared, FSeparate, FTypes
    <3> QED
      BY <1>3, <3>1, <3>2 DEF ListInv, FPrepared
  <2> QED
    BY <2>1, <2>2
<1>11. UNCHANGED Pool!pool
  BY <1>0 DEF Pool!pool
<1> QED
  BY <1>6, <1>7, <1>8, <1>9, <1>10, <1>11 DEF ListInv

\* A successful exchange of deallocate: the node it has linked to the head is the head.
PutBack(p) ==
    /\ fPc[p] = "dealloc_cas" /\ pool = fOld[p] /\ pool' = fNew[p]
    /\ fOwned' = [fOwned EXCEPT ![p] = @ \ {fNew[p].ptr}]
    /\ fChain' = <<fNew[p].ptr>> \o fChain /\ ListGoto(p, "idle")
    /\ UNCHANGED <<fOld, link, fFresh, fNew, allocs>>

LEMMA ListReturns ==
    ASSUME ListInv, NEW p \in Allocator, PutBack(p)
    PROVE  ListInv' /\ \E nd \in Node : Pool!Return(p, nd)
<1> DEFINE nd == fNew[p].ptr
           m == Len(fChain)
<1>0. /\ fPc[p] = "dealloc_cas" /\ pool = fOld[p] /\ pool' = fNew[p]
      /\ fOwned' = [fOwned EXCEPT ![p] = @ \ {nd}] /\ ListGoto(p, "idle")
      /\ fOld' = fOld /\ link' = link /\ fFresh' = fFresh /\ fNew' = fNew /\ allocs' = allocs
  BY DEF PutBack
<1> USE <1>0
<1>1. nd \in fOwned[p] /\ nd \in Node /\ fNew[p].tag = pool.tag /\ link[nd] = pool
  BY DEF ListInv, FPrepared, FTypes
<1>2. m \in Nat
  BY ListFacts
<1>3. /\ fChain' \in Seq(Node) /\ Len(fChain') = m + 1
      /\ \A i \in 1 .. m + 1 : fChain'[i] = IF i = 1 THEN nd ELSE fChain[i - 1]
  <2>1. fChain \in Seq(Node)
    BY DEF ListInv, FTypes
  <2>2. /\ <<nd>> \o fChain \in Seq(Node) /\ Len(<<nd>> \o fChain) = Len(fChain) + 1
        /\ \A i \in 1 .. Len(fChain) + 1 : (<<nd>> \o fChain)[i] = IF i = 1 THEN nd ELSE fChain[i - 1]
    <3>1. nd \in Node
      BY <1>1
    <3> QED
      BY ZenonT(30), <2>1, <3>1, ConsIs
  <2> QED
    BY ZenonT(30), <2>2 DEF PutBack
<1>4. /\ fPc'[p] = "idle" /\ fOwned'[p] = fOwned[p] \ {nd}
      /\ \A q \in Allocator : q # p => fPc'[q] = fPc[q] /\ fOwned'[q] = fOwned[q]
      /\ fPc' = [fPc EXCEPT ![p] = "idle"]
  BY DEF ListInv, FTypes, ListGoto
<1>5. FTypes'
  <2>1. fOwned' \in [Allocator -> SUBSET Node]
    BY <1>1 DEF ListInv, FTypes
  <2> QED
    BY <1>3, <1>4, <2>1 DEF ListInv, FTypes
<1>6. ListLinked'
  <2>1. pool'.ptr = fChain'[1] /\ 1 \in 1 .. Len(fChain')
    BY <1>2, <1>3
  <2>2. link'[fChain'[1]].ptr = IF 2 \in 1 .. m + 1 THEN fChain'[2] ELSE Null
    <3>1. fChain'[1] = nd /\ link'[nd].ptr = pool.ptr
      BY <1>0, <1>1, <1>2, <1>3
    <3>2. CASE m = 0
      <4>1. pool.ptr = Null
        BY <3>2, ListFacts
      <4> QED
        BY <3>1, <3>2, <4>1
    <3>3. CASE m > 0
      <4>1. pool.ptr = fChain[1]
        BY <3>3, ListFacts
      <4>2. 2 \in 1 .. m + 1 /\ fChain'[2] = fChain[1]
        BY <1>2, <1>3, <3>3
      <4> QED
        BY ZenonT(30), <3>1, <4>1, <4>2
    <3> QED
      BY <1>2, <3>2, <3>3
  <2>3. \A i \in 2 .. m + 1 : link'[fChain'[i]].ptr = IF i + 1 \in 1 .. m + 1 THEN fChain'[i + 1] ELSE Null
    BY <1>2, <1>3, ListFacts
  <2>4. \A i \in 1 .. m + 1 : link'[fChain'[i]].ptr = IF i + 1 \in 1 .. m + 1 THEN fChain'[i + 1] ELSE Null
    BY <1>2, <2>2, <2>3
  <2> QED
    BY <1>3, <2>1, <2>4 DEF ListLinked
<1>7. FSeparate'
  <2>1. \A i \in 1 .. m : fChain[i] # nd
    BY <1>1 DEF ListInv, FSeparate
  <2>2. \A i, j \in 1 .. m + 1 : fChain'[i] = fChain'[j] => i = j
    BY <1>2, <1>3, <2>1 DEF ListInv, FSeparate
  <2>3. \A i \in 1 .. m + 1 : fChain'[i] \notin fFresh
    BY <1>1, <1>2, <1>3 DEF ListInv, FSeparate
  <2>4. \A q \in Allocator : fOwned'[q] \subseteq fOwned[q] /\ nd \notin fOwned'[q]
    BY <1>1, <1>4 DEF ListInv, FSeparate
  <2>5. \A i \in 1 .. m + 1 : \A q \in Allocator : fChain'[i] \notin fOwned'[q]
    <3>1. \A i \in 1 .. m : \A q \in Allocator : fChain[i] \notin fOwned'[q]
      BY <2>4 DEF ListInv, FSeparate
    <3>2. \A i \in 2 .. m + 1 : i - 1 \in 1 .. m /\ fChain'[i] = fChain[i - 1]
      BY <1>2, <1>3
    <3>3. 1 \in 1 .. m + 1 /\ fChain'[1] = nd /\ \A i \in 1 .. m + 1 : i = 1 \/ i \in 2 .. m + 1
      BY <1>2, <1>3
    <3> QED
      BY <2>4, <3>1, <3>2, <3>3, ZenonT(30)
  <2>6. /\ \A q \in Allocator : fOwned'[q] \cap fFresh = {}
        /\ \A q, r \in Allocator : q # r => fOwned'[q] \cap fOwned'[r] = {}
    BY <2>4 DEF ListInv, FSeparate
  <2> QED
    BY <1>3, <2>2, <2>3, <2>5, <2>6 DEF FSeparate
<1>8. FTags'
  BY <1>1 DEF ListInv, FTags
<1>9. FCurrent'
  <2> SUFFICES ASSUME NEW q \in Allocator, fPc'[q] \in {"alloc_read", "alloc_cas"},
                      fOld[q].ptr # Null, fOld[q].tag = allocs
               PROVE  /\ \E i \in 1 .. m + 1 : fChain'[i] = fOld[q].ptr
                      /\ fPc'[q] = "alloc_cas" => fNew[q].ptr = link[fOld[q].ptr].ptr
    BY <1>3 DEF FCurrent
  <2>1. fPc'[q] = fPc[q]
    BY <1>4
  <2>2. PICK i \in 1 .. m : fChain[i] = fOld[q].ptr
    BY <2>1 DEF ListInv, FCurrent
  <2>3. fChain'[i + 1] = fOld[q].ptr /\ i + 1 \in 1 .. m + 1
    BY <1>2, <1>3, <2>2
  <2> QED
    BY <2>1, <2>3 DEF ListInv, FCurrent
<1>10. FPrepared'
  <2> SUFFICES ASSUME NEW q \in Allocator, q # p
               PROVE  fPc[q] \in {"dealloc_link", "dealloc_cas"} => fNew[q].ptr \in fOwned'[q]
    BY <1>4 DEF ListInv, FPrepared
  <2> QED
    BY <1>4 DEF ListInv, FPrepared
<1>11. Pool!Return(p, nd)
  BY ZenonT(30), <1>0, <1>1 DEF Pool!Return, PutBack
<1> QED
  BY <1>1, <1>5, <1>6, <1>7, <1>8, <1>9, <1>10, <1>11 DEF ListInv

\* Every step keeps the invariant and is a step of the pool, or is not seen by it.
LEMMA ListKept ==
    ASSUME ListInv, [ListNext]_listVars
    PROVE  ListInv' /\ [Pool!Next]_(Pool!pool)
<1>1. CASE UNCHANGED listVars
  BY <1>1 DEF listVars, Pool!pool, ListInv, FTypes, ListLinked, FSeparate, FTags, FCurrent, FPrepared
<1>2. ASSUME NEW p \in Allocator, AllocateLoad(p) PROVE ListInv' /\ UNCHANGED Pool!pool
  BY <1>2, ListLoads DEF AllocateLoad, Pool!pool, ListInv, FTypes
<1>3. ASSUME NEW p \in Allocator, AllocateCas(p) PROVE ListInv' /\ [Pool!Next]_(Pool!pool)
  <2>1. fPc[p] = "alloc_cas" /\ UNCHANGED <<link, fFresh, fNew>>
    BY <1>3 DEF AllocateCas
  <2>2. CASE ListLoad(p, "alloc_read") /\ UNCHANGED <<pool, fOwned, allocs, fChain>>
    BY <2>1, <2>2, ListLoads DEF Pool!pool, ListInv, FTypes
  <2>3. CASE ~ (ListLoad(p, "alloc_read") /\ UNCHANGED <<pool, fOwned, allocs, fChain>>)
    <3>1. /\ pool = fOld[p] /\ allocs < MAX_ALLOCS /\ pool' = fNew[p]
          /\ fOwned' = [fOwned EXCEPT ![p] = @ \cup {fOld[p].ptr}] /\ allocs' = allocs + 1
          /\ fChain' = SubSeq(fChain, 2, Len(fChain)) /\ ListGoto(p, "idle") /\ UNCHANGED fOld
      BY <1>3, <2>3 DEF AllocateCas
    <3> QED
      BY ZenonT(30), <2>1, <3>1, ListTakes DEF Pool!Next, TakenOff
  <2> QED
    BY <2>2, <2>3
<1>4. ASSUME NEW p \in Allocator, NEW nd \in Node, DeallocateLoad(p, nd)
      PROVE  ListInv' /\ UNCHANGED Pool!pool
  <2>1. /\ nd \in fOwned[p] /\ fNew' = [fNew EXCEPT ![p] = [ptr |-> nd, tag |-> 0]]
        /\ ListLoad(p, "dealloc_link") /\ UNCHANGED <<pool, link, fFresh, fOwned, allocs, fChain>>
    BY <1>4 DEF DeallocateLoad, NoTag, Tag
  <2>2. [ptr |-> nd, tag |-> 0] \in Tagged(Node)
    BY ListAssumption, TaggedPtrAssumption DEF Tagged, Pointer
  <2>3. /\ fNew' \in [Allocator -> Tagged(Node)] /\ fNew'[p].ptr \in fOwned[p]
        /\ \A q \in Allocator : q # p => fNew'[q] = fNew[q]
    BY <2>1, <2>2 DEF ListInv, FTypes
  <2> QED
    BY <2>1, <2>3, ListLoads DEF Pool!pool
<1>5. ASSUME NEW p \in Allocator, DeallocateCas(p) PROVE ListInv' /\ [Pool!Next]_(Pool!pool)
  <2>1. fPc[p] = "dealloc_cas" /\ UNCHANGED <<link, fFresh, fNew, allocs>> /\ fNew[p].ptr \in fOwned[p]
    BY <1>5 DEF DeallocateCas, ListInv, FPrepared
  <2>2. CASE ListLoad(p, "dealloc_link") /\ UNCHANGED <<pool, fOwned, fChain>>
    BY <2>1, <2>2, ListLoads DEF Pool!pool, ListInv, FTypes
  <2>3. CASE ~ (ListLoad(p, "dealloc_link") /\ UNCHANGED <<pool, fOwned, fChain>>)
    <3>1. /\ pool = fOld[p] /\ pool' = fNew[p] /\ fOwned' = [fOwned EXCEPT ![p] = @ \ {fNew[p].ptr}]
          /\ fChain' = <<fNew[p].ptr>> \o fChain /\ ListGoto(p, "idle") /\ UNCHANGED fOld
      BY <1>5, <2>3 DEF DeallocateCas
    <3> QED
      BY ZenonT(30), <2>1, <3>1, ListReturns DEF Pool!Next, PutBack
  <2> QED
    BY <2>2, <2>3
<1> QED
  BY <1>1, <1>2, <1>3, <1>4, <1>5, ListReads, ListLinks DEF ListNext
-----------------------------------------------------------------------------
\* allocate and deallocate of the Freelist are atomic operations of a pool, last in
\* first out, and the nodes linked from _pool are those returned and not handed out
\* again.  An allocate prepared from an outdated head fails on the tag, even when the
\* same node is on top again: for any number of threads and nodes, as long as fewer
\* than TAGS nodes are taken out.
THEOREM PoolCorrect == ListSpec => PoolSpec /\ []ListLinked
<1>1. ListInit => ListInv /\ Pool!Init
  BY ListStart DEF ListInit, Pool!Init
<1>2. ListInv /\ [ListNext]_listVars => ListInv'
  BY ListKept
<1>3. ListInv /\ [ListNext]_listVars => [Pool!Next]_(Pool!pool)
  BY ListKept
<1>4. ListInv => ListLinked
  BY DEF ListInv
<1> QED
  BY <1>1, <1>2, <1>3, <1>4, PTL DEF ListSpec, PoolSpec, Pool!Spec
-----------------------------------------------------------------------------
INSTANCE FiniteSetTheorems


(***************************************************************************)
(* The inductive invariant of the shared mutex.  Which section a thread is in follows from its *)
(* kind, at most one writer is inside, and a reader about to exchange has  *)
(* loaded a value it may use.                                              *)
(***************************************************************************)
Sections ==
    /\ \A t \in Writer : pc[t] \in {"outside", "exclusive", "write", "unlock"}
    /\ \A t \in Reader : pc[t] \in {"outside", "lock_shared", "shared", "unlock_shared"}
    /\ \A t \in Reader : pc[t] = "lock_shared" => old[t] >= 0
    /\ \A t \in Reader : pc[t] = "unlock_shared" => old[t] > 0
    /\ \A t \in Thread : pc[t] # "outside" => left[t] > 0

AtMostOne == \A t, u \in Writers : t = u

Basic ==
    /\ n \in Int
    /\ val \in Nat
    /\ pc \in [Thread -> {"outside", "lock_shared", "shared", "unlock_shared",
                          "exclusive", "write", "unlock"}]
    /\ old \in [Thread -> Int]
    /\ left \in [Thread -> 0 .. COUNT]
    /\ \A t \in Writer : pc[t] = "write" => old[t] >= 0

IInv == Basic /\ Sections /\ AtMostOne /\ (Writers # {} => Readers = {}) /\ LockWord

\* The readers inside are finitely many, no more than there are.
LEMMA ReadersFinite ==
    /\ IsFiniteSet(Readers)
    /\ Cardinality(Readers) \in Nat
    /\ Cardinality(Readers) <= Cardinality(Reader)
<1>1. Readers \subseteq Reader
  BY DEF Readers
<1> QED
  BY <1>1, SharedMutexAssumption, FS_Subset, FS_CardinalityType

\* The invariant gives the checked properties.
LEMMA IInvImplies == IInv => TypeOK /\ Exclusion /\ LockWord
<1> SUFFICES ASSUME IInv PROVE TypeOK /\ Exclusion
  BY DEF IInv
<1> USE DEF IInv
<1>1. Cardinality(Reader) \in Nat
  BY SharedMutexAssumption, FS_CardinalityType
<1>2. n >= -1 /\ n <= Cardinality(Reader)
  BY <1>1, ReadersFinite DEF LockWord
<1>3. TypeOK
  BY <1>2 DEF TypeOK, Basic
<1>4. Exclusion
  BY DEF Exclusion, AtMostOne
<1> QED
  BY <1>3, <1>4

\* No thread is inside at the start.
LEMMA InitIInv == Init => IInv
<1> SUFFICES ASSUME Init PROVE IInv
  OBVIOUS
<1>1. Readers = {} /\ Writers = {}
  BY DEF Init, Readers, Writers, Thread
<1>2. Basic
  BY SharedMutexAssumption DEF Init, Basic, Thread
<1>3. Sections
  BY DEF Init, Sections, Thread
<1> QED
  BY <1>1, <1>2, <1>3, FS_EmptySet DEF IInv, AtMostOne, LockWord, Init

\* A step of a thread that changes neither its section nor the lock word.
LEMMA SameSections ==
    ASSUME IInv, Readers' = Readers, Writers' = Writers, n' = n, Basic', Sections'
    PROVE  IInv'
BY DEF IInv, AtMostOne, LockWord

LEMMA LockSharedLoadStep ==
    ASSUME IInv, NEW t \in Thread, LockSharedLoad(t) PROVE IInv'
<1> USE DEF IInv, LockSharedLoad, Goto
<1>1. Basic'
  BY SharedMutexAssumption DEF Basic, Sections
<1>2. Sections'
  BY SharedMutexAssumption DEF Basic, Sections
<1>3. Readers' = Readers
  BY SharedMutexAssumption DEF Readers, Basic
<1>4. Writers' = Writers
  BY SharedMutexAssumption DEF Writers, Basic
<1> QED
  BY <1>1, <1>2, <1>3, <1>4, SameSections

\* The exchange succeeds only from a count, so no writer is inside.
LEMMA LockSharedCasStep ==
    ASSUME IInv, NEW t \in Thread, LockSharedCas(t) PROVE IInv'
<1> USE DEF IInv, LockSharedCas, Goto
<1>0. t \in Reader /\ t \notin Writer /\ old[t] >= 0 /\ left[t] > 0
  BY SharedMutexAssumption DEF Sections, Thread
<1>a. PICK l \in {"outside", "shared"} : pc' = [pc EXCEPT ![t] = l]
  OBVIOUS
<1>b. n' \in Int
  BY DEF Basic
<1>1. Basic'
  BY <1>0, <1>a, <1>b DEF Basic
<1>2. Sections'
  BY <1>0, <1>a DEF Basic, Sections
<1>3. Writers' = Writers
  BY <1>0, <1>a DEF Writers, Basic
<1>4. CASE UNCHANGED n /\ pc' = [pc EXCEPT ![t] = "outside"]
  <2>1. Readers' = Readers
    BY <1>4 DEF Readers, Basic
  <2> QED
    BY <1>1, <1>2, <1>3, <1>4, <2>1, SameSections
<1>5. CASE n = old[t] /\ n' = old[t] + 1 /\ pc' = [pc EXCEPT ![t] = "shared"]
  <2>1. Readers' = Readers \cup {t} /\ t \notin Readers
    BY <1>0, <1>5 DEF Readers, Basic
  <2>2. Cardinality(Readers') = Cardinality(Readers) + 1
    BY <2>1, ReadersFinite, FS_AddElement
  <2>3. Writers = {}
    BY <1>0, <1>5 DEF LockWord
  <2>4. n' = Cardinality(Readers')
    BY <1>5, <2>2, <2>3 DEF LockWord
  <2> QED
    BY <1>1, <1>2, <1>3, <2>3, <2>4 DEF AtMostOne, LockWord
<1> QED
  BY <1>4, <1>5

LEMMA UnlockSharedLoadStep ==
    ASSUME IInv, NEW t \in Thread, UnlockSharedLoad(t) PROVE IInv'
<1> USE DEF IInv, UnlockSharedLoad, Goto
<1>0. t \in Reader /\ t \notin Writer
  BY SharedMutexAssumption DEF Sections, Thread
<1>1. Basic'
  BY <1>0 DEF Basic
<1>2. Sections'
  BY <1>0 DEF Basic, Sections
<1>3. Readers' = Readers
  BY <1>0 DEF Readers, Basic
<1>4. Writers' = Writers
  BY <1>0 DEF Writers, Basic
<1> QED
  BY <1>1, <1>2, <1>3, <1>4, SameSections

LEMMA UnlockSharedCasStep ==
    ASSUME IInv, NEW t \in Thread, UnlockSharedCas(t) PROVE IInv'
<1> USE DEF IInv
<1>0. t \in Reader /\ t \notin Writer /\ old[t] > 0 /\ left[t] > 0 /\ t \in Readers
  BY SharedMutexAssumption DEF Sections, Thread, Readers, UnlockSharedCas
<1>a. PICK l \in {"outside", "shared"} : pc' = [pc EXCEPT ![t] = l]
  BY DEF UnlockSharedCas, Goto
<1>b. n' \in Int /\ left' \in [Thread -> 0 .. COUNT]
  BY <1>0, SharedMutexAssumption DEF Basic, UnlockSharedCas
<1>c. \A u \in Thread : u # t => left'[u] = left[u]
  BY DEF Basic, UnlockSharedCas
<1>d. l = "shared" => left' = left
  BY <1>a DEF Basic, UnlockSharedCas, Goto
<1>e. val' = val /\ old' = old
  BY DEF UnlockSharedCas
<1>f. \A w \in Writer : pc'[w] = "write" => old'[w] >= 0
  BY <1>0, <1>a, <1>e DEF Basic
<1>g. pc' \in [Thread -> {"outside", "lock_shared", "shared", "unlock_shared",
                         "exclusive", "write", "unlock"}]
  BY <1>a DEF Basic
<1>1. Basic'
  BY <1>b, <1>e, <1>f, <1>g DEF Basic
<1>2. Sections'
  BY <1>0, <1>a, <1>c, <1>d, <1>e DEF Basic, Sections
<1>3. Writers' = Writers
  BY <1>0, <1>a DEF Writers, Basic
<1>4. CASE UNCHANGED n /\ pc' = [pc EXCEPT ![t] = "shared"]
  <2>1. Readers' = Readers
    BY <1>0, <1>4 DEF Readers, Basic
  <2> QED
    BY <1>1, <1>2, <1>3, <1>4, <2>1, SameSections
<1>5. CASE n = old[t] /\ n' = old[t] - 1 /\ pc' = [pc EXCEPT ![t] = "outside"]
  <2>1. Readers' = Readers \ {t}
    BY <1>0, <1>5 DEF Readers, Basic
  <2>2. Cardinality(Readers') = Cardinality(Readers) - 1
    BY Zenon, <1>0, <2>1, ReadersFinite, FS_RemoveElement
  <2>3. Writers = {}
    BY <1>0
  <2>4. n' = Cardinality(Readers')
    BY <1>5, <2>2, <2>3 DEF LockWord
  <2> QED
    BY <1>1, <1>2, <1>3, <2>3, <2>4 DEF AtMostOne, LockWord
<1> QED
  BY <1>4, <1>5 DEF UnlockSharedCas, Goto

\* A writer enters when the word is 0, so nobody is inside.
LEMMA LockStep ==
    ASSUME IInv, NEW t \in Thread, Lock(t) PROVE IInv'
<1> USE DEF IInv, Lock, Goto
<1>0. t \in Writer /\ t \notin Reader
  BY SharedMutexAssumption
<1>1. Basic'
  BY <1>0 DEF Basic
<1>2. Sections'
  BY <1>0 DEF Basic, Sections
<1>3. Writers = {} /\ Readers = {}
  BY ReadersFinite, FS_EmptySet DEF LockWord
<1>4. Readers' = Readers
  BY <1>0 DEF Readers, Basic
<1>5. Writers' = {t}
  BY <1>0, <1>3 DEF Writers, Basic
<1> QED
  BY <1>1, <1>2, <1>3, <1>4, <1>5 DEF AtMostOne, LockWord

LEMMA ReadValStep ==
    ASSUME IInv, NEW t \in Thread, ReadVal(t) PROVE IInv'
<1> USE DEF IInv, ReadVal, Goto
<1>0. t \in Writer /\ t \notin Reader /\ left[t] > 0
  BY SharedMutexAssumption DEF Sections, Thread
<1>1. Basic'
  BY <1>0 DEF Basic
<1>2. Sections'
  BY <1>0 DEF Basic, Sections
<1>3. Readers' = Readers
  BY <1>0 DEF Readers, Basic
<1>4. Writers' = Writers
  BY <1>0 DEF Writers, Basic
<1> QED
  BY <1>1, <1>2, <1>3, <1>4, SameSections

LEMMA WriteValStep ==
    ASSUME IInv, NEW t \in Thread, WriteVal(t) PROVE IInv'
<1> USE DEF IInv, WriteVal, Goto
<1>0. t \in Writer /\ t \notin Reader /\ left[t] > 0
  BY SharedMutexAssumption DEF Sections, Thread
<1>1. Basic'
  BY <1>0 DEF Basic
<1>2. Sections'
  BY <1>0 DEF Basic, Sections
<1>3. Readers' = Readers
  BY <1>0 DEF Readers, Basic
<1>4. Writers' = Writers
  BY <1>0 DEF Writers, Basic
<1> QED
  BY <1>1, <1>2, <1>3, <1>4, SameSections

LEMMA UnlockStep ==
    ASSUME IInv, NEW t \in Thread, Unlock(t) PROVE IInv'
<1> USE DEF IInv, Unlock, Goto
<1>0. t \in Writer /\ t \notin Reader /\ left[t] > 0 /\ t \in Writers
  BY SharedMutexAssumption DEF Sections, Thread, Writers
<1>1. Basic'
  BY <1>0, SharedMutexAssumption DEF Basic
<1>2. Sections'
  BY <1>0 DEF Basic, Sections
<1>3. Readers' = Readers
  BY <1>0 DEF Readers, Basic
<1>4. Writers' = Writers \ {t}
  BY <1>0 DEF Writers, Basic
<1>5. Writers' = {} /\ Readers = {}
  BY <1>0, <1>4 DEF AtMostOne
<1> QED
  BY <1>1, <1>2, <1>3, <1>5, FS_EmptySet DEF AtMostOne, LockWord

\* The invariant holds in every behaviour.
THEOREM Invariance == Spec => []IInv
<1>1. Init => IInv
  BY InitIInv
<1>2. IInv /\ [Next]_vars => IInv'
  <2> SUFFICES ASSUME IInv, [Next]_vars PROVE IInv'
    OBVIOUS
  <2>1. CASE Next
    <3>1. PICK t \in Thread : Step(t)
      BY <2>1 DEF Next
    <3> QED
      BY <3>1, LockSharedLoadStep, LockSharedCasStep, UnlockSharedLoadStep, UnlockSharedCasStep,
         LockStep, ReadValStep, WriteValStep, UnlockStep DEF Step
  <2>2. CASE UNCHANGED vars
    BY <2>2 DEF vars, IInv, Basic, Sections, AtMostOne, LockWord, Readers, Writers
  <2> QED
    BY <2>1, <2>2
<1> QED
  BY <1>1, <1>2, PTL DEF Spec

\* The lock word stays within -1 and the number of readers.
THEOREM TypeCorrect == Spec => []TypeOK
BY Invariance, IInvImplies, PTL

\* A writer between lock and unlock is alone.
THEOREM MutualExclusion == Spec => []Exclusion
BY Invariance, IInvImplies, PTL

\* The lock word is the number of readers inside, or -1 for a writer.
THEOREM LockWordCorrect == Spec => []LockWord
BY Invariance, IInvImplies, PTL
-----------------------------------------------------------------------------
(***************************************************************************)
(* The increments a writer has made, as pairs of writer and iteration: its *)
(* iterations are numbered COUNT, ..., 1, the way left counts them.  val   *)
(* is their number, since a writer about to write has read the current     *)
(* val, and pairs are added one at a time, never twice.                    *)
(***************************************************************************)
Made == {p \in Writer \X (1 .. COUNT) : p[2] > left[p[1]] \/ (p[2] = left[p[1]] /\ pc[p[1]] = "unlock")}

Counted ==
    /\ val = Cardinality(Made)
    /\ \A t \in Writer : pc[t] = "write" => old[t] = val

\* There are no more increments than writers times rounds.
LEMMA MadeFinite ==
    /\ IsFiniteSet(Made) /\ Cardinality(Made) \in Nat
    /\ Cardinality(Writer \X (1 .. COUNT)) = Cardinality(Writer) * COUNT
<1>1. IsFiniteSet(1 .. COUNT) /\ Cardinality(1 .. COUNT) = COUNT
  BY FS_Interval, SharedMutexAssumption
<1>2. IsFiniteSet(Writer \X (1 .. COUNT))
      /\ Cardinality(Writer \X (1 .. COUNT)) = Cardinality(Writer) * Cardinality(1 .. COUNT)
  BY ZenonT(30), <1>1, FS_Product, SharedMutexAssumption
<1>3. Made \subseteq Writer \X (1 .. COUNT)
  BY DEF Made
<1> QED
  BY <1>1, <1>2, <1>3, FS_Subset, FS_CardinalityType

\* Nothing is counted at the start.
LEMMA InitCounted == Init => Counted
<1> SUFFICES ASSUME Init PROVE Counted
  OBVIOUS
<1>1. Made = {}
  BY SharedMutexAssumption DEF Init, Made, Thread
<1> QED
  BY <1>1, FS_EmptySet DEF Init, Counted, Thread

\* A step that makes no increment and leaves the writers' copies alone.
LEMMA NotCounted ==
    ASSUME Counted, Made' = Made, val' = val,
           \A t \in Writer : pc'[t] = "write" => pc[t] = "write" /\ old'[t] = old[t]
    PROVE  Counted'
BY DEF Counted

\* A reader changes nothing of the writers.
LEMMA ReaderCounts ==
    ASSUME IInv, Counted, NEW t \in Thread,
           LockSharedLoad(t) \/ LockSharedCas(t) \/ UnlockSharedLoad(t) \/ UnlockSharedCas(t)
    PROVE  Counted'
<1>1. t \notin Writer
  BY SharedMutexAssumption
     DEF IInv, Sections, Thread, LockSharedLoad, LockSharedCas, UnlockSharedLoad, UnlockSharedCas
<1>2. val' = val /\ \A w \in Writer : pc'[w] = pc[w] /\ old'[w] = old[w] /\ left'[w] = left[w]
  BY <1>1 DEF IInv, Basic, Thread, Goto, LockSharedLoad, LockSharedCas, UnlockSharedLoad, UnlockSharedCas
<1>3. Made' = Made
  BY <1>2 DEF Made
<1> QED
  BY <1>2, <1>3, NotCounted

\* The writer that writes val is the only one with a copy of it.
LEMMA WriteCounts ==
    ASSUME IInv, Counted, NEW t \in Thread, WriteVal(t) PROVE Counted'
<1>1. t \in Writer /\ t \in Writers /\ left[t] \in 1 .. COUNT
  BY SharedMutexAssumption DEF IInv, Basic, Sections, Thread, WriteVal, Writers
<1>2. val' = val + 1
  BY <1>1 DEF WriteVal, Counted
<1>3. \A w \in Writer : w # t => pc'[w] = pc[w] /\ pc[w] # "write"
  BY <1>1 DEF IInv, Basic, Thread, AtMostOne, Writers, WriteVal, Goto
<1>4. pc'[t] = "unlock" /\ pc[t] = "write" /\ left' = left
  BY <1>1 DEF IInv, Basic, Thread, WriteVal, Goto
<1>5. <<t, left[t]>> \notin Made
  BY <1>1, <1>4 DEF Made, IInv, Basic
<1>6. Made' = Made \cup {<<t, left[t]>>}
  BY <1>1, <1>3, <1>4 DEF Made
<1>7. Cardinality(Made') = Cardinality(Made) + 1
  BY ZenonT(30), <1>5, <1>6, MadeFinite, FS_AddElement
<1> QED
  BY <1>2, <1>3, <1>4, <1>7 DEF Counted

\* A writer outside WriteVal makes no increment, and reads val when it takes its copy.
LEMMA WriterCounts ==
    ASSUME IInv, Counted, NEW t \in Thread, Lock(t) \/ ReadVal(t) \/ Unlock(t) PROVE Counted'
<1>1. t \in Writer /\ val' = val
  BY SharedMutexAssumption DEF IInv, Sections, Thread, Lock, ReadVal, Unlock
<1>2. \A w \in Writer : w # t => pc'[w] = pc[w] /\ old'[w] = old[w] /\ left'[w] = left[w]
  BY <1>1 DEF IInv, Basic, Thread, Lock, ReadVal, Unlock, Goto
<1>3. left[t] \in Nat
  BY <1>1 DEF IInv, Basic, Thread
<1>4. CASE Lock(t)
  <2>1. pc[t] = "outside" /\ pc'[t] = "exclusive" /\ left' = left
    BY <1>1, <1>4 DEF Lock, Goto, IInv, Basic, Thread
  <2>2. Made' = Made
    BY <1>2, <2>1 DEF Made
  <2> QED
    BY <1>1, <1>2, <2>1, <2>2, NotCounted
<1>5. CASE ReadVal(t)
  <2>1. pc[t] = "exclusive" /\ pc'[t] = "write" /\ left' = left /\ old'[t] = val
    BY <1>1, <1>5 DEF ReadVal, Goto, IInv, Basic, Thread
  <2>2. Made' = Made
    BY <1>2, <2>1 DEF Made
  <2> QED
    BY <1>1, <1>2, <2>1, <2>2 DEF Counted
<1>6. CASE Unlock(t)
  <2>1. pc[t] = "unlock" /\ pc'[t] = "outside" /\ left'[t] = left[t] - 1
    BY <1>1, <1>6 DEF Unlock, Goto, IInv, Basic, Thread
  <2>2. Made' = Made
    BY <1>2, <1>3, <2>1 DEF Made
  <2> QED
    BY <1>1, <1>2, <2>1, <2>2, NotCounted
<1> QED
  BY <1>4, <1>5, <1>6

\* val is the number of increments made, in every behaviour.
LEMMA CountedAlways == Init /\ [][Next]_vars => []Counted
<1>1. IInv /\ Counted /\ [Next]_vars => Counted'
  <2> SUFFICES ASSUME IInv, Counted, [Next]_vars PROVE Counted'
    OBVIOUS
  <2>1. CASE UNCHANGED vars
    BY <2>1 DEF vars, Counted, Made
  <2>2. CASE Next
    BY <2>2, ReaderCounts, WriteCounts, WriterCounts DEF Next, Step
  <2> QED
    BY <2>1, <2>2
<1> QED
  BY <1>1, InitCounted, Invariance, PTL DEF Spec

\* When all threads are joined, val is the number of writers times the rounds: no
\* increment is lost, although val++ is a read and a write.
THEOREM IncrementsCount == Spec => []NoLostIncrement
<1>1. Counted => NoLostIncrement
  <2> SUFFICES ASSUME Counted, Joined PROVE val = Cardinality(Writer) * COUNT
    BY DEF NoLostIncrement
  <2>1. Made = Writer \X (1 .. COUNT)
    BY SharedMutexAssumption DEF Made, Joined, Thread
  <2> QED
    BY <2>1, MadeFinite DEF Counted
<1> QED
  BY <1>1, CountedAlways, PTL DEF Spec
-----------------------------------------------------------------------------
(***************************************************************************)
(* The spin locks.  At most one thread is between its exchange and its     *)
(* store, and locked says whether there is one; value is the number of     *)
(* increments made, counted as above.                                      *)
(***************************************************************************)
Inside == {t \in Contender : place[t] \in {"read", "write", "release"}}

Added == {p \in Contender \X (1 .. COUNT) :
            p[2] > turns[p[1]] \/ (p[2] = turns[p[1]] /\ place[p[1]] = "release")}

SpinTypes ==
    /\ readSpin \in BOOLEAN /\ locked \in BOOLEAN /\ value \in Nat
    /\ place \in [Contender -> {"lock", "spin", "read", "write", "release"}]
    /\ copy \in [Contender -> Nat]
    /\ turns \in [Contender -> 0 .. COUNT]

SpinInv ==
    /\ SpinTypes
    /\ \A t \in Contender : place[t] # "lock" => turns[t] > 0
    /\ \A t, u \in Inside : t = u
    /\ locked <=> Inside # {}
    /\ value = Cardinality(Added)
    /\ \A t \in Contender : place[t] = "write" => copy[t] = value

\* There are no more increments than threads times rounds.
LEMMA AddedFinite ==
    /\ IsFiniteSet(Added) /\ Cardinality(Added) \in Nat
    /\ Cardinality(Contender \X (1 .. COUNT)) = Cardinality(Contender) * COUNT
<1>1. IsFiniteSet(1 .. COUNT) /\ Cardinality(1 .. COUNT) = COUNT
  BY FS_Interval, SharedMutexAssumption
<1>2. IsFiniteSet(Contender \X (1 .. COUNT))
      /\ Cardinality(Contender \X (1 .. COUNT)) = Cardinality(Contender) * Cardinality(1 .. COUNT)
  BY ZenonT(30), <1>1, FS_Product, SpinlockAssumption
<1>3. Added \subseteq Contender \X (1 .. COUNT)
  BY DEF Added
<1> QED
  BY <1>1, <1>2, <1>3, FS_Subset, FS_CardinalityType

\* The lock is free and nothing is counted at the start.
LEMMA SpinInitHolds == SpinInit => SpinInv
<1> SUFFICES ASSUME SpinInit PROVE SpinInv
  OBVIOUS
<1>1. Added = {} /\ Inside = {}
  BY SharedMutexAssumption DEF SpinInit, Added, Inside
<1>2. SpinTypes
  <2>1. turns \in [Contender -> 0 .. COUNT] /\ copy \in [Contender -> Nat] /\ value \in Nat
    BY SharedMutexAssumption DEF SpinInit
  <2>2. readSpin \in BOOLEAN /\ locked \in BOOLEAN
    BY Zenon DEF SpinInit
  <2>3. place \in [Contender -> {"lock", "spin", "read", "write", "release"}]
    BY DEF SpinInit
  <2> QED
    BY <2>1, <2>2, <2>3 DEF SpinTypes
<1> QED
  BY <1>1, <1>2, FS_EmptySet DEF SpinInit, SpinInv

\* A thread enters by an exchange that found the lock free, or waits.
LEMMA ExchangeStep == ASSUME SpinInv, NEW t \in Contender, Exchange(t) PROVE SpinInv'
<1>1. PICK l \in {"read", "spin", "lock"} :
        place' = [place EXCEPT ![t] = l] /\ (l = "read" <=> ~locked)
  BY ZenonT(30) DEF Exchange, Move, SpinInv, SpinTypes
<1>2. SpinTypes'
  BY <1>1 DEF SpinInv, SpinTypes, Exchange
<1>3. Inside' = IF locked THEN Inside ELSE {t}
  BY <1>1 DEF SpinInv, SpinTypes, Inside, Exchange
<1>4. Added' = Added
  BY <1>1 DEF SpinInv, SpinTypes, Added, Exchange
<1>5. \A u \in Contender : place'[u] # "lock" => turns'[u] > 0
  BY <1>1 DEF SpinInv, SpinTypes, Exchange
<1>6. \A u \in Contender : place'[u] = "write" => place[u] = "write"
  BY <1>1 DEF SpinInv, SpinTypes
<1> QED
  BY <1>2, <1>3, <1>4, <1>5, <1>6 DEF SpinInv, Exchange

\* A thread that stops waiting is not inside yet; one that reads gets the current value.
LEMMA WaitReadStep == ASSUME SpinInv, NEW t \in Contender, Spin(t) \/ Read(t) PROVE SpinInv'
<1>1. SpinTypes'
  BY DEF SpinInv, SpinTypes, Spin, Read, Move
<1>2. Inside' = Inside
  BY DEF SpinInv, SpinTypes, Inside, Spin, Read, Move
<1>3. Added' = Added
  BY DEF SpinInv, SpinTypes, Added, Spin, Read, Move
<1>4. \A u \in Contender : place'[u] # "lock" => turns'[u] > 0
  BY DEF SpinInv, SpinTypes, Spin, Read, Move
<1>5. \A u \in Contender : place'[u] = "write" => copy'[u] = value
  BY DEF SpinInv, SpinTypes, Spin, Read, Move
<1> QED
  BY <1>1, <1>2, <1>3, <1>4, <1>5 DEF SpinInv, Spin, Read

\* The one thread inside adds the next increment.
LEMMA WriteStep == ASSUME SpinInv, NEW t \in Contender, Write(t) PROVE SpinInv'
<1>1. SpinTypes'
  BY DEF SpinInv, SpinTypes, Write, Move
<1>2. Inside' = Inside /\ t \in Inside
  BY DEF SpinInv, SpinTypes, Inside, Write, Move
<1>3. turns[t] \in 1 .. COUNT /\ turns' = turns /\ value' = value + 1
  BY DEF SpinInv, SpinTypes, Write
<1>4. \A u \in Contender : u # t => place'[u] = place[u] /\ place[u] # "write"
  BY <1>2 DEF SpinInv, SpinTypes, Inside, Write, Move
<1>5. place[t] = "write" /\ place'[t] = "release"
  BY DEF SpinInv, SpinTypes, Write, Move
<1>6. <<t, turns[t]>> \notin Added
  BY <1>3, <1>5 DEF Added
<1>7. Added' = Added \cup {<<t, turns[t]>>}
  BY <1>3, <1>4, <1>5 DEF Added
<1>8. Cardinality(Added') = Cardinality(Added) + 1
  BY ZenonT(30), <1>6, <1>7, AddedFinite, FS_AddElement
<1>9. \A u \in Contender : place'[u] # "lock" => turns'[u] > 0
  BY <1>3, <1>4, <1>5 DEF SpinInv
<1> QED
  BY <1>1, <1>2, <1>3, <1>4, <1>5, <1>8, <1>9 DEF SpinInv, Write

\* The one thread inside leaves.
LEMMA ReleaseStep == ASSUME SpinInv, NEW t \in Contender, Release(t) PROVE SpinInv'
<1>1. turns[t] \in 1 .. COUNT /\ turns'[t] = turns[t] - 1 /\ \A u \in Contender : u # t => turns'[u] = turns[u]
  BY DEF SpinInv, SpinTypes, Release
<1>2. place[t] = "release" /\ place'[t] = "lock" /\ \A u \in Contender : u # t => place'[u] = place[u]
  BY DEF SpinInv, SpinTypes, Release, Move
<1>3. SpinTypes'
  <2>1. turns' \in [Contender -> 0 .. COUNT]
    BY <1>1, SharedMutexAssumption DEF SpinInv, SpinTypes, Release
  <2> QED
    BY ZenonT(30), <2>1 DEF SpinInv, SpinTypes, Release, Move
<1>4. Inside' = {}
  BY <1>2 DEF SpinInv, Inside
<1>5. Added' = Added
  BY <1>1, <1>2 DEF Added
<1>6. \A u \in Contender : place'[u] # "lock" => turns'[u] > 0
  BY <1>1, <1>2 DEF SpinInv
<1>7. \A u \in Contender : place'[u] = "write" => place[u] = "write"
  BY <1>2
<1> QED
  BY <1>3, <1>4, <1>5, <1>6, <1>7 DEF SpinInv, Release

\* The invariant holds in every behaviour.
LEMMA SpinInvariant == SpinSpec => []SpinInv
<1>1. SpinInv /\ [\E t \in Contender : SpinStep(t)]_spinVars => SpinInv'
  <2> SUFFICES ASSUME SpinInv, [\E t \in Contender : SpinStep(t)]_spinVars PROVE SpinInv'
    OBVIOUS
  <2>1. CASE UNCHANGED spinVars
    BY <2>1 DEF spinVars, SpinInv, SpinTypes, Inside, Added
  <2>2. CASE \E t \in Contender : SpinStep(t)
    BY <2>2, ExchangeStep, WaitReadStep, WriteStep, ReleaseStep DEF SpinStep
  <2> QED
    BY <2>1, <2>2
<1> QED
  BY <1>1, SpinInitHolds, PTL DEF SpinSpec

\* assert(value == contention_times * contention_level) holds for each of the spin locks,
\* whatever the number of threads and rounds.
THEOREM SpinSumCorrect == SpinSpec => []Sum
<1>1. SpinInv => Sum
  <2> SUFFICES ASSUME SpinInv, SpinJoined PROVE value = COUNT * Cardinality(Contender)
    BY DEF Sum
  <2>1. Added = Contender \X (1 .. COUNT)
    BY SharedMutexAssumption DEF Added, SpinJoined
  <2>2. Cardinality(Contender) \in Nat /\ COUNT \in Nat
    BY SpinlockAssumption, SharedMutexAssumption, FS_CardinalityType
  <2>3. value = Cardinality(Contender) * COUNT
    BY <2>1, AddedFinite DEF SpinInv
  <2> QED
    BY <2>2, <2>3
<1> QED
  BY <1>1, SpinInvariant, PTL

\* Neither lock test loses an increment.
THEOREM EveryIncrementCounted == Spec /\ SpinSpec => []EveryIncrementCounts
BY IncrementsCount, SpinSumCorrect, PTL DEF EveryIncrementCounts
=============================================================================
