------------------------------ MODULE Freelist ------------------------------
(***************************************************************************)
(* Freelist (Concurrency/Freelist.hpp) over Tagged_ptr                     *)
(* (Concurrency/Tagged_ptr.hpp): a stack of returned nodes, linked through *)
(* their own memory.  The head carries a 16-bit tag that every allocate    *)
(* increments, so that a compare-exchange prepared from an outdated head   *)
(* fails even if the same node is on top again.                            *)
(*                                                                         *)
(* allocate reads old_head->next without owning the node.  If the node has *)
(* been handed out meanwhile, the word it reads belongs to the owner: the  *)
(* read yields any value.                                                  *)
(***************************************************************************)
EXTENDS TaggedPtr, Sequences

CONSTANTS
    Allocator,  \* the callers of the Freelist
    MAX_ALLOCS  \* bound on successful exchanges of allocate

\* The tag of the head counts the allocations: it must not come round.
ASSUME ListAssumption == MAX_ALLOCS \in Nat /\ MAX_ALLOCS < TAGS

VARIABLES
    pool,             \* _pool
    link,             \* the next field of a node in the pool
    fFresh, fOwned,   \* nodes not handed out by the heap yet, and those each thread holds
    fPc, fOld, fNew,  \* each thread's place, old_head and new_head
    allocs,           \* successful exchanges of allocate
    fChain            \* history: the nodes returned and not yet handed out again, the last first

listVars == <<pool, link, fFresh, fOwned, fPc, fOld, fNew, allocs, fChain>>

ListInit ==
    /\ pool = NoTag(Null)
    /\ link = [nd \in Node |-> NoTag(Null)]
    /\ fFresh = Node
    /\ fOwned = [p \in Allocator |-> {}]
    /\ fPc = [p \in Allocator |-> "idle"]
    /\ fOld = [p \in Allocator |-> NoTag(Null)]
    /\ fNew = [p \in Allocator |-> NoTag(Null)]
    /\ allocs = 0
    /\ fChain = <<>>

ListGoto(p, label) == fPc' = [fPc EXCEPT ![p] = label]

\* _pool.load(acquire)
ListLoad(p, label) ==
    /\ fOld' = [fOld EXCEPT ![p] = pool]
    /\ ListGoto(p, label)

\* Custom_alloc::allocate(1), when the pool was seen empty
ListFromHeap(p) ==
    \E nd \in fFresh :
        /\ \A m \in fFresh : nd <= m
        /\ fFresh' = fFresh \ {nd}
        /\ fOwned' = [fOwned EXCEPT ![p] = @ \cup {nd}]

Owned(nd) == nd \in fFresh \/ \E p \in Allocator : nd \in fOwned[p]
-----------------------------------------------------------------------------
AllocateLoad(p) ==
    /\ fPc[p] = "idle"
    /\ ListLoad(p, "alloc_read")
    /\ UNCHANGED <<pool, link, fFresh, fOwned, fNew, allocs, fChain>>

\* The test for nullptr, or new_head = old_head->next with the tag advanced.
AllocateRead(p) ==
    /\ fPc[p] = "alloc_read"
    /\ \/ /\ fOld[p].ptr = Null
          /\ ListFromHeap(p)
          /\ ListGoto(p, "idle")
          /\ UNCHANGED fNew
       \/ /\ fOld[p].ptr # Null
          /\ \E word \in IF Owned(fOld[p].ptr) THEN Pointer(Node) ELSE {link[fOld[p].ptr].ptr} :
                fNew' = [fNew EXCEPT ![p] = Tag(word, next_tag(fOld[p]))]
          /\ ListGoto(p, "alloc_cas")
          /\ UNCHANGED <<fFresh, fOwned>>
    /\ UNCHANGED <<pool, link, fOld, allocs, fChain>>

\* compare_exchange_weak; a failure, spurious or not, reloads old_head.
AllocateCas(p) ==
    /\ fPc[p] = "alloc_cas"
    /\ \/ /\ pool = fOld[p] /\ allocs < MAX_ALLOCS
          /\ pool' = fNew[p]
          /\ fOwned' = [fOwned EXCEPT ![p] = @ \cup {fOld[p].ptr}]
          /\ allocs' = allocs + 1
          /\ fChain' = SubSeq(fChain, 2, Len(fChain))
          /\ ListGoto(p, "idle")
          /\ UNCHANGED fOld
       \/ ListLoad(p, "alloc_read") /\ UNCHANGED <<pool, fOwned, allocs, fChain>>
    /\ UNCHANGED <<link, fFresh, fNew>>
-----------------------------------------------------------------------------
\* deallocate(nd) begins; new_head_ptr is nd
DeallocateLoad(p, nd) ==
    /\ fPc[p] = "idle" /\ nd \in fOwned[p]
    /\ fNew' = [fNew EXCEPT ![p] = NoTag(nd)]
    /\ ListLoad(p, "dealloc_link")
    /\ UNCHANGED <<pool, link, fFresh, fOwned, allocs, fChain>>

\* new_head takes the tag of old_head, and its next is old_head
DeallocateLink(p) ==
    /\ fPc[p] = "dealloc_link"
    /\ fNew' = [fNew EXCEPT ![p].tag = fOld[p].tag]
    /\ link' = [link EXCEPT ![fNew[p].ptr] = fOld[p]]
    /\ ListGoto(p, "dealloc_cas")
    /\ UNCHANGED <<pool, fFresh, fOwned, fOld, allocs, fChain>>

DeallocateCas(p) ==
    /\ fPc[p] = "dealloc_cas"
    /\ \/ /\ pool = fOld[p]
          /\ pool' = fNew[p]
          /\ fOwned' = [fOwned EXCEPT ![p] = @ \ {fNew[p].ptr}]
          /\ fChain' = <<fNew[p].ptr>> \o fChain
          /\ ListGoto(p, "idle")
          /\ UNCHANGED fOld
       \/ ListLoad(p, "dealloc_link") /\ UNCHANGED <<pool, fOwned, fChain>>
    /\ UNCHANGED <<link, fFresh, fNew, allocs>>

ListNext ==
    \E p \in Allocator :
        \/ AllocateLoad(p) \/ AllocateRead(p) \/ AllocateCas(p)
        \/ \E nd \in Node : DeallocateLoad(p, nd)
        \/ DeallocateLink(p) \/ DeallocateCas(p)

ListSpec == ListInit /\ [][ListNext]_listVars
-----------------------------------------------------------------------------
\* The nodes linked from _pool are those returned and not yet handed out again.
ListLinked ==
    LET At(k) == IF k \in 1 .. Len(fChain) THEN fChain[k] ELSE Null
    IN  pool.ptr = At(1) /\ \A k \in 1 .. Len(fChain) : link[fChain[k]].ptr = At(k + 1)

Pool == INSTANCE NodePool WITH Thread <- Allocator, fresh <- fFresh, free <- fChain, owned <- fOwned

\* The tagged exchanges implement a last-in first-out pool of nodes.
PoolSpec == Pool!Spec
=============================================================================
