---------------------------- MODULE LockfreeStack ----------------------------
(***************************************************************************)
(* Stack (Concurrency/Stack_lockfree.cpp): a linked stack whose head is    *)
(* exchanged together with a tag.  Its nodes come from a Freelist, used    *)
(* here as the NodePool it implements, so a node that a slow pop still     *)
(* looks at may already be in use again.                                   *)
(***************************************************************************)
EXTENDS TaggedPtr, Sequences

CONSTANTS
    Pusher, Val, None,  \* the callers of the stack, its elements, and no element
    STACK_PUSHES        \* bound on successful exchanges of push

\* The tag of the head counts the pops: it must not come round.
ASSUME StackAssumption == None \notin Val /\ STACK_PUSHES \in Nat /\ STACK_PUSHES < TAGS

VARIABLES
    head,        \* _head
    data, next,  \* the fields of each node
    fresh, free, owned, \* the Freelist: see NodePool
    pc, ptr,     \* each thread's place, and the node it pushes
    old, new,    \* each thread's old_head and new_head
    pushes,      \* successful exchanges of push
    chain        \* history: the nodes pushed and not yet popped, the last first

memory == <<fresh, free, owned>>
vars == <<head, data, next, memory, pc, ptr, old, new, pushes, chain>>

\* All calls of allocate and deallocate come from the stack: one user.
Freelist == INSTANCE NodePool WITH Thread <- {"stack"}

Init ==
    /\ head = NoTag(Null)
    /\ data = [n \in Node |-> None]
    /\ next = [n \in Node |-> NoTag(Null)]
    /\ Freelist!Init
    /\ pc = [p \in Pusher |-> "idle"]
    /\ ptr = [p \in Pusher |-> Null]
    /\ old = [p \in Pusher |-> NoTag(Null)]
    /\ new = [p \in Pusher |-> NoTag(Null)]
    /\ pushes = 0
    /\ chain = <<>>

Goto(p, label) == pc' = [pc EXCEPT ![p] = label]

Load(p, label) ==
    /\ old' = [old EXCEPT ![p] = head]
    /\ Goto(p, label)
-----------------------------------------------------------------------------
\* _pool.allocate and _pool.construct: data is v, next is nullptr with tag 0
PushAllocate(p, v) ==
    /\ pc[p] = "idle"
    /\ \/ Freelist!Recycle("stack")
       \/ \E n \in Node : Freelist!FromHeap("stack", n)
    /\ LET n == CHOOSE n \in Node : n \in owned'["stack"] \ owned["stack"]
       IN  /\ ptr' = [ptr EXCEPT ![p] = n]
           /\ data' = [data EXCEPT ![n] = v]
           /\ next' = [next EXCEPT ![n] = NoTag(Null)]
    /\ Goto(p, "push_load")
    /\ UNCHANGED <<head, old, new, pushes, chain>>

PushLoad(p) ==
    /\ pc[p] = "push_load"
    /\ Load(p, "push_link")
    /\ UNCHANGED <<head, data, next, memory, ptr, new, pushes, chain>>

\* new_head {ptr, old_head's tag}; new_head->next = old_head
PushLink(p) ==
    /\ pc[p] = "push_link"
    /\ new' = [new EXCEPT ![p] = Tag(ptr[p], old[p].tag)]
    /\ next' = [next EXCEPT ![ptr[p]] = old[p]]
    /\ Goto(p, "push_cas")
    /\ UNCHANGED <<head, data, memory, ptr, old, pushes, chain>>

\* compare_exchange_weak; the node belongs to the stack from here on
PushCas(p) ==
    /\ pc[p] = "push_cas"
    /\ \/ /\ head = old[p] /\ pushes < STACK_PUSHES
          /\ head' = new[p]
          /\ pushes' = pushes + 1
          /\ chain' = <<ptr[p]>> \o chain
          /\ Goto(p, "idle")
          /\ UNCHANGED old
       \/ Load(p, "push_link") /\ UNCHANGED <<head, pushes, chain>>
    /\ UNCHANGED <<data, next, memory, ptr, new>>
-----------------------------------------------------------------------------
PopLoad(p) ==
    /\ pc[p] = "idle"
    /\ Load(p, "pop_read")
    /\ UNCHANGED <<head, data, next, memory, ptr, new, pushes, chain>>

\* nullopt, or new_head = old_head->next with the tag advanced
PopRead(p) ==
    /\ pc[p] = "pop_read"
    /\ \/ old[p].ptr = Null /\ Goto(p, "idle") /\ UNCHANGED new
       \/ /\ old[p].ptr # Null
          /\ new' = [new EXCEPT ![p] = Tag(next[old[p].ptr].ptr, next_tag(old[p]))]
          /\ Goto(p, "pop_cas")
    /\ UNCHANGED <<head, data, next, memory, ptr, old, pushes, chain>>

\* mutant: a failed exchange is taken for a successful one
PopCasIgnored(p) ==
    /\ pc[p] = "pop_cas"
    /\ head' = IF head = old[p] THEN new[p] ELSE head
    /\ chain' = IF head = old[p] THEN SubSeq(chain, 2, Len(chain)) ELSE chain
    /\ Goto(p, "pop_take")
    /\ UNCHANGED <<data, next, memory, ptr, old, new, pushes>>

PopCas(p) ==
    /\ pc[p] = "pop_cas"
    /\ \/ /\ head = old[p]
          /\ head' = new[p]
          /\ chain' = SubSeq(chain, 2, Len(chain))
          /\ Goto(p, "pop_take")
          /\ UNCHANGED old
       \/ Load(p, "pop_read") /\ UNCHANGED <<head, chain>>
    /\ UNCHANGED <<data, next, memory, ptr, new, pushes>>

\* Copy data, destroy, deallocate.  The freed node's first word, where data was,
\* is the Freelist's link now; next keeps its value.
PopTake(p) ==
    /\ pc[p] = "pop_take"
    /\ LET n == old[p].ptr
       IN  /\ Freelist!Return("stack", n)
           /\ data' = [data EXCEPT ![n] = None]
    /\ Goto(p, "idle")
    /\ UNCHANGED <<head, next, ptr, old, new, pushes, chain>>

Next ==
    \E p \in Pusher :
        \/ \E v \in Val : PushAllocate(p, v)
        \/ PushLoad(p) \/ PushLink(p) \/ PushCas(p)
        \/ PopLoad(p) \/ PopRead(p) \/ PopCas(p) \/ PopTake(p)

Spec == Init /\ [][Next]_vars
-----------------------------------------------------------------------------
\* The nodes linked from _head are those pushed and not yet popped.
ChainLinked ==
    LET At(k) == IF k \in 1 .. Len(chain) THEN chain[k] ELSE Null
    IN  head.ptr = At(1) /\ \A k \in 1 .. Len(chain) : next[chain[k]].ptr = At(k + 1)

\* A node of the stack is not in the pool, is linked once, and belongs to no
\* push or pop in progress: memory is reused only after the last link is gone.
NoReuseWhileLinked ==
    \A k \in 1 .. Len(chain) :
        /\ \A j \in 1 .. Len(chain) : chain[j] = chain[k] => j = k
        /\ \A j \in 1 .. Len(free) : free[j] # chain[k]
        /\ \A p \in Pusher :
            /\ pc[p] \in {"push_load", "push_link", "push_cas"} => ptr[p] # chain[k]
            /\ pc[p] = "pop_take" => old[p].ptr # chain[k]

Contents == [k \in 1 .. Len(chain) |-> data[chain[k]]]
Popped == [p \in Pusher |-> IF pc[p] = "pop_take" THEN data[old[p].ptr] ELSE None]

Lifo == INSTANCE Containers WITH
    Thread <- Pusher, Capacity <- 0, items <- Contents, hand <- Popped

\* push and pop are atomic operations of a stack: nothing is lost, doubled or
\* reordered, and the element a pop copies out is the one it took off.
LifoSpec == Lifo!StackSpec

\* Memory that the stack links is not in use for anything else, and what it links
\* is what was pushed and not yet popped.
NodesSafe == NoReuseWhileLinked /\ ChainLinked
=============================================================================
