---------------------------- MODULE LockfreeQueue ----------------------------
(***************************************************************************)
(* Queue (Concurrency/Queue_lockfree.cpp): a Michael-Scott queue.  _head   *)
(* points at a dummy node, _tail at the last node or a little behind it.   *)
(* Nodes come from a Freelist, used here as the NodePool it implements.    *)
(* The constructor of a node sets its next field to null with tag 0.       *)
(***************************************************************************)
EXTENDS TaggedPtr, Sequences, FiniteSets

CONSTANTS
    Thread,
    FIRST_TAG,   \* the tag of the dummy: 0x5a5a
    MAX_PUSHES,  \* bound on calls of push; the i-th one pushes i
    MAX_POPS     \* bound on calls of pop

VARIABLES
    head, tail,         \* _head, _tail
    data, next,         \* the fields of each node
    fresh, free, owned, \* the Freelist: see NodePool
    pc,
    node,               \* the node a push has allocated
    hd, tl, nx,         \* the local variables head, tail and next
    opt,                \* the element a pop has copied
    pushes, pops,       \* calls made
    popped              \* the elements returned, in order of their exchanges

memory == <<fresh, free, owned>>
locals == <<node, hd, tl, nx, opt>>
vars == <<head, tail, data, next, memory, pc, locals, pushes, pops, popped>>

Freelist == INSTANCE NodePool WITH Thread <- {"queue"}

Init ==
    \E dummy \in Node :
        /\ \A m \in Node : dummy <= m
        /\ head = Tag(dummy, FIRST_TAG) /\ tail = Tag(dummy, FIRST_TAG)
        /\ data = [n \in Node |-> 0]
        /\ next = [n \in Node |-> NoTag(Null)]
        /\ fresh = Node \ {dummy} /\ free = <<>>
        /\ owned = [q \in {"queue"} |-> {dummy}]
        /\ pc = [p \in Thread |-> "idle"]
        /\ node = [p \in Thread |-> NoTag(Null)]
        /\ hd = [p \in Thread |-> NoTag(Null)]
        /\ tl = [p \in Thread |-> NoTag(Null)]
        /\ nx = [p \in Thread |-> NoTag(Null)]
        /\ opt = [p \in Thread |-> 0]
        /\ pushes = 0 /\ pops = 0
        /\ popped = <<>>

Goto(p, label) == pc' = [pc EXCEPT ![p] = label]
Set(f, p, v) == [f EXCEPT ![p] = v]

\* _tail.compare_exchange_strong(tail, to with the tag after tail's)
AdvanceTail(p, to) ==
    tail' = IF tail = tl[p] THEN Tag(to.ptr, next_tag(tl[p])) ELSE tail
-----------------------------------------------------------------------------
\* _pool.allocate and _pool.construct
PushAllocate(p) ==
    /\ pc[p] = "idle" /\ pushes < MAX_PUSHES
    /\ \/ Freelist!Recycle("queue")
       \/ \E n \in Node : Freelist!FromHeap("queue", n)
    /\ LET n == CHOOSE n \in Node : n \in owned'["queue"] \ owned["queue"]
       IN  /\ node' = Set(node, p, NoTag(n))
           /\ data' = [data EXCEPT ![n] = pushes + 1]
           /\ next' = [next EXCEPT ![n] = NoTag(Null)]
    /\ pushes' = pushes + 1
    /\ Goto(p, "push_tail")
    /\ UNCHANGED <<head, tail, hd, tl, nx, opt, pops, popped>>

PushLoadTail(p) ==
    /\ pc[p] = "push_tail"
    /\ tl' = Set(tl, p, tail)
    /\ Goto(p, "push_next")
    /\ UNCHANGED <<head, tail, data, next, memory, node, hd, nx, opt, pushes, pops, popped>>

PushLoadNext(p) ==
    /\ pc[p] = "push_next"
    /\ nx' = Set(nx, p, next[tl[p].ptr])
    /\ Goto(p, "push_check")
    /\ UNCHANGED <<head, tail, data, next, memory, node, hd, tl, opt, pushes, pops, popped>>

\* tail2 is loaded; tail != tail2 starts over; next == nullptr is L1
PushCheck(p) ==
    /\ pc[p] = "push_check"
    /\ Goto(p, IF NotEqual(tl[p], tail) THEN "push_tail"
               ELSE IF nx[p].ptr = Null THEN "push_link" ELSE "push_help")
    /\ UNCHANGED <<head, tail, data, next, memory, locals, pushes, pops, popped>>

\* mutant: the exchange of tail->next is a plain store
PushLinkStore(p) ==
    /\ pc[p] = "push_link"
    /\ next' = [next EXCEPT ![tl[p].ptr] = Tag(node[p].ptr, next_tag(nx[p]))]
    /\ Goto(p, "push_swing")
    /\ UNCHANGED <<head, tail, data, memory, locals, pushes, pops, popped>>

\* L2: compare_exchange_weak on tail->next
PushLink(p) ==
    /\ pc[p] = "push_link"
    /\ \/ /\ next[tl[p].ptr] = nx[p]
          /\ next' = [next EXCEPT ![tl[p].ptr] = Tag(node[p].ptr, next_tag(nx[p]))]
          /\ Goto(p, "push_swing")
       \/ Goto(p, "push_tail") /\ UNCHANGED next
    /\ UNCHANGED <<head, tail, data, memory, locals, pushes, pops, popped>>

\* L3
PushSwing(p) ==
    /\ pc[p] = "push_swing"
    /\ AdvanceTail(p, node[p])
    /\ Goto(p, "idle")
    /\ UNCHANGED <<head, data, next, memory, locals, pushes, pops, popped>>

\* L4
PushHelp(p) ==
    /\ pc[p] = "push_help"
    /\ AdvanceTail(p, nx[p])
    /\ Goto(p, "push_tail")
    /\ UNCHANGED <<head, data, next, memory, locals, pushes, pops, popped>>
-----------------------------------------------------------------------------
PopBegin(p) ==
    /\ pc[p] = "idle" /\ pops < MAX_POPS
    /\ pops' = pops + 1
    /\ Goto(p, "pop_head")
    /\ UNCHANGED <<head, tail, data, next, memory, locals, pushes, popped>>

PopLoadHead(p) ==
    /\ pc[p] = "pop_head"
    /\ hd' = Set(hd, p, head)
    /\ Goto(p, "pop_tail")
    /\ UNCHANGED <<head, tail, data, next, memory, node, tl, nx, opt, pushes, pops, popped>>

PopLoadTail(p) ==
    /\ pc[p] = "pop_tail"
    /\ tl' = Set(tl, p, tail)
    /\ Goto(p, "pop_next")
    /\ UNCHANGED <<head, tail, data, next, memory, node, hd, nx, opt, pushes, pops, popped>>

PopLoadNext(p) ==
    /\ pc[p] = "pop_next"
    /\ nx' = Set(nx, p, next[hd[p].ptr])
    /\ Goto(p, "pop_check")
    /\ UNCHANGED <<head, tail, data, next, memory, node, hd, tl, opt, pushes, pops, popped>>

\* Where a pop goes from what it has loaded; "idle" is the return of nullopt.
PopBranch(p) ==
    IF hd[p].ptr = tl[p].ptr
    THEN IF nx[p].ptr = Null THEN "idle" ELSE "pop_help"
    ELSE IF nx[p].ptr = Null THEN "pop_head" ELSE "pop_copy"

\* head2 is loaded; head != head2 starts over
PopCheck(p) ==
    /\ pc[p] = "pop_check"
    /\ Goto(p, IF NotEqual(hd[p], head) THEN "pop_head" ELSE PopBranch(p))
    /\ UNCHANGED <<head, tail, data, next, memory, locals, pushes, pops, popped>>

PopHelp(p) ==
    /\ pc[p] = "pop_help"
    /\ AdvanceTail(p, nx[p])
    /\ Goto(p, "pop_head")
    /\ UNCHANGED <<head, data, next, memory, locals, pushes, pops, popped>>

\* The copy is made before the exchange: it may read a node in use elsewhere.
PopCopy(p) ==
    /\ pc[p] = "pop_copy"
    /\ opt' = Set(opt, p, data[nx[p].ptr])
    /\ Goto(p, "pop_cas")
    /\ UNCHANGED <<head, tail, data, next, memory, node, hd, tl, nx, pushes, pops, popped>>

\* mutant: the exchange of _head is a plain store
PopStore(p) ==
    /\ pc[p] = "pop_cas"
    /\ head' = Tag(nx[p].ptr, next_tag(hd[p]))
    /\ popped' = Append(popped, opt[p])
    /\ Goto(p, "pop_free")
    /\ UNCHANGED <<tail, data, next, memory, locals, pushes, pops>>

PopCas(p) ==
    /\ pc[p] = "pop_cas"
    /\ \/ /\ head = hd[p]
          /\ head' = Tag(nx[p].ptr, next_tag(hd[p]))
          /\ popped' = Append(popped, opt[p])
          /\ Goto(p, "pop_free")
       \/ Goto(p, "pop_head") /\ UNCHANGED <<head, popped>>
    /\ UNCHANGED <<tail, data, next, memory, locals, pushes, pops>>

\* destroy and deallocate; the Freelist's link overwrites data, not next
PopFree(p) ==
    /\ pc[p] = "pop_free"
    /\ Freelist!Return("queue", hd[p].ptr)
    /\ data' = [data EXCEPT ![hd[p].ptr] = 0]
    /\ Goto(p, "idle")
    /\ UNCHANGED <<head, tail, next, locals, pushes, pops, popped>>

Step(p) ==
    \/ PushAllocate(p) \/ PushLoadTail(p) \/ PushLoadNext(p) \/ PushCheck(p)
    \/ PushLink(p) \/ PushSwing(p) \/ PushHelp(p)
    \/ PopBegin(p) \/ PopLoadHead(p) \/ PopLoadTail(p) \/ PopLoadNext(p) \/ PopCheck(p)
    \/ PopHelp(p) \/ PopCopy(p) \/ PopCas(p) \/ PopFree(p)

Next == \E p \in Thread : Step(p)

Spec == Init /\ [][Next]_vars
-----------------------------------------------------------------------------
\* The nodes linked from _head, the dummy first; Null after the last one.
Walk[k \in 0 .. Cardinality(Node)] ==
    IF k = 0 THEN head.ptr
    ELSE IF Walk[k - 1] = Null THEN Null ELSE next[Walk[k - 1]].ptr

Reachable == {Walk[k] : k \in DOMAIN Walk} \ {Null}
Contents == {data[n] : n \in Reachable \ {head.ptr}}
Popped == {popped[i] : i \in DOMAIN popped}

\* No element is returned twice, and only what was pushed is returned, although
\* pop copies it from a node that others may recycle.
ReturnedOnce ==
    /\ Popped \subseteq 1 .. pushes
    /\ Cardinality(Popped) = Len(popped)

\* With no call in progress, the queue holds exactly what was pushed and not
\* returned: the sum the test checks.
NothingLost ==
    (\A p \in Thread : pc[p] = "idle") => Contents = (1 .. pushes) \ Popped

\* The node _tail points at and the nodes linked from _head are not in the pool.
NoReuseWhileLinked ==
    \A j \in 1 .. Len(free) : free[j] \notin Reachable \cup {tail.ptr}

\* "L1能确保原子性的append": a successful L2 appends to the queue, i.e. to a node
\* linked from _head.
AtomicAppend ==
    [][\A p \in Thread : pc[p] = "push_link" /\ pc'[p] = "push_swing"
        => tl[p].ptr \in Reachable]_vars
=============================================================================
