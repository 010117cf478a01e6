---------------------------- MODULE TwoLockQueue ----------------------------
(***************************************************************************)
(* Queue_v2 (Concurrency/Queue.cpp): a linked queue with a dummy at the    *)
(* tail, one mutex for each end.  push fills the dummy and appends a new   *)
(* one under _tail_mutex; pop_head compares _head with a copy of _tail     *)
(* and detaches the first node under _head_mutex only.                     *)
(***************************************************************************)
EXTENDS Integers, Sequences, FiniteSets

CONSTANTS
    Thread,
    MAX_PUSHES  \* bound on calls of push; the i-th one pushes i and allocates node i

Node == 0 .. MAX_PUSHES
Null == -1

VARIABLES
    head, tail,           \* _head, _tail
    data, next,           \* the fields of each node; data 0 is null
    headMutex, tailMutex, \* their holders, or "free"
    pc, node, copy,       \* each thread's place, node, and get_tail_copy
    pushes,               \* calls of push
    chain                 \* history: the nodes appended and not yet detached, the
                          \* dummy last

locks == <<headMutex, tailMutex>>
vars == <<head, tail, data, next, locks, pc, node, copy, pushes, chain>>

Init ==
    /\ head = 0 /\ tail = 0
    /\ data = [n \in Node |-> 0] /\ next = [n \in Node |-> Null]
    /\ headMutex = "free" /\ tailMutex = "free"
    /\ pc = [t \in Thread |-> "idle"]
    /\ node = [t \in Thread |-> Null] /\ copy = [t \in Thread |-> Null]
    /\ pushes = 0
    /\ chain = <<0>>

Goto(t, label) == pc' = [pc EXCEPT ![t] = label]
-----------------------------------------------------------------------------
\* push: the new dummy is made without a lock
PushAllocate(t) ==
    /\ pc[t] = "idle" /\ pushes < MAX_PUSHES
    /\ pushes' = pushes + 1
    /\ node' = [node EXCEPT ![t] = pushes + 1]
    /\ Goto(t, "push_lock")
    /\ UNCHANGED <<head, tail, data, next, locks, copy, chain>>

PushLock(t) ==
    /\ pc[t] = "push_lock" /\ tailMutex = "free"
    /\ tailMutex' = t
    /\ Goto(t, "push_data")
    /\ UNCHANGED <<head, tail, data, next, headMutex, node, copy, pushes, chain>>

\* mutant: the element goes into the new dummy
PushDataAhead(t) ==
    /\ pc[t] = "push_data"
    /\ data' = [data EXCEPT ![node[t]] = node[t]]
    /\ Goto(t, "push_next")
    /\ UNCHANGED <<head, tail, next, locks, node, copy, pushes, chain>>

PushData(t) ==
    /\ pc[t] = "push_data"
    /\ data' = [data EXCEPT ![tail] = node[t]]
    /\ Goto(t, "push_next")
    /\ UNCHANGED <<head, tail, next, locks, node, copy, pushes, chain>>

PushNext(t) ==
    /\ pc[t] = "push_next"
    /\ next' = [next EXCEPT ![tail] = node[t]]
    /\ Goto(t, "push_tail")
    /\ UNCHANGED <<head, tail, data, locks, node, copy, pushes, chain>>

\* _tail moves, and the guard releases the mutex
PushTail(t) ==
    /\ pc[t] = "push_tail"
    /\ tail' = next[tail]
    /\ chain' = Append(chain, next[tail])
    /\ tailMutex' = "free"
    /\ Goto(t, "idle")
    /\ UNCHANGED <<head, data, next, headMutex, node, copy, pushes>>
-----------------------------------------------------------------------------
\* try_pop is called
TryPop(t) ==
    /\ pc[t] = "idle"
    /\ Goto(t, "pop_lock")
    /\ UNCHANGED <<head, tail, data, next, locks, node, copy, pushes, chain>>

PopLock(t) ==
    /\ pc[t] = "pop_lock" /\ headMutex = "free"
    /\ headMutex' = t
    /\ Goto(t, "pop_tail")
    /\ UNCHANGED <<head, tail, data, next, tailMutex, node, copy, pushes, chain>>

\* get_tail_copy: one critical section of _tail_mutex inside that of _head_mutex
GetTailCopy(t) ==
    /\ pc[t] = "pop_tail" /\ tailMutex = "free"
    /\ copy' = [copy EXCEPT ![t] = tail]
    /\ Goto(t, "pop_compare")
    /\ UNCHANGED <<head, tail, data, next, locks, node, pushes, chain>>

\* mutant: the dummy is not recognised
PopCompareNext(t) ==
    /\ pc[t] = "pop_compare"
    /\ \/ head = copy[t] /\ next[head] = Null /\ headMutex' = "free" /\ Goto(t, "idle") /\ UNCHANGED node
       \/ next[head] # Null /\ node' = [node EXCEPT ![t] = head] /\ Goto(t, "pop_move") /\ UNCHANGED headMutex
    /\ UNCHANGED <<head, tail, data, next, tailMutex, copy, pushes, chain>>

\* Only the dummy is left: nullptr.  Otherwise h is the first node.
PopCompare(t) ==
    /\ pc[t] = "pop_compare"
    /\ \/ head = copy[t] /\ headMutex' = "free" /\ Goto(t, "idle") /\ UNCHANGED node
       \/ head # copy[t] /\ node' = [node EXCEPT ![t] = head] /\ Goto(t, "pop_move") /\ UNCHANGED headMutex
    /\ UNCHANGED <<head, tail, data, next, tailMutex, copy, pushes, chain>>

\* _head = std::move(h->next), and the guard releases the mutex
PopMove(t) ==
    /\ pc[t] = "pop_move"
    /\ head' = next[node[t]]
    /\ chain' = Tail(chain)
    /\ next' = [next EXCEPT ![node[t]] = Null]
    /\ headMutex' = "free"
    /\ Goto(t, "pop_data")
    /\ UNCHANGED <<tail, data, tailMutex, node, copy, pushes>>

\* try_pop moves the data out of the detached node without a lock
PopData(t) ==
    /\ pc[t] = "pop_data"
    /\ data' = [data EXCEPT ![node[t]] = 0]
    /\ Goto(t, "idle")
    /\ UNCHANGED <<head, tail, next, locks, node, copy, pushes, chain>>

Step(t) ==
    \/ PushAllocate(t) \/ PushLock(t) \/ PushData(t) \/ PushNext(t) \/ PushTail(t)
    \/ TryPop(t) \/ PopLock(t) \/ GetTailCopy(t) \/ PopCompare(t) \/ PopMove(t) \/ PopData(t)

Next == \E t \in Thread : Step(t)

Spec == Init /\ [][Next]_vars
-----------------------------------------------------------------------------
Pushing == {t \in Thread : pc[t] \in {"push_data", "push_next", "push_tail"}}
Popping == {t \in Thread : pc[t] \in {"pop_move", "pop_data"}}

\* The fields a push writes under one mutex and a pop reads under the other are
\* never those of one node: no data race between the two ends.
NoRace == \A t \in Pushing, u \in Popping : tail # node[u]

\* Two pops never have the same node.
SeparateNodes == \A t, u \in Popping : t # u => node[t] # node[u]

\* The list from _head to _tail is that of the nodes that were appended and not detached.
ChainLinked ==
    /\ chain # <<>> /\ chain[1] = head /\ chain[Len(chain)] = tail
    /\ \A i \in 1 .. Len(chain) - 1 : next[chain[i]] = chain[i + 1]
    /\ \A i, j \in 1 .. Len(chain) : chain[i] = chain[j] => i = j

\* What the list holds: the data of all nodes but the dummy.
Contents == [k \in 1 .. Len(chain) - 1 |-> data[chain[k]]]

Queue == INSTANCE Containers WITH
    items <- Contents, Val <- 1 .. MAX_PUSHES, Capacity <- MAX_PUSHES, hand <- <<>>, None <- Null

\* The linked nodes are a first-in first-out queue: moving _tail enqueues,
\* moving _head dequeues.
QueueSpec == Queue!QueueSpec
=============================================================================
