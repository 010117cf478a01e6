--------------------------- MODULE LockfreeMemory ---------------------------
(***************************************************************************)
(* The lock-free structures of Concurrency/ that share tagged pointers and *)
(* recycled memory: the queue, the stack, and the Freelist below both.  A  *)
(* behaviour uses one of them; the others stay as they were constructed.   *)
(* The queue and the stack are specified over the abstract NodePool, which *)
(* the Freelist is shown to implement here.                                *)
(***************************************************************************)
EXTENDS LockfreeStack, Freelist, TLC

CONSTANTS
    Thread, FIRST_TAG, MAX_PUSHES, MAX_POPS  \* the callers of the queue

VARIABLES
    structure,                                           \* the one in use
    qHead, qTail, qData, qNext, qFresh, qFree, qOwned,   \* LockfreeQueue
    qPc, node, hd, tl, nx, opt, qPushes, pops, popped

Queue == INSTANCE LockfreeQueue WITH
    head <- qHead, tail <- qTail, data <- qData, next <- qNext, fresh <- qFresh,
    free <- qFree, owned <- qOwned, pc <- qPc, pushes <- qPushes

queueVars ==
    <<qHead, qTail, qData, qNext, qFresh, qFree, qOwned, qPc, node, hd, tl, nx, opt,
      qPushes, pops, popped>>
allVars == <<structure, queueVars, vars, listVars>>

MemoryInit ==
    /\ structure \in {"queue", "stack", "freelist"}
    /\ Queue!Init /\ Init /\ ListInit

MemoryNext ==
    /\ UNCHANGED structure
    /\ \/ structure = "queue" /\ Queue!Next /\ UNCHANGED <<vars, listVars>>
       \/ structure = "stack" /\ Next /\ UNCHANGED <<queueVars, listVars>>
       \/ structure = "freelist" /\ ListNext /\ UNCHANGED <<queueVars, vars>>

MemorySpec == MemoryInit /\ [][MemoryNext]_allVars

\* The threads of one structure are interchangeable.
Symmetry == Permutations(Thread) \cup Permutations(Pusher) \cup Permutations(Allocator)
-----------------------------------------------------------------------------
\* The queue returns no element twice and only what was pushed, although pop copies it
\* from a node that others may recycle; with no call in progress it holds exactly what
\* was pushed and not returned; and neither the node _tail points at nor one linked from
\* _head is in the pool.
QueueExact == Queue!ReturnedOnce /\ Queue!NothingLost /\ Queue!NoReuseWhileLinked
=============================================================================
