----------------------------- MODULE FluentPool -----------------------------
(***************************************************************************)
(* Pool and WeakReference (net/fluent/include/network/Pool.h and           *)
(* utils/WeakReference.h): the slots in which a server or a client keeps   *)
(* its connections.  A slot is reused once its connection is DISCONNECTED  *)
(* and nobody holds its lifecycle.  All slots from _reusableIndex on are   *)
(* hoped to be reusable; a window of reusable slots is moved towards that  *)
(* index by swapping, a few slots at each emplace.                         *)
(***************************************************************************)
EXTENDS Integers

CONSTANTS
    Conn,          \* Context objects
    Null,          \* a slot's unique_ptr before its first use
    PREFETCH,      \* slots made by the constructor (16 in the code)
    GC_THRESHOLD   \* size from which on emplace looks for slots (16)

ASSUME PoolAssumption == Null \notin Conn /\ PREFETCH \in Nat /\ GC_THRESHOLD \in Nat

VARIABLES
    pool,     \* _container, its size, _reusableIndex and _window
    closed,   \* the objects in it whose state is DISCONNECTED
    guarded   \* the objects in it whose lifecycle somebody else holds

poolVars == <<pool, closed, guarded>>

PoolInit ==
    /\ pool = [slots |-> [i \in 0 .. PREFETCH - 1 |-> Null], size |-> PREFETCH,
               index |-> 0, left |-> 0, right |-> -1]
    /\ closed = {} /\ guarded = {}

isReusable(p, i) == p.slots[i] = Null \/ p.slots[i] \in closed \ guarded

Swap(f, i, j) == [f EXCEPT ![i] = f[j], ![j] = f[i]]

resetWindow(p) == [p EXCEPT !.left = 0, !.right = -1]

\* mutant: the slot that is not reusable is not swapped out of the window
doUpdateNoSwap(p) ==
    IF p.left > p.right THEN
        IF isReusable(p, p.left) THEN [p EXCEPT !.right = @ + 1]
        ELSE IF p.left + 1 = p.index THEN resetWindow(p)
        ELSE [p EXCEPT !.left = @ + 1, !.right = @ + 1]
    ELSE IF p.right + 1 = p.index THEN [resetWindow(p) EXCEPT !.index = p.left]
    ELSE [p EXCEPT !.right = @ + 1]

\* One step of the search.  A closed window (left = right + 1) opens at the first
\* reusable slot; an open one grows, slides by a swap, or is merged.
doUpdate(p) ==
    IF p.left > p.right THEN
        IF isReusable(p, p.left) THEN [p EXCEPT !.right = @ + 1]
        ELSE IF p.left + 1 = p.index THEN resetWindow(p)
        ELSE [p EXCEPT !.left = @ + 1, !.right = @ + 1]
    ELSE IF p.right + 1 = p.index THEN [resetWindow(p) EXCEPT !.index = p.left]
    ELSE IF isReusable(p, p.right + 1) THEN [p EXCEPT !.right = @ + 1]
    ELSE [p EXCEPT !.slots = Swap(@, p.right + 1, p.left), !.left = @ + 1, !.right = @ + 1]

\* step = 2
updateReusableIndex(p) ==
    LET once == IF p.index # 0 THEN doUpdate(p) ELSE p
    IN  IF once.index # 0 THEN doUpdate(once) ELSE once

\* mutant: the slot at the index is believed to be reusable
emplaceUnchecked(p, c) ==
    LET q == IF p.size > GC_THRESHOLD THEN updateReusableIndex(p) ELSE p
    IN  IF q.index # q.size
        THEN [q EXCEPT !.slots = [@ EXCEPT ![q.index] = c], !.index = @ + 1]
        ELSE [q EXCEPT !.slots = [i \in 0 .. q.size |-> IF i < q.size THEN q.slots[i] ELSE c],
                       !.size = @ + 1]

\* The new object goes to the slot at the index if that is reusable, which
\* destroys the object there, else to a new slot at the end.
emplace(p, c) ==
    LET q == IF p.size > GC_THRESHOLD THEN updateReusableIndex(p) ELSE p
    IN  IF q.index # q.size /\ isReusable(q, q.index)
        THEN [q EXCEPT !.slots = [@ EXCEPT ![q.index] = c], !.index = @ + 1]
        ELSE [q EXCEPT !.slots = [i \in 0 .. q.size |-> IF i < q.size THEN q.slots[i] ELSE c],
                       !.size = @ + 1]

Occupants(p) == {p.slots[i] : i \in 0 .. p.size - 1} \ {Null}

\* A connection is made.  Names of destroyed objects are used again.
Emplace(c) ==
    /\ c \in Conn \ Occupants(pool)
    /\ pool' = emplace(pool, c)
    /\ closed' = closed \cap Occupants(pool')
    /\ guarded' = guarded \cap Occupants(pool')

\* A connection becomes DISCONNECTED.
Close(c) ==
    /\ c \in Occupants(pool) \ closed
    /\ closed' = closed \cup {c}
    /\ UNCHANGED <<pool, guarded>>

\* makeStrongFuture, or the lock() of a WeakLifecycle, which succeeds on closed
\* objects too; and the end of the last future that holds the lifecycle.
Guard(c) ==
    /\ c \in Occupants(pool) \ guarded
    /\ guarded' = guarded \cup {c}
    /\ UNCHANGED <<pool, closed>>

Unguard(c) ==
    /\ c \in guarded
    /\ guarded' = guarded \ {c}
    /\ UNCHANGED <<pool, closed>>

PoolNext == \E c \in Conn : Emplace(c) \/ Close(c) \/ Guard(c) \/ Unguard(c)
-----------------------------------------------------------------------------
\* A window holds only slots without a connection, so that merging it with the
\* index gives "a better index"; it ends before the index, the search stays in the
\* container, and no object is in two slots.
WindowClosed ==
    /\ 0 <= pool.left /\ pool.left <= pool.right + 1
    /\ pool.right < pool.index /\ pool.index <= pool.size
    /\ pool.index # 0 => pool.left < pool.index
    /\ \A i \in pool.left .. pool.right : pool.slots[i] \in closed \cup {Null}
    /\ \A i, j \in 0 .. pool.size - 1 :
        pool.slots[i] = pool.slots[j] /\ i # j => pool.slots[i] = Null

\* Neither a swap nor a reuse destroys an object that is not DISCONNECTED or whose
\* lifecycle is held: pointers to it stay valid.
KeepsLive ==
    [][\A c \in Occupants(pool) \ Occupants(pool') : c \in closed \ guarded]_poolVars
=============================================================================
