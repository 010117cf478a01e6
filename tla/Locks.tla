-------------------------------- MODULE Locks --------------------------------
(***************************************************************************)
(* SharedMutex (Concurrency/SharedMutex.cpp) and its test program: a       *)
(* readers-writer spin lock in one atomic integer.  A writer exchanges 0   *)
(* for -1, a reader increments a value that is not negative.  Each writer  *)
(* of main() increments val COUNT times, each reader locks and unlocks     *)
(* COUNT times.  The spin locks of Concurrency/Spinlock.cpp follow below.  *)
(***************************************************************************)
EXTENDS Integers, FiniteSets

CONSTANTS
    Writer, Reader,  \* the threads of main()
    COUNT

ASSUME SharedMutexAssumption ==
    /\ IsFiniteSet(Writer) /\ IsFiniteSet(Reader)
    /\ Writer \cap Reader = {}
    /\ COUNT \in Nat

Thread == Writer \cup Reader

VARIABLES
    n,     \* _n
    val,
    pc,
    old,   \* each thread's copy of _n; a writer's copy of val
    left   \* the iterations each thread still has to make

vars == <<n, val, pc, old, left>>

Init ==
    /\ n = 0 /\ val = 0
    /\ pc = [t \in Thread |-> "outside"]
    /\ old = [t \in Thread |-> 0]
    /\ left = [t \in Thread |-> COUNT]

Goto(t, label) == pc' = [pc EXCEPT ![t] = label]
-----------------------------------------------------------------------------
\* The inner loop of lockShared: load until not negative.
LockSharedLoad(t) ==
    /\ t \in Reader /\ left[t] > 0 /\ pc[t] = "outside"
    /\ n >= 0
    /\ old' = [old EXCEPT ![t] = n]
    /\ Goto(t, "lock_shared")
    /\ UNCHANGED <<n, val, left>>

\* mutant: the exchange does not compare
LockSharedBlind(t) ==
    /\ pc[t] = "lock_shared"
    /\ n' = old[t] + 1
    /\ Goto(t, "shared")
    /\ UNCHANGED <<val, old, left>>

\* compare_exchange_weak; a failure, spurious or not, returns to the load
LockSharedCas(t) ==
    /\ pc[t] = "lock_shared"
    /\ \/ n = old[t] /\ n' = old[t] + 1 /\ Goto(t, "shared")
       \/ Goto(t, "outside") /\ UNCHANGED n
    /\ UNCHANGED <<val, old, left>>

\* The inner loop of unlockShared: load until positive.
UnlockSharedLoad(t) ==
    /\ pc[t] = "shared"
    /\ n > 0
    /\ old' = [old EXCEPT ![t] = n]
    /\ Goto(t, "unlock_shared")
    /\ UNCHANGED <<n, val, left>>

UnlockSharedCas(t) ==
    /\ pc[t] = "unlock_shared"
    /\ \/ /\ n = old[t] /\ n' = old[t] - 1
          /\ Goto(t, "outside")
          /\ left' = [left EXCEPT ![t] = @ - 1]
       \/ Goto(t, "shared") /\ UNCHANGED <<n, left>>
    /\ UNCHANGED <<val, old>>
-----------------------------------------------------------------------------
\* mutant: the exchange does not compare
LockBlind(t) ==
    /\ t \in Writer /\ left[t] > 0 /\ pc[t] = "outside"
    /\ n' = -1
    /\ Goto(t, "exclusive")
    /\ UNCHANGED <<val, old, left>>

\* compare_exchange_strong from 0, tried until it succeeds
Lock(t) ==
    /\ t \in Writer /\ left[t] > 0 /\ pc[t] = "outside"
    /\ n = 0 /\ n' = -1
    /\ Goto(t, "exclusive")
    /\ UNCHANGED <<val, old, left>>

\* val++ is a read and a write
ReadVal(t) ==
    /\ pc[t] = "exclusive"
    /\ old' = [old EXCEPT ![t] = val]
    /\ Goto(t, "write")
    /\ UNCHANGED <<n, val, left>>

WriteVal(t) ==
    /\ pc[t] = "write"
    /\ val' = old[t] + 1
    /\ Goto(t, "unlock")
    /\ UNCHANGED <<n, old, left>>

\* compare_exchange_strong from -1, tried until it succeeds
Unlock(t) ==
    /\ pc[t] = "unlock"
    /\ n = -1 /\ n' = 0
    /\ Goto(t, "outside")
    /\ left' = [left EXCEPT ![t] = @ - 1]
    /\ UNCHANGED <<val, old>>
-----------------------------------------------------------------------------
Step(t) ==
    \/ LockSharedLoad(t) \/ LockSharedCas(t) \/ UnlockSharedLoad(t) \/ UnlockSharedCas(t)
    \/ Lock(t) \/ ReadVal(t) \/ WriteVal(t) \/ Unlock(t)

\* main() returns when all threads are joined.
Joined == \A t \in Thread : left[t] = 0 /\ pc[t] = "outside"

Next == \E t \in Thread : Step(t)

Spec == Init /\ [][Next]_vars
-----------------------------------------------------------------------------
Readers == {t \in Reader : pc[t] \in {"shared", "unlock_shared"}}
Writers == {t \in Writer : pc[t] \in {"exclusive", "write", "unlock"}}

\* The lock word is -1 or a number of readers; iterations never go below 0.
TypeOK ==
    /\ n \in Int /\ n >= -1 /\ n <= Cardinality(Reader)
    /\ val \in Nat
    /\ pc \in [Thread -> {"outside", "lock_shared", "shared", "unlock_shared",
                          "exclusive", "write", "unlock"}]
    /\ old \in [Thread -> Int]
    /\ left \in [Thread -> 0 .. COUNT]

\* A writer in its critical section is alone: no other writer and no reader.
Exclusion ==
    \A t \in Writers : Readers = {} /\ Writers = {t}

\* The comment on _n: 0 is unlocked, -1 held by a writer, k > 0 held by k readers.
LockWord ==
    IF Writers # {} THEN n = -1 ELSE n = Cardinality(Readers)

\* At the end val counts every iteration of every writer: no increment is lost.
NoLostIncrement ==
    Joined => val = Cardinality(Writer) * COUNT
-----------------------------------------------------------------------------
(***************************************************************************)
(* The spin locks V1 to V6 and their test: every thread increments value   *)
(* COUNT times (contention_times) inside the lock.  V1, V2, V4, V5 and V6  *)
(* repeat the exchange; V3 waits with plain loads in between.              *)
(***************************************************************************)
CONSTANT Contender  \* the threads of test()

ASSUME SpinlockAssumption == IsFiniteSet(Contender)

VARIABLES
    readSpin,  \* the lock under test is V3
    locked, value,
    place, copy, turns  \* each thread's place, copy of value, and iterations to make

spinVars == <<readSpin, locked, value, place, copy, turns>>

SpinInit ==
    /\ readSpin \in BOOLEAN
    /\ locked = FALSE /\ value = 0
    /\ place = [t \in Contender |-> "lock"]
    /\ copy = [t \in Contender |-> 0]
    /\ turns = [t \in Contender |-> COUNT]

Move(t, label) == place' = [place EXCEPT ![t] = label]

\* mutant: the result of the exchange is ignored
ExchangeIgnored(t) ==
    /\ place[t] = "lock" /\ turns[t] > 0
    /\ locked' = TRUE
    /\ Move(t, "read")
    /\ UNCHANGED <<readSpin, value, copy, turns>>

\* exchange(LOCKED) or test_and_set: the lock is taken if it was free
Exchange(t) ==
    /\ place[t] = "lock" /\ turns[t] > 0
    /\ locked' = TRUE
    /\ Move(t, IF ~locked THEN "read" ELSE IF readSpin THEN "spin" ELSE "lock")
    /\ UNCHANGED <<readSpin, value, copy, turns>>

\* V3: while(_state.load() == LOCKED)
Spin(t) ==
    /\ place[t] = "spin" /\ ~locked
    /\ Move(t, "lock")
    /\ UNCHANGED <<readSpin, locked, value, copy, turns>>

\* value++ is a read and a write
Read(t) ==
    /\ place[t] = "read"
    /\ copy' = [copy EXCEPT ![t] = value]
    /\ Move(t, "write")
    /\ UNCHANGED <<readSpin, locked, value, turns>>

Write(t) ==
    /\ place[t] = "write"
    /\ value' = copy[t] + 1
    /\ Move(t, "release")
    /\ UNCHANGED <<readSpin, locked, copy, turns>>

Release(t) ==
    /\ place[t] = "release"
    /\ locked' = FALSE
    /\ turns' = [turns EXCEPT ![t] = @ - 1]
    /\ Move(t, "lock")
    /\ UNCHANGED <<readSpin, value, copy>>

SpinStep(t) == Exchange(t) \/ Spin(t) \/ Read(t) \/ Write(t) \/ Release(t)

SpinSpec == SpinInit /\ [][\E t \in Contender : SpinStep(t)]_spinVars

SpinJoined == \A t \in Contender : turns[t] = 0

\* assert(value == contention_times * contention_level): no increment is lost.
Sum == SpinJoined => value = COUNT * Cardinality(Contender)

\* No increment is lost: not the one a writer makes under the shared mutex while
\* readers come and go, and none made under a spin lock, so that
\* assert(value == contention_times * contention_level) holds in Spinlock.cpp.
EveryIncrementCounts == NoLostIncrement /\ Sum
==============================================================================
