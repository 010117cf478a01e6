---------------------------- MODULE RuntimeProofs ----------------------------
(***************************************************************************)
(* The programs of Runtime side by side.  Every step of a behaviour is a   *)
(* step of the program it runs, so what is proved about the thread pool    *)
(* and about Io_context holds for the composition that is model-checked.   *)
(***************************************************************************)
EXTENDS Runtime, TLAPS

\* The pool of the composition meets what the theorems about pools ask for.
LEMMA PoolBounded == Pool!Bounded
<1>1. Pool!IsFiniteSet({"w1", "w2", "w3"})
  <2>1. Pool!IsFiniteSet({})
    BY Pool!FS_EmptySet
  <2>2. Pool!IsFiniteSet({} \cup {"w1"})
    BY <2>1, Pool!FS_AddElement
  <2>3. Pool!IsFiniteSet(({} \cup {"w1"}) \cup {"w2"})
    BY <2>2, Pool!FS_AddElement
  <2>4. Pool!IsFiniteSet((({} \cup {"w1"}) \cup {"w2"}) \cup {"w3"})
    BY <2>3, Pool!FS_AddElement
  <2>5. (({} \cup {"w1"}) \cup {"w2"}) \cup {"w3"} = {"w1", "w2", "w3"}
    OBVIOUS
  <2> QED
    BY <2>4, <2>5, Zenon
<1> QED
  BY <1>1 DEF Pool!Bounded

\* A behaviour that runs the thread pool takes steps of the thread pool.
LEMMA PoolSteps ==
    ASSUME program = "ThreadPool.cpp", [RuntimeNext]_allVars
    PROVE  program' = "ThreadPool.cpp" /\ [Pool!Next]_(Pool!vars)
<1>1. CASE UNCHANGED allVars
  BY <1>1 DEF allVars, memory, Pool!vars, Pool!data
<1>2. CASE RuntimeNext
  BY <1>2, Zenon DEF RuntimeNext, On7, On10, On11, On12, On16, On, MutexStep, ContenderStep
<1> QED
  BY <1>1, <1>2

\* One that runs another program never runs the pool.
LEMMA ProgramStays == ASSUME [RuntimeNext]_allVars PROVE program' = program
<1>1. CASE UNCHANGED allVars
  BY <1>1 DEF allVars
<1>2. CASE RuntimeNext
  BY <1>2, Zenon DEF RuntimeNext, On7, On10, On11, On12, On16, On, MutexStep, ContenderStep
<1> QED
  BY <1>1, <1>2

\* No job of the thread pool runs twice, although slow jobs and their messages are
\* queued apart.
THEOREM RuntimeOnce == RuntimeSpec => []AtMostOnce
<1>1. Pool!Init /\ [][Pool!Next]_(Pool!vars) => []Pool!AtMostOnce
  BY PoolBounded, Pool!RunsAtMostOnce DEF Pool!Spec
<1>2. RuntimeInit => ~(program = "ThreadPool.cpp") \/ Pool!Init
  BY DEF RuntimeInit
<1>3. ~(program = "ThreadPool.cpp") /\ [RuntimeNext]_allVars => ~(program = "ThreadPool.cpp")'
  BY ProgramStays
<1>4. program = "ThreadPool.cpp" /\ [RuntimeNext]_allVars => (program = "ThreadPool.cpp")' /\ [Pool!Next]_(Pool!vars)
  BY PoolSteps
<1> QED
  BY <1>1, <1>2, <1>3, <1>4, PTL DEF RuntimeSpec, AtMostOnce

\* A pending slow job has a message on its way, and runningSlowIO counts the workers
\* with a slow job.
THEOREM RuntimeSlowPath == RuntimeSpec => []SlowPath
<1>1. Pool!Init /\ [][Pool!Next]_(Pool!vars) => []Pool!PendingHasMessage /\ []Pool!SlowLimit
  BY PoolBounded, Pool!SlowJobsAnnounced, Pool!SlowJobsCounted, PTL DEF Pool!Spec
<1>2. RuntimeInit => ~(program = "ThreadPool.cpp") \/ Pool!Init
  BY DEF RuntimeInit
<1>3. ~(program = "ThreadPool.cpp") /\ [RuntimeNext]_allVars => ~(program = "ThreadPool.cpp")'
  BY ProgramStays
<1>4. program = "ThreadPool.cpp" /\ [RuntimeNext]_allVars => (program = "ThreadPool.cpp")' /\ [Pool!Next]_(Pool!vars)
  BY PoolSteps
<1> QED
  BY <1>1, <1>2, <1>3, <1>4, PTL DEF RuntimeSpec, SlowPath
-----------------------------------------------------------------------------
\* The coroutines of the composition are finitely many.
LEMMA ProgramOfCoroutines == Coroutines!Program
<1>1. Coroutines!IsFiniteSet(Task)
  <2>1. 1 \in Int /\ 4 \in Int
    OBVIOUS
  <2>2. \A a, b \in Int : Coroutines!IsFiniteSet(a .. b)
    BY Coroutines!FS_Interval
  <2>3. Coroutines!IsFiniteSet(1 .. 4)
    BY Zenon, <2>1, <2>2
  <2> QED
    BY Zenon, <2>3 DEF Task
<1> QED
  BY <1>1 DEF Coroutines!Program, Task

\* A behaviour that runs Io_context takes steps of Io_context.
LEMMA CoroutineSteps ==
    ASSUME program = "coroutine.h", [RuntimeNext]_allVars
    PROVE  program' = "coroutine.h" /\ [Coroutines!Next]_(Coroutines!vars)
<1>1. CASE UNCHANGED allVars
  BY <1>1 DEF allVars, memory, Coroutines!vars
<1>2. CASE RuntimeNext
  BY <1>2, Zenon DEF RuntimeNext, On7, On10, On11, On12, On16, On, MutexStep, ContenderStep
<1> QED
  BY <1>1, <1>2

\* _inflight is what the kernel holds or has completed, and a coroutine waits to be
\* resumed in exactly one place until it ends.
THEOREM RuntimeCoroutines == RuntimeSpec => []CoroutineBooks
<1>1. Coroutines!Init /\ [][Coroutines!Next]_(Coroutines!vars)
        => []Coroutines!InflightExact /\ []Coroutines!HeldOnce
  BY ProgramOfCoroutines, Coroutines!InflightCorrect, Coroutines!HandlesHeldOnce, PTL DEF Coroutines!Spec
<1>2. RuntimeInit => ~(program = "coroutine.h") \/ Coroutines!Init
  BY DEF RuntimeInit
<1>3. ~(program = "coroutine.h") /\ [RuntimeNext]_allVars => ~(program = "coroutine.h")'
  BY ProgramStays
<1>4. program = "coroutine.h" /\ [RuntimeNext]_allVars => (program = "coroutine.h")' /\ [Coroutines!Next]_(Coroutines!vars)
  BY CoroutineSteps
<1> QED
  BY <1>1, <1>2, <1>3, <1>4, PTL DEF RuntimeSpec, CoroutineBooks
=============================================================================
