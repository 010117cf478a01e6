----------------------------- MODULE ThreadPool -----------------------------
(***************************************************************************)
(* ThreadPool (Concurrency/ThreadPool.cpp): detached workers, a queue of   *)
(* tasks, and a second queue of slow I/O tasks that workers reach through  *)
(* "slow messages" in the first one.                                       *)
(*                                                                         *)
(* The program around the pool is external: it submits jobs and destroys   *)
(* the pool.  A slow message refers to the member _data of the pool, and a *)
(* new worker reads it, so both need the pool to be alive.                 *)
(***************************************************************************)
EXTENDS Integers, Sequences, FiniteSetTheorems, TLAPS

CONSTANTS
    Worker,       \* the threads of lazyInit
    MAX_JOBS,     \* bound on calls of submit; the i-th one submits job i
    SlowMessage,  \* a task that calls runSlowMessage; the other tasks are jobs
    LockedStop,   \* the destructor's #else branch: stop is set under the mutex
    Kinds,        \* the jobs the program submits: slow (TRUE), others (FALSE)
    Caution       \* what it waits for before it destroys the pool: that the workers
                  \* have "started"; that all jobs are "done"; or that no slow job
                  \* and no slow message is queued or in progress ("quiet")

size == Cardinality(Worker)
runningSlowIOThreshold == IF size \div 2 > 1 THEN size \div 2 ELSE 1

VARIABLES
    mutex,         \* its holder, or "free"
    tasks, pendingTasks,
    runningSlowIO,
    stop,
    pc, task,      \* each worker's place and task
    user,          \* the program's place: "new" before lazyInit, "gone" at the end
    jobs,          \* the jobs submitted
    ran            \* how often each job was run

data == <<tasks, pendingTasks, runningSlowIO>>
vars == <<mutex, data, stop, pc, task, user, jobs, ran>>

Init ==
    /\ mutex = "free"
    /\ tasks = <<>> /\ pendingTasks = <<>>
    /\ runningSlowIO = 0
    /\ stop = FALSE
    /\ pc = [w \in Worker |-> "none"]
    /\ task = [w \in Worker |-> 0]
    /\ user = "new"
    /\ jobs = 0
    /\ ran = [j \in 1 .. MAX_JOBS |-> 0]

Goto(w, label) == pc' = [pc EXCEPT ![w] = label]
Waiting == {w \in Worker : pc[w] = "sleep"}
-----------------------------------------------------------------------------
\* std::call_once(_init, lazyInit): the first submit starts the workers
LazyInit ==
    /\ user = "new"
    /\ user' = "idle"
    /\ pc' = [w \in Worker |-> "start"]
    /\ UNCHANGED <<mutex, data, stop, task, jobs, ran>>

\* mutant: no message is queued while slow jobs are running
SubmitQuietly(slow) ==
    /\ user = "idle" /\ jobs < MAX_JOBS /\ mutex = "free"
    /\ jobs' = jobs + 1
    /\ tasks' = IF slow /\ runningSlowIO > 0 THEN tasks
                ELSE Append(tasks, IF slow THEN SlowMessage ELSE jobs + 1)
    /\ pendingTasks' = IF slow THEN Append(pendingTasks, jobs + 1) ELSE pendingTasks
    /\ user' = "notify"
    /\ UNCHANGED <<mutex, runningSlowIO, stop, pc, task, ran>>

\* The critical section of submit.
Submit(slow) ==
    /\ user = "idle" /\ jobs < MAX_JOBS /\ mutex = "free"
    /\ jobs' = jobs + 1
    /\ tasks' = Append(tasks, IF slow THEN SlowMessage ELSE jobs + 1)
    /\ pendingTasks' = IF slow THEN Append(pendingTasks, jobs + 1) ELSE pendingTasks
    /\ user' = "notify"
    /\ UNCHANGED <<mutex, runningSlowIO, stop, pc, task, ran>>

\* cv.notify_one()
NotifyOne ==
    /\ user = "notify"
    /\ user' = "idle"
    /\ IF Waiting = {} THEN UNCHANGED pc ELSE \E w \in Waiting : Goto(w, "lock")
    /\ UNCHANGED <<mutex, data, stop, task, jobs, ran>>

\* Slow messages queued or about to run.
Messages ==
    Cardinality({i \in DOMAIN tasks : tasks[i] = SlowMessage})
        + Cardinality({w \in Worker : task[w] = SlowMessage /\ pc[w] \in {"run", "slow_lock"}})

Settled ==
    /\ \A w \in Worker : pc[w] # "start"
    /\ Caution = "done" => \A j \in 1 .. jobs : ran[j] > 0
    /\ Caution = "quiet" => Messages = 0 /\ pendingTasks = <<>> /\ runningSlowIO = 0

\* The destructor stores stop: with the mutex, or on x86-64 without.
StoreStop ==
    /\ user = "idle" /\ Settled
    /\ LockedStop => mutex = "free"
    /\ stop' = TRUE
    /\ user' = "notify_all"
    /\ UNCHANGED <<mutex, data, pc, task, jobs, ran>>

\* mutant: only one worker is notified
NotifyAllOne ==
    /\ user = "notify_all"
    /\ IF Waiting = {} THEN UNCHANGED pc ELSE \E w \in Waiting : Goto(w, "lock")
    /\ user' = "gone"
    /\ UNCHANGED <<mutex, data, stop, task, jobs, ran>>

\* cv.notify_all(), and the end of the pool's lifetime
NotifyAll ==
    /\ user = "notify_all"
    /\ pc' = [w \in Worker |-> IF pc[w] = "sleep" THEN "lock" ELSE pc[w]]
    /\ user' = "gone"
    /\ UNCHANGED <<mutex, data, stop, task, jobs, ran>>
-----------------------------------------------------------------------------
\* consume() begins: auto data = _data
Start(w) ==
    /\ pc[w] = "start"
    /\ Goto(w, "lock")
    /\ UNCHANGED <<mutex, data, stop, task, user, jobs, ran>>

Acquire(w) ==
    /\ pc[w] = "lock" /\ mutex = "free"
    /\ mutex' = w
    /\ Goto(w, "check")
    /\ UNCHANGED <<data, stop, task, user, jobs, ran>>

rejectSlowIO ==
    Len(tasks) = 1 /\ pendingTasks # <<>> /\ runningSlowIO > runningSlowIOThreshold

\* The loop condition holds: the worker is going to wait, and still has the mutex.
CheckWait(w) ==
    /\ pc[w] = "check"
    /\ ~stop /\ (tasks = <<>> \/ rejectSlowIO)
    /\ Goto(w, "wait")
    /\ UNCHANGED <<mutex, data, stop, task, user, jobs, ran>>

CheckTake(w) ==
    /\ pc[w] = "check"
    /\ stop \/ ~rejectSlowIO
    /\ tasks # <<>>
    /\ task' = [task EXCEPT ![w] = Head(tasks)]
    /\ tasks' = Tail(tasks)
    /\ mutex' = "free"
    /\ Goto(w, "run")
    /\ UNCHANGED <<pendingTasks, runningSlowIO, stop, user, jobs, ran>>

CheckLeave(w) ==
    /\ pc[w] = "check"
    /\ stop /\ tasks = <<>>
    /\ mutex' = "free"
    /\ Goto(w, "done")
    /\ UNCHANGED <<data, stop, task, user, jobs, ran>>

\* cv.wait releases the mutex and sleeps in one step
Wait(w) ==
    /\ pc[w] = "wait"
    /\ mutex' = "free"
    /\ Goto(w, "sleep")
    /\ UNCHANGED <<data, stop, task, user, jobs, ran>>

SpuriousWakeup(w) ==
    /\ pc[w] = "sleep"
    /\ Goto(w, "lock")
    /\ UNCHANGED <<mutex, data, stop, task, user, jobs, ran>>

RunJob(w) ==
    /\ pc[w] = "run" /\ task[w] # SlowMessage
    /\ ran' = [ran EXCEPT ![task[w]] = @ + 1]
    /\ Goto(w, "lock")
    /\ UNCHANGED <<mutex, data, stop, task, user, jobs>>

\* The message calls runSlowMessage(_data).
RunMessage(w) ==
    /\ pc[w] = "run" /\ task[w] = SlowMessage
    /\ Goto(w, "slow_lock")
    /\ UNCHANGED <<mutex, data, stop, task, user, jobs, ran>>
-----------------------------------------------------------------------------
\* The first critical section of runSlowMessage: too many slow jobs are running.
SlowLater(w) ==
    /\ pc[w] = "slow_lock" /\ mutex = "free"
    /\ runningSlowIO > runningSlowIOThreshold
    /\ tasks' = Append(tasks, SlowMessage)
    /\ Goto(w, "lock")
    /\ UNCHANGED <<mutex, pendingTasks, runningSlowIO, stop, task, user, jobs, ran>>

\* No slow job is left.
SlowNone(w) ==
    /\ pc[w] = "slow_lock" /\ mutex = "free"
    /\ runningSlowIO <= runningSlowIOThreshold /\ pendingTasks = <<>>
    /\ Goto(w, "lock")
    /\ UNCHANGED <<mutex, data, stop, task, user, jobs, ran>>

\* mutant: the job is copied and stays in the queue
SlowCopy(w) ==
    /\ pc[w] = "slow_lock" /\ mutex = "free"
    /\ runningSlowIO <= runningSlowIOThreshold /\ pendingTasks # <<>>
    /\ runningSlowIO' = runningSlowIO + 1
    /\ task' = [task EXCEPT ![w] = Head(pendingTasks)]
    /\ Goto(w, "slow_run")
    /\ UNCHANGED <<mutex, tasks, pendingTasks, stop, user, jobs, ran>>

\* A slow job is taken; with more than one pending another message is queued.
SlowTake(w) ==
    /\ pc[w] = "slow_lock" /\ mutex = "free"
    /\ runningSlowIO <= runningSlowIOThreshold /\ pendingTasks # <<>>
    /\ runningSlowIO' = runningSlowIO + 1
    /\ task' = [task EXCEPT ![w] = Head(pendingTasks)]
    /\ pendingTasks' = Tail(pendingTasks)
    /\ tasks' = IF Len(pendingTasks) > 1 THEN Append(tasks, SlowMessage) ELSE tasks
    /\ Goto(w, "slow_run")
    /\ UNCHANGED <<mutex, stop, user, jobs, ran>>

SlowRun(w) ==
    /\ pc[w] = "slow_run"
    /\ ran' = [ran EXCEPT ![task[w]] = @ + 1]
    /\ Goto(w, "slow_end")
    /\ UNCHANGED <<mutex, data, stop, task, user, jobs>>

\* The second critical section: runningSlowIO--.  Nobody is notified.
SlowEnd(w) ==
    /\ pc[w] = "slow_end" /\ mutex = "free"
    /\ runningSlowIO' = runningSlowIO - 1
    /\ Goto(w, "lock")
    /\ UNCHANGED <<mutex, tasks, pendingTasks, stop, task, user, jobs, ran>>
-----------------------------------------------------------------------------
Work(w) ==
    \/ Start(w) \/ Acquire(w) \/ CheckWait(w) \/ CheckTake(w) \/ CheckLeave(w) \/ Wait(w)
    \/ RunJob(w) \/ RunMessage(w)
    \/ SlowLater(w) \/ SlowNone(w) \/ SlowTake(w) \/ SlowRun(w) \/ SlowEnd(w)

Use == LazyInit \/ (\E slow \in Kinds : Submit(slow)) \/ NotifyOne \/ StoreStop \/ NotifyAll

Next == Use \/ \E w \in Worker : Work(w) \/ SpuriousWakeup(w)

NeedsMutex(w) == Acquire(w) \/ SlowLater(w) \/ SlowNone(w) \/ SlowTake(w) \/ SlowEnd(w)

\* Threads are scheduled and the mutex is not withheld from one of them for
\* ever.  The program need not submit or destroy, but finishes what it began.
Fairness ==
    /\ WF_vars(NotifyOne) /\ WF_vars(NotifyAll)
    /\ \A w \in Worker : WF_vars(Work(w)) /\ SF_vars(NeedsMutex(w))

Spec == Init /\ [][Next]_vars
FairSpec == Spec /\ Fairness
-----------------------------------------------------------------------------
RunningSlow == {w \in Worker : pc[w] \in {"slow_run", "slow_end"}}

\* No job runs twice, although slow jobs and their messages are queued apart.
AtMostOnce == \A j \in 1 .. MAX_JOBS : ran[j] <= IF j <= jobs THEN 1 ELSE 0

\* While slow jobs are pending a message is on its way: none is orphaned.
PendingHasMessage == pendingTasks # <<>> => Messages > 0

\* runningSlowIO counts the workers with a slow job, at most one above the threshold.
SlowLimit ==
    /\ runningSlowIO = Cardinality(RunningSlow)
    /\ runningSlowIO <= runningSlowIOThreshold + 1

\* What the pool owes: the jobs submitted ("all submitted jobs will be done even if
\* stopping"), and that the workers leave after the destructor.
Owed ==
    \/ \E j \in 1 .. jobs : ran[j] = 0
    \/ user = "gone" /\ \E w \in Worker : pc[w] # "done"

\* After the destructor all workers leave.
WorkersLeave == (user = "gone") ~> (\A w \in Worker : pc[w] = "done")

\* The accesses of the pool's member _data: consume copies it when a worker starts,
\* a slow message holds a reference to it, and runSlowMessage locks through that
\* reference before and after the job.
UsesPool(w) ==
    \/ pc[w] \in {"start", "slow_lock", "slow_end"}
    \/ pc[w] = "run" /\ task[w] = SlowMessage

\* "using static declaration to avoid passing `this` which may be dangerous for
\* lifecycle": nobody uses the pool object after it is gone.
PoolOutlivesUse == [][\A w \in Worker : pc'[w] # pc[w] /\ UsesPool(w) => user # "gone"]_vars
-----------------------------------------------------------------------------
(***************************************************************************)
(* Proofs, for any number of workers and jobs, for both builds of the      *)
(* destructor and whatever the program waits for before it.                *)
(***************************************************************************)
\* What is asked of the instance: finitely many workers, and a message is not a job.
Bounded ==
    /\ IsFiniteSet(Worker) /\ MAX_JOBS \in Nat /\ SlowMessage \notin 1 .. MAX_JOBS
    /\ Kinds \subseteq BOOLEAN

Job == 1 .. MAX_JOBS
\* Where a worker has no task, and all its places.
Resting == {"none", "start", "lock", "check", "wait", "sleep", "done"}
Label == Resting \cup {"run", "slow_lock", "slow_run", "slow_end"}

\* A worker that runs a task has one.
TypeOK ==
    /\ tasks \in Seq(Job \cup {SlowMessage}) /\ pendingTasks \in Seq(Job)
    /\ runningSlowIO \in Nat /\ jobs \in 0 .. MAX_JOBS
    /\ pc \in [Worker -> Label]
    /\ task \in [Worker -> Job \cup {0, SlowMessage}]
    /\ ran \in [Job -> Nat]
    /\ \A w \in Worker : /\ pc[w] = "run" => task[w] \in Job \cup {SlowMessage}
                         /\ pc[w] = "slow_run" => task[w] \in Job

\* Before the first submit nothing has begun.
Unused == user = "new" => tasks = <<>> /\ pendingTasks = <<>> /\ \A w \in Worker : pc[w] = "none"

\* Queues of jobs and messages, in which no job is twice.
In(s, j) == \E i \in DOMAIN s : s[i] = j
Distinct(s) == \A i, k \in DOMAIN s : s[i] = s[k] /\ s[i] \in Job => i = k
Holds(w, j) == task[w] = j /\ pc[w] \in {"run", "slow_run"}

\* A job is in one place until it is run, and then nowhere.
OnceOf(j) ==
    /\ ~(In(tasks, j) /\ In(pendingTasks, j))
    /\ \A w \in Worker : Holds(w, j) => ~In(tasks, j) /\ ~In(pendingTasks, j)
    /\ \A v, w \in Worker : Holds(v, j) /\ Holds(w, j) => v = w
    /\ In(tasks, j) \/ In(pendingTasks, j) \/ (\E w \in Worker : Holds(w, j)) => j <= jobs /\ ran[j] = 0
    /\ ran[j] <= IF j <= jobs THEN 1 ELSE 0

Once == Distinct(tasks) /\ Distinct(pendingTasks) /\ \A j \in Job : OnceOf(j)

\* A slow job is pending only while a message is queued or being run.
OnItsWay == In(tasks, SlowMessage) \/ \E w \in Worker : task[w] = SlowMessage /\ pc[w] \in {"run", "slow_lock"}
Announced == pendingTasks # <<>> => OnItsWay

IInv == TypeOK /\ Unused /\ Once /\ Announced /\ SlowLimit

\* What a new element does to such a queue.
LEMMA Appended ==
    ASSUME NEW S, NEW s \in Seq(S), NEW x \in S
    PROVE  /\ Append(s, x) \in Seq(S) /\ Append(s, x) # <<>>
           /\ \A j : In(Append(s, x), j) <=> In(s, j) \/ j = x
           /\ Distinct(s) /\ (x \in Job => ~In(s, x)) => Distinct(Append(s, x))
<1>1. Append(s, x) \in Seq(S) /\ Len(Append(s, x)) = Len(s) + 1 /\ Len(s) \in Nat
  OBVIOUS
<1>2. \A i \in 1 .. Len(s) : Append(s, x)[i] = s[i]
  OBVIOUS
<1>3. Append(s, x)[Len(s) + 1] = x
  OBVIOUS
<1>4. DOMAIN Append(s, x) = 1 .. Len(s) + 1 /\ DOMAIN s = 1 .. Len(s)
  BY <1>1
<1>5. Append(s, x) # <<>>
  BY <1>1
<1>6. \A j : In(Append(s, x), j) <=> In(s, j) \/ j = x
  BY <1>1, <1>2, <1>3, <1>4 DEF In
<1>7. Distinct(s) /\ (x \in Job => ~In(s, x)) => Distinct(Append(s, x))
  BY <1>1, <1>2, <1>3, <1>4 DEF Distinct, In
<1> QED
  BY <1>1, <1>5, <1>6, <1>7

\* What taking its first element does.
LEMMA Shortened ==
    ASSUME NEW S, NEW s \in Seq(S), s # <<>>, Distinct(s)
    PROVE  /\ Head(s) \in S /\ In(s, Head(s))
           /\ Tail(s) \in Seq(S) /\ Distinct(Tail(s))
           /\ \A j : In(Tail(s), j) => In(s, j)
           /\ \A j : In(s, j) => j = Head(s) \/ In(Tail(s), j)
           /\ Head(s) \in Job => ~In(Tail(s), Head(s))
<1>1. Tail(s) \in Seq(S) /\ Len(Tail(s)) = Len(s) - 1 /\ Len(s) \in Nat /\ Len(s) > 0
  OBVIOUS
<1>2. \A i \in 1 .. Len(s) - 1 : Tail(s)[i] = s[i + 1]
  OBVIOUS
<1>3. Head(s) = s[1] /\ DOMAIN s = 1 .. Len(s) /\ DOMAIN Tail(s) = 1 .. Len(s) - 1
  BY <1>1
<1>4. Distinct(Tail(s))
  BY <1>1, <1>2, <1>3 DEF Distinct
<1>5. Head(s) \in S /\ In(s, Head(s))
  BY <1>1, <1>3 DEF In
<1>6. \A j : In(Tail(s), j) => In(s, j)
  BY <1>1, <1>2, <1>3 DEF In
<1>7. ASSUME NEW j, In(s, j) PROVE j = Head(s) \/ In(Tail(s), j)
  <2>1. PICK i \in 1 .. Len(s) : s[i] = j
    BY <1>3, <1>7 DEF In
  <2>2. CASE i = 1
    BY <2>1, <2>2, <1>3
  <2>3. CASE i # 1
    <3>1. i - 1 \in 1 .. Len(s) - 1 /\ (i - 1) + 1 = i
      BY <2>3, <1>1
    <3>2. Tail(s)[i - 1] = j
      BY <3>1, <2>1, <1>2
    <3> QED
      BY Zenon, <3>1, <3>2, <1>3 DEF In
  <2> QED
    BY <2>2, <2>3
<1>8. Head(s) \in Job => ~In(Tail(s), Head(s))
  BY <1>1, <1>2, <1>3 DEF Distinct, In
<1> QED
  BY <1>1, <1>4, <1>5, <1>6, <1>7, <1>8

\* The threshold is a number, and the workers that are counted are finitely many.
LEMMA Threshold == ASSUME Bounded PROVE runningSlowIOThreshold \in Nat
<1>1. size \in Nat
  BY FS_CardinalityType DEF Bounded, size
<1>2. size \div 2 \in Nat
  BY <1>1
<1> QED
  BY <1>2 DEF runningSlowIOThreshold

LEMMA Finite == ASSUME Bounded PROVE IsFiniteSet(RunningSlow)
BY FS_Subset DEF Bounded, RunningSlow

\* The invariant holds at first.
LEMMA InitHolds == ASSUME Bounded, Init PROVE IInv
<1>1. TypeOK
  BY DEF Bounded, Init, TypeOK, Job, Label, Resting
<1>2. Unused /\ Announced
  BY DEF Init, Unused, Announced
<1>3. ~(\E j : In(<<>>, j)) /\ Distinct(<<>>)
  BY DEF In, Distinct
<1>4. Once
  BY <1>3 DEF Bounded, Init, Once, OnceOf, Job, Holds
<1>5. RunningSlow = {}
  BY DEF Init, RunningSlow
<1>6. SlowLimit
  BY <1>5, FS_EmptySet, Threshold DEF Init, SlowLimit
<1> QED
  BY <1>1, <1>2, <1>4, <1>6 DEF IInv

\* Steps between places where a worker has no task keep it.
LEMMA RestingSteps ==
    ASSUME Bounded, IInv, UNCHANGED <<data, task, jobs, ran>>, user' # "new", pc' \in [Worker -> Label],
           \A w \in Worker : pc'[w] = pc[w] \/ (pc[w] \in Resting /\ pc'[w] \in Resting)
    PROVE  IInv'
<1>1. \A w \in Worker, p \in {"run", "slow_lock", "slow_run", "slow_end"} : pc'[w] = p <=> pc[w] = p
  BY DEF Resting
<1>2. TypeOK'
  BY <1>1 DEF IInv, TypeOK, data
<1>3. \A w \in Worker, j \in Job : Holds(w, j)' <=> Holds(w, j)
  BY <1>1 DEF Holds
<1>4. Once'
  BY <1>3 DEF IInv, Once, OnceOf, data, In, Distinct
<1>5. Announced'
  BY <1>1 DEF IInv, Announced, OnItsWay, data, In
<1>6. RunningSlow' = RunningSlow
  BY <1>1 DEF RunningSlow
<1>7. SlowLimit'
  BY <1>6 DEF IInv, SlowLimit, data
<1> QED
  BY <1>2, <1>4, <1>5, <1>7 DEF IInv, Unused

\* The steps of the program other than submit keep it.
LEMMA UseSteps ==
    ASSUME Bounded, IInv, LazyInit \/ NotifyOne \/ StoreStop \/ NotifyAll
    PROVE  IInv'
<1>1. pc \in [Worker -> Label]
  BY DEF IInv, TypeOK
<1>2. CASE LazyInit
  <2>1. pc' \in [Worker -> Label] /\ \A w \in Worker : pc[w] \in Resting /\ pc'[w] \in Resting
    BY <1>2 DEF LazyInit, IInv, Unused, Resting, Label
  <2> QED
    BY <1>2, <2>1, RestingSteps DEF LazyInit
<1>3. CASE NotifyOne
  <2>1. pc' \in [Worker -> Label] /\ \A w \in Worker : pc'[w] = pc[w] \/ (pc[w] = "sleep" /\ pc'[w] = "lock")
    BY <1>1, <1>3 DEF NotifyOne, Waiting, Goto, Resting, Label
  <2> QED
    BY <1>3, <2>1, RestingSteps DEF NotifyOne, Resting
<1>4. CASE StoreStop
  BY <1>1, <1>4, RestingSteps DEF StoreStop
<1>5. CASE NotifyAll
  <2>1. pc' \in [Worker -> Label] /\ \A w \in Worker : pc'[w] = pc[w] \/ (pc[w] = "sleep" /\ pc'[w] = "lock")
    BY <1>1, <1>5 DEF NotifyAll, Resting, Label
  <2> QED
    BY <1>5, <2>1, RestingSteps DEF NotifyAll, Resting
<1> QED
  BY <1>2, <1>3, <1>4, <1>5

\* A worker at work is one that the first submit started.
LEMMA InUse == ASSUME IInv, NEW w \in Worker, pc[w] # "none" PROVE user # "new"
BY DEF IInv, Unused

\* Waiting for a task and leaving keep it.
LEMMA WaitSteps ==
    ASSUME Bounded, IInv, NEW w \in Worker,
           Start(w) \/ Acquire(w) \/ CheckWait(w) \/ CheckLeave(w) \/ Wait(w) \/ SpuriousWakeup(w)
    PROVE  IInv'
<1>1. pc \in [Worker -> Label]
  BY DEF IInv, TypeOK
<1>2. user' # "new"
  BY InUse DEF Start, Acquire, CheckWait, CheckLeave, Wait, SpuriousWakeup
<1>3. PICK p \in Resting : pc' = [pc EXCEPT ![w] = p] /\ pc[w] \in Resting /\ p \in Label
  BY DEF Start, Acquire, CheckWait, CheckLeave, Wait, SpuriousWakeup, Goto, Resting, Label
<1>4. pc' \in [Worker -> Label] /\ \A v \in Worker : pc'[v] = pc[v] \/ (pc[v] \in Resting /\ pc'[v] \in Resting)
  BY <1>1, <1>3
<1>5. UNCHANGED <<data, task, jobs, ran>>
  BY DEF Start, Acquire, CheckWait, CheckLeave, Wait, SpuriousWakeup
<1> QED
  BY <1>2, <1>4, <1>5, RestingSteps

\* A submitted job is new, and a slow one comes with its message.
LEMMA SubmitStep == ASSUME Bounded, IInv, NEW slow \in BOOLEAN, Submit(slow) PROVE IInv'
<1> DEFINE new == jobs + 1
           t == IF slow THEN SlowMessage ELSE new
<1>1. new \in Job /\ jobs \in Nat /\ SlowMessage \notin Job /\ t \in Job \cup {SlowMessage}
  BY DEF Bounded, IInv, TypeOK, Submit, Job
<1>2. /\ tasks \in Seq(Job \cup {SlowMessage}) /\ pendingTasks \in Seq(Job)
      /\ Distinct(tasks) /\ Distinct(pendingTasks)
  BY DEF IInv, TypeOK, Once
<1>3. ran[new] = 0 /\ ~In(tasks, new) /\ ~In(pendingTasks, new) /\ \A w \in Worker : ~Holds(w, new)
  <2>1. ~(new <= jobs) /\ ran[new] \in Nat
    BY <1>1 DEF IInv, TypeOK
  <2> HIDE DEF new
  <2> QED
    BY <1>1, <2>1 DEF IInv, Once, OnceOf
<1>4. /\ tasks' = Append(tasks, t) /\ jobs' = new
      /\ pendingTasks' = IF slow THEN Append(pendingTasks, new) ELSE pendingTasks
      /\ UNCHANGED <<runningSlowIO, pc, task, ran>> /\ user' = "notify"
  BY DEF Submit
<1> HIDE DEF new
<1>5. /\ tasks' \in Seq(Job \cup {SlowMessage}) /\ Distinct(tasks')
      /\ \A j : In(tasks', j) <=> In(tasks, j) \/ j = t
  <2>1. t \in Job => ~In(tasks, t)
    BY <1>1, <1>3
  <2> QED
    BY <1>1, <1>2, <1>4, <2>1, Appended
<1>6. /\ pendingTasks' \in Seq(Job) /\ Distinct(pendingTasks')
      /\ \A j : In(pendingTasks', j) <=> In(pendingTasks, j) \/ (slow /\ j = new)
  <2>1. CASE slow
    BY <1>1, <1>2, <1>3, <1>4, <2>1, Appended
  <2>2. CASE ~slow
    BY <1>2, <1>4, <2>2
  <2> QED
    BY <2>1, <2>2
<1>7. TypeOK'
  BY <1>1, <1>4, <1>5, <1>6 DEF IInv, TypeOK, Job, Bounded
<1>8. Once'
  <2>1. \A w \in Worker, j \in Job : Holds(w, j)' <=> Holds(w, j)
    BY <1>4 DEF Holds
  <2>2. ASSUME NEW j \in Job PROVE OnceOf(j)'
    <3>1. CASE j = new
      <4>1. In(tasks', j) <=> ~slow
        BY <3>1, <1>1, <1>3, <1>5
      <4>2. In(pendingTasks', j) <=> slow
        BY <3>1, <1>3, <1>6
      <4>3. \A w \in Worker : ~Holds(w, j)'
        BY <3>1, <1>3, <2>1
      <4>4. ran'[j] = 0 /\ j <= jobs'
        BY <3>1, <1>1, <1>3, <1>4 DEF Job
      <4> QED
        BY <4>1, <4>2, <4>3, <4>4 DEF OnceOf, In
    <3>2. CASE j # new
      <4>1. (In(tasks', j) <=> In(tasks, j)) /\ (In(pendingTasks', j) <=> In(pendingTasks, j))
        BY <3>2, <1>1, <1>5, <1>6
      <4>2. j <= jobs' <=> j <= jobs
        BY <3>2, <1>1, <1>4 DEF new, Job
      <4> QED
        BY <4>1, <4>2, <2>1, <1>4 DEF IInv, Once, OnceOf, In
    <3> QED
      BY <3>1, <3>2
  <2> QED
    BY <1>5, <1>6, <2>2 DEF Once, Distinct
<1>9. Announced'
  <2>1. slow => In(tasks', SlowMessage)
    BY <1>5
  <2>2. ~slow => pendingTasks' = pendingTasks /\ (OnItsWay => OnItsWay')
    BY <1>4, <1>5 DEF OnItsWay, In
  <2> QED
    BY <2>1, <2>2 DEF IInv, Announced, OnItsWay, In
<1>10. SlowLimit'
  BY <1>4 DEF IInv, SlowLimit, RunningSlow
<1> QED
  BY <1>4, <1>7, <1>8, <1>9, <1>10 DEF IInv, Unused

\* A task goes from the queue to the worker.
LEMMA CheckTakeStep == ASSUME Bounded, IInv, NEW w \in Worker, CheckTake(w) PROVE IInv'
<1> DEFINE t == Head(tasks)
<1>1. /\ tasks \in Seq(Job \cup {SlowMessage}) /\ tasks # <<>>
      /\ Distinct(tasks) /\ SlowMessage \notin Job
  BY DEF Bounded, Job, IInv, TypeOK, Once, CheckTake
<1>2. /\ t \in Job \cup {SlowMessage} /\ In(tasks, t)
      /\ Tail(tasks) \in Seq(Job \cup {SlowMessage}) /\ Distinct(Tail(tasks))
      /\ \A j : In(Tail(tasks), j) => In(tasks, j)
      /\ \A j : In(tasks, j) => j = t \/ In(Tail(tasks), j)
      /\ t \in Job => ~In(Tail(tasks), t)
  BY <1>1, Shortened
<1>3. /\ task' = [task EXCEPT ![w] = t] /\ tasks' = Tail(tasks) /\ pc' = [pc EXCEPT ![w] = "run"]
      /\ UNCHANGED <<pendingTasks, runningSlowIO, user, jobs, ran>> /\ pc[w] = "check"
  BY DEF CheckTake, Goto
<1> HIDE DEF t
<1>4. TypeOK'
  BY <1>2, <1>3 DEF IInv, TypeOK, Label
<1>5. user' # "new"
  BY <1>3, InUse
<1>6. Once'
  <2>1. \A v \in Worker, j \in Job : Holds(v, j)' <=> Holds(v, j) \/ (v = w /\ j = t)
    BY <1>3 DEF Holds, IInv, TypeOK
  <2>2. ASSUME NEW j \in Job PROVE OnceOf(j)'
    <3>1. CASE j = t
      <4>1. ~In(tasks', j) /\ ~In(pendingTasks', j) /\ (\A v \in Worker : Holds(v, j)' => v = w)
        BY <3>1, <1>2, <1>3, <2>1 DEF IInv, Once, OnceOf
      <4>2. j <= jobs' /\ ran'[j] = 0
        BY <3>1, <1>2, <1>3 DEF IInv, Once, OnceOf
      <4> QED
        BY <4>1, <4>2 DEF OnceOf, In
    <3>2. CASE j # t
      <4>1. (In(tasks', j) <=> In(tasks, j)) /\ (In(pendingTasks', j) <=> In(pendingTasks, j))
        BY <3>2, <1>2, <1>3
      <4>2. \A v \in Worker : Holds(v, j)' <=> Holds(v, j)
        BY <3>2, <2>1
      <4> QED
        BY <4>1, <4>2, <1>3 DEF IInv, Once, OnceOf, In
    <3> QED
      BY <3>1, <3>2
  <2> QED
    BY <1>2, <1>3, <2>2 DEF IInv, Once, Distinct
<1>7. Announced'
  <2>1. CASE t = SlowMessage
    <3>1. task'[w] = SlowMessage /\ pc'[w] = "run"
      BY <2>1, <1>3 DEF IInv, TypeOK
    <3> QED
      BY <3>1 DEF Announced, OnItsWay
  <2>2. CASE t # SlowMessage
    <3>1. In(tasks, SlowMessage) => In(tasks', SlowMessage)
      BY <2>2, <1>2, <1>3
    <3>2. \A v \in Worker : pc[v] \in {"run", "slow_lock"} => pc'[v] = pc[v] /\ task'[v] = task[v]
      BY <1>3 DEF IInv, TypeOK
    <3> QED
      BY <1>3, <3>1, <3>2 DEF IInv, Announced, OnItsWay, In
  <2> QED
    BY <2>1, <2>2
<1>8. SlowLimit'
  <2>1. RunningSlow' = RunningSlow
    BY <1>3 DEF RunningSlow, IInv, TypeOK
  <2> QED
    BY <2>1, <1>3 DEF IInv, SlowLimit
<1> QED
  BY <1>4, <1>5, <1>6, <1>7, <1>8 DEF IInv, Unused

\* A worker that has run the job it held.
LEMMA RunSteps ==
    ASSUME Bounded, IInv, NEW w \in Worker, NEW label \in {"lock", "slow_end"},
           pc[w] = (IF label = "lock" THEN "run" ELSE "slow_run"), task[w] # SlowMessage,
           ran' = [ran EXCEPT ![task[w]] = @ + 1], pc' = [pc EXCEPT ![w] = label],
           UNCHANGED <<data, task, user, jobs>>
    PROVE  IInv'
<1>1. task[w] \in Job /\ Holds(w, task[w]) /\ label \in Label
  BY DEF IInv, TypeOK, Holds, Label, Resting
<1>2. ran[task[w]] = 0 /\ task[w] <= jobs /\ ~In(tasks, task[w]) /\ ~In(pendingTasks, task[w])
  BY <1>1 DEF IInv, Once, OnceOf
<1>3. TypeOK'
  BY <1>1 DEF IInv, TypeOK, data
<1>4. Once'
  <2>1. \A v \in Worker, j \in Job : Holds(v, j)' <=> Holds(v, j) /\ v # w
    BY DEF Holds, IInv, TypeOK
  <2>2. ASSUME NEW j \in Job PROVE OnceOf(j)'
    <3>1. CASE j = task[w]
      <4>1. ~In(tasks', j) /\ ~In(pendingTasks', j) /\ (\A v \in Worker : ~Holds(v, j)')
        BY <3>1, <1>1, <1>2, <2>1 DEF IInv, Once, OnceOf, data
      <4>2. j <= jobs' /\ ran'[j] = 1
        BY <3>1, <1>1, <1>2 DEF IInv, TypeOK
      <4> QED
        BY <4>1, <4>2 DEF OnceOf, In
    <3>2. CASE j # task[w]
      <4>1. ran'[j] = ran[j] /\ tasks' = tasks /\ pendingTasks' = pendingTasks /\ jobs' = jobs
        BY <3>2, <1>1 DEF IInv, TypeOK, data
      <4>2. OnceOf(j)
        BY DEF IInv, Once
      <4> QED
        BY <4>1, <4>2, <2>1 DEF OnceOf, In
    <3> QED
      BY <3>1, <3>2
  <2> QED
    BY <2>2 DEF IInv, Once, Distinct, data
<1>5. Announced'
  <2>1. \A v \in Worker : pc[v] \in {"run", "slow_lock"} /\ task[v] = SlowMessage => pc'[v] = pc[v]
    BY DEF IInv, TypeOK
  <2> QED
    BY <2>1 DEF IInv, Announced, OnItsWay, In, data
<1>6. SlowLimit'
  <2>1. RunningSlow' = RunningSlow
    BY DEF RunningSlow, IInv, TypeOK
  <2> QED
    BY <2>1 DEF IInv, SlowLimit, data
<1>7. user' # "new"
  BY InUse
<1> QED
  BY <1>3, <1>4, <1>5, <1>6, <1>7 DEF IInv, Unused

LEMMA RunMessageStep == ASSUME Bounded, IInv, NEW w \in Worker, RunMessage(w) PROVE IInv'
<1>1. /\ pc[w] = "run" /\ task[w] = SlowMessage /\ pc' = [pc EXCEPT ![w] = "slow_lock"]
      /\ UNCHANGED <<data, task, user, jobs, ran>> /\ SlowMessage \notin Job
  BY DEF RunMessage, Goto, Bounded, Job
<1>2. TypeOK'
  BY <1>1 DEF IInv, TypeOK, Label, data
<1>3. \A v \in Worker, j \in Job : Holds(v, j)' <=> Holds(v, j)
  BY <1>1 DEF Holds, IInv, TypeOK
<1>4. Once'
  BY <1>1, <1>3 DEF IInv, Once, OnceOf, data, In, Distinct
<1>5. task'[w] = SlowMessage /\ pc'[w] = "slow_lock"
  BY <1>1 DEF IInv, TypeOK
<1>6. Announced'
  BY <1>5 DEF Announced, OnItsWay
<1>7. RunningSlow' = RunningSlow
  BY <1>1 DEF RunningSlow, IInv, TypeOK
<1>8. SlowLimit' /\ user' # "new"
  BY <1>1, <1>7, InUse DEF IInv, SlowLimit, data
<1> QED
  BY <1>2, <1>4, <1>6, <1>8 DEF IInv, Unused

\* The steps of runSlowMessage keep it.
LEMMA SlowNoneStep == ASSUME Bounded, IInv, NEW w \in Worker, SlowNone(w) PROVE IInv'
<1>1. /\ pc[w] = "slow_lock" /\ pendingTasks = <<>> /\ pc' = [pc EXCEPT ![w] = "lock"]
      /\ UNCHANGED <<data, task, user, jobs, ran>>
  BY DEF SlowNone, Goto
<1>2. TypeOK'
  BY <1>1 DEF IInv, TypeOK, Label, Resting, data
<1>3. \A v \in Worker, j \in Job : Holds(v, j)' <=> Holds(v, j)
  BY <1>1 DEF Holds, IInv, TypeOK
<1>4. Once'
  BY <1>1, <1>3 DEF IInv, Once, OnceOf, data, In, Distinct
<1>5. Announced'
  BY <1>1 DEF Announced, data
<1>6. RunningSlow' = RunningSlow
  BY <1>1 DEF RunningSlow, IInv, TypeOK
<1>7. SlowLimit' /\ user' # "new"
  BY <1>1, <1>6, InUse DEF IInv, SlowLimit, data
<1> QED
  BY <1>2, <1>4, <1>5, <1>7 DEF IInv, Unused

LEMMA SlowLaterStep == ASSUME Bounded, IInv, NEW w \in Worker, SlowLater(w) PROVE IInv'
<1>1. /\ /\ pc[w] = "slow_lock"
      /\ tasks' = Append(tasks, SlowMessage) /\ pc' = [pc EXCEPT ![w] = "lock"]
      /\ UNCHANGED <<pendingTasks, runningSlowIO, task, user, jobs, ran>>
  BY DEF SlowLater, Goto
<1>2. tasks \in Seq(Job \cup {SlowMessage}) /\ Distinct(tasks) /\ SlowMessage \notin Job
  BY DEF Bounded, Job, IInv, TypeOK, Once
<1>3. /\ tasks' \in Seq(Job \cup {SlowMessage}) /\ Distinct(tasks')
      /\ \A j : In(tasks', j) <=> In(tasks, j) \/ j = SlowMessage
  BY <1>1, <1>2, Appended
<1>4. TypeOK'
  BY <1>1, <1>3 DEF IInv, TypeOK, Label, Resting
<1>5. \A v \in Worker, j \in Job : Holds(v, j)' <=> Holds(v, j)
  BY <1>1 DEF Holds, IInv, TypeOK
<1>6. Once'
  <2>1. ASSUME NEW j \in Job PROVE OnceOf(j)'
    <3>1. (In(tasks', j) <=> In(tasks, j)) /\ (In(pendingTasks', j) <=> In(pendingTasks, j))
      BY <1>1, <1>2, <1>3
    <3> QED
      BY <3>1, <1>1, <1>5 DEF IInv, Once, OnceOf, In
  <2> QED
    BY <1>1, <1>3, <2>1 DEF IInv, Once, Distinct
<1>7. Announced'
  BY Zenon, <1>3 DEF Announced, OnItsWay, In
<1>8. RunningSlow' = RunningSlow
  BY <1>1 DEF RunningSlow, IInv, TypeOK
<1>9. SlowLimit' /\ user' # "new"
  BY <1>1, <1>8, InUse DEF IInv, SlowLimit
<1> QED
  BY <1>4, <1>6, <1>7, <1>9 DEF IInv, Unused

LEMMA SlowTakeStep == ASSUME Bounded, IInv, NEW w \in Worker, SlowTake(w) PROVE IInv'
<1> DEFINE t == Head(pendingTasks)
           again == Len(pendingTasks) > 1
<1>1. /\ /\ pendingTasks \in Seq(Job) /\ pendingTasks # <<>>
      /\ Distinct(pendingTasks) /\ SlowMessage \notin Job
      /\ tasks \in Seq(Job \cup {SlowMessage}) /\ Distinct(tasks)
  BY DEF Bounded, Job, IInv, TypeOK, Once, SlowTake
<1>2. /\ t \in Job /\ In(pendingTasks, t)
      /\ Tail(pendingTasks) \in Seq(Job) /\ Distinct(Tail(pendingTasks))
      /\ \A j : In(Tail(pendingTasks), j) => In(pendingTasks, j)
      /\ \A j : In(pendingTasks, j) => j = t \/ In(Tail(pendingTasks), j)
      /\ ~In(Tail(pendingTasks), t)
  BY <1>1, Shortened
<1>3. ~again => Tail(pendingTasks) = <<>>
  BY <1>1
<1>4. /\ task' = [task EXCEPT ![w] = t] /\ pendingTasks' = Tail(pendingTasks)
      /\ pc' = [pc EXCEPT ![w] = "slow_run"] /\ pc[w] = "slow_lock"
      /\ tasks' = (IF again THEN Append(tasks, SlowMessage) ELSE tasks)
      /\ runningSlowIO' = runningSlowIO + 1 /\ runningSlowIO <= runningSlowIOThreshold
      /\ UNCHANGED <<user, jobs, ran>>
  BY DEF SlowTake, Goto
<1> HIDE DEF t, again
<1>5. /\ tasks' \in Seq(Job \cup {SlowMessage}) /\ Distinct(tasks')
      /\ \A j : In(tasks', j) <=> In(tasks, j) \/ (again /\ j = SlowMessage)
  <2>1. CASE again
    BY <1>1, <1>4, <2>1, Appended
  <2>2. CASE ~again
    BY <1>1, <1>4, <2>2
  <2> QED
    BY <2>1, <2>2
<1>6. TypeOK'
  BY <1>2, <1>4, <1>5 DEF IInv, TypeOK, Label
<1>7. Once'
  <2>1. \A v \in Worker, j \in Job : Holds(v, j)' <=> Holds(v, j) \/ (v = w /\ j = t)
    BY <1>4 DEF Holds, IInv, TypeOK
  <2>2. ASSUME NEW j \in Job PROVE OnceOf(j)'
    <3>0. In(tasks', j) <=> In(tasks, j)
      BY <1>1, <1>5
    <3>1. CASE j = t
      <4>1. ~In(tasks', j) /\ ~In(pendingTasks', j) /\ (\A v \in Worker : Holds(v, j)' => v = w)
        BY <3>0, <3>1, <1>2, <1>4, <2>1 DEF IInv, Once, OnceOf
      <4>2. j <= jobs' /\ ran'[j] = 0
        BY <3>1, <1>2, <1>4 DEF IInv, Once, OnceOf
      <4> QED
        BY <4>1, <4>2 DEF OnceOf, In
    <3>2. CASE j # t
      <4>1. In(pendingTasks', j) <=> In(pendingTasks, j)
        BY <3>2, <1>2, <1>4
      <4>2. \A v \in Worker : Holds(v, j)' <=> Holds(v, j)
        BY <3>2, <2>1
      <4> QED
        BY <3>0, <4>1, <4>2, <1>4 DEF IInv, Once, OnceOf, In
    <3> QED
      BY <3>1, <3>2
  <2> QED
    BY <1>2, <1>4, <1>5, <2>2 DEF Once, Distinct
<1>8. Announced'
  <2>1. again => In(tasks', SlowMessage)
    BY <1>5
  <2> QED
    BY <2>1, <1>3, <1>4 DEF Announced, OnItsWay, In
<1>9. SlowLimit'
  <2>1. RunningSlow' = RunningSlow \cup {w} /\ w \notin RunningSlow
    BY <1>4 DEF RunningSlow, IInv, TypeOK
  <2>2. Cardinality(RunningSlow') = Cardinality(RunningSlow) + 1
    BY SMTT(30), <2>1, Finite, FS_AddElement
  <2> QED
    BY <2>2, <1>4, Threshold DEF IInv, SlowLimit, TypeOK
<1>10. user' # "new"
  BY <1>4, InUse
<1> QED
  BY <1>6, <1>7, <1>8, <1>9, <1>10 DEF IInv, Unused

LEMMA SlowEndStep == ASSUME Bounded, IInv, NEW w \in Worker, SlowEnd(w) PROVE IInv'
<1>1. /\ pc[w] = "slow_end" /\ runningSlowIO' = runningSlowIO - 1 /\ pc' = [pc EXCEPT ![w] = "lock"]
      /\ UNCHANGED <<tasks, pendingTasks, task, user, jobs, ran>>
  BY DEF SlowEnd, Goto
<1>2. RunningSlow' = RunningSlow \ {w} /\ w \in RunningSlow
  BY <1>1 DEF RunningSlow, IInv, TypeOK
<1>3. Cardinality(RunningSlow') = Cardinality(RunningSlow) - 1 /\ Cardinality(RunningSlow) # 0
  BY Zenon, <1>2, Finite, FS_RemoveElement, FS_EmptySet
<1>4. SlowLimit' /\ runningSlowIO' \in Nat
  BY <1>1, <1>3, Threshold DEF IInv, SlowLimit, TypeOK
<1>5. TypeOK'
  BY <1>1, <1>4 DEF IInv, TypeOK, Label, Resting
<1>6. \A v \in Worker, j \in Job : Holds(v, j)' <=> Holds(v, j)
  BY <1>1 DEF Holds, IInv, TypeOK
<1>7. Once'
  BY <1>1, <1>6 DEF IInv, Once, OnceOf, In, Distinct
<1>8. Announced'
  <2>1. \A v \in Worker : pc[v] \in {"run", "slow_lock"} => pc'[v] = pc[v]
    BY <1>1 DEF IInv, TypeOK
  <2> QED
    BY <1>1, <2>1 DEF IInv, Announced, OnItsWay, In
<1>9. user' # "new"
  BY <1>1, InUse
<1> QED
  BY <1>4, <1>5, <1>7, <1>8, <1>9 DEF IInv, Unused

\* Every step keeps the invariant.
LEMMA NextStep == ASSUME Bounded, IInv, [Next]_vars PROVE IInv'
<1>1. CASE UNCHANGED vars
  BY <1>1 DEF vars, data, IInv, TypeOK, Unused, Once, OnceOf, Distinct, In, Holds, Announced, OnItsWay,
       SlowLimit, RunningSlow
<1>2. CASE Use
  BY <1>2, UseSteps, SubmitStep DEF Use, Bounded
<1>3. ASSUME NEW w \in Worker, RunJob(w) \/ SlowRun(w) PROVE IInv'
  <2>1. CASE RunJob(w)
    BY Zenon, <2>1, RunSteps DEF RunJob, Goto
  <2>2. CASE SlowRun(w)
    <3>1. task[w] # SlowMessage
      BY <2>2 DEF SlowRun, IInv, TypeOK, Bounded, Job
    <3> QED
      BY Zenon, <2>2, <3>1, RunSteps DEF SlowRun, Goto
  <2> QED
    BY <1>3, <2>1, <2>2
<1>4. ASSUME NEW w \in Worker, Work(w) \/ SpuriousWakeup(w) PROVE IInv'
  BY <1>3, <1>4, WaitSteps, CheckTakeStep, RunMessageStep, SlowNoneStep, SlowLaterStep, SlowTakeStep,
     SlowEndStep DEF Work
<1> QED
  BY <1>1, <1>2, <1>4 DEF Next

\* It holds all the time.
LEMMA Invariant == ASSUME Bounded PROVE Spec => []IInv
<1>1. Init => IInv
  BY InitHolds
<1>2. IInv /\ [Next]_vars => IInv'
  BY NextStep
<1> QED
  BY <1>1, <1>2, PTL DEF Spec

\* No submitted job is run twice, and none that was not submitted.
THEOREM RunsAtMostOnce == ASSUME Bounded PROVE Spec => []AtMostOnce
<1>1. IInv => AtMostOnce
  BY DEF IInv, Once, OnceOf, AtMostOnce, Job
<1> QED
  BY <1>1, Invariant, PTL

\* runningSlowIO is the number of workers with a slow job, and at most one above the
\* threshold, which the code compares with > and not with >=.
THEOREM SlowJobsCounted == ASSUME Bounded PROVE Spec => []SlowLimit
<1>1. IInv => SlowLimit
  BY DEF IInv
<1> QED
  BY <1>1, Invariant, PTL

\* While a slow job is pending, a message that will look for it is queued or being run:
\* no slow job is orphaned, although the two are queued apart.
THEOREM SlowJobsAnnounced == ASSUME Bounded PROVE Spec => []PendingHasMessage
<1>1. IInv => PendingHasMessage
  <2> SUFFICES ASSUME IInv, pendingTasks # <<>> PROVE Messages > 0
    BY DEF PendingHasMessage
  <2> DEFINE queued == {i \in DOMAIN tasks : tasks[i] = SlowMessage}
             taken == {w \in Worker : task[w] = SlowMessage /\ pc[w] \in {"run", "slow_lock"}}
  <2>1. queued # {} \/ taken # {}
    BY DEF IInv, Announced, OnItsWay, In
  <2>2. IsFiniteSet(queued) /\ IsFiniteSet(taken)
    <3>1. DOMAIN tasks = 1 .. Len(tasks) /\ Len(tasks) \in Nat
      BY DEF IInv, TypeOK
    <3>2. IsFiniteSet(DOMAIN tasks)
      BY <3>1, FS_Interval
    <3> QED
      BY <3>2, FS_Subset DEF Bounded
  <2>3. Cardinality(queued) \in Nat /\ Cardinality(taken) \in Nat
    BY <2>2, FS_CardinalityType
  <2>4. Cardinality(queued) # 0 \/ Cardinality(taken) # 0
    BY <2>1, <2>2, FS_EmptySet
  <2>5. Messages = Cardinality(queued) + Cardinality(taken)
    BY DEF Messages
  <2> HIDE DEF queued, taken
  <2> QED
    BY <2>3, <2>4, <2>5
<1> QED
  BY <1>1, Invariant, PTL
=============================================================================
