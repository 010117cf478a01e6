------------------------------ MODULE Runtime ------------------------------
(***************************************************************************)
(* The concurrent programs of the repository side by side: locks, thread   *)
(* pool, event loops, executors and the servers on top of them.  They do   *)
(* not share anything, so a behaviour runs one of them.  The locks keep    *)
(* their own variables; the others use m1, m2, ... for theirs, and those   *)
(* that a program does not need stay 0.                                    *)
(***************************************************************************)
EXTENDS Locks

VARIABLES program, m1, m2, m3, m4, m5, m6, m7, m8, m9, m10, m11, m12, m13, m14, m15, m16

memory == <<m1, m2, m3, m4, m5, m6, m7, m8, m9, m10, m11, m12, m13, m14, m15, m16>>
allVars == <<program, vars, spinVars, memory>>

\* From mi on, the memory is not used.
Off16 == m16 = 0
Off13 == m13 = 0 /\ m14 = 0 /\ m15 = 0 /\ Off16
Off12 == m12 = 0 /\ Off13
Off11 == m11 = 0 /\ Off12
Off8 == m8 = 0 /\ m9 = 0 /\ m10 = 0 /\ Off11
Off1 == m1 = 0 /\ m2 = 0 /\ m3 = 0 /\ m4 = 0 /\ m5 = 0 /\ m6 = 0 /\ m7 = 0 /\ Off8

On(p) == program = p /\ UNCHANGED <<program, vars, spinVars>>
On16(p) == On(p)
On12(p) == On(p) /\ UNCHANGED <<m13, m14, m15, m16>>
On11(p) == On12(p) /\ UNCHANGED m12
On10(p) == On11(p) /\ UNCHANGED m11
On7(p) == On10(p) /\ UNCHANGED <<m8, m9, m10>>
-----------------------------------------------------------------------------
Workers == <<"w1", "w2", "w3">>
Pool == INSTANCE ThreadPool WITH
    Worker <- {"w1", "w2", "w3"}, MAX_JOBS <- 3, SlowMessage <- -1, LockedStop <- TRUE, Kinds <- BOOLEAN, Caution <- "quiet",
    mutex <- m1, tasks <- m2, pendingTasks <- m3, runningSlowIO <- m4, stop <- m5,
    pc <- m6, task <- m7, user <- m8, jobs <- m9, ran <- m10

Task == 1 .. 4
Coroutines == INSTANCE UringContext WITH
    Root <- 1, ENTRIES <- 2, PLUG_MAX <- 2, MAX_OPS <- 2,
    operations <- m1, sq <- m2, kernel <- m3, cq <- m4, inflight <- m5, stop <- m6,
    left <- m7, spawned <- m8, ended <- m9, mode <- m10, pc <- m11, n <- m12

Conn == INSTANCE Connector WITH
    Faults <- 3, Hard <- TRUE,
    sock <- m1, err <- m2, reconnect <- m3, nextInstance <- m4, stage <- m5, faults <- m6, seen <- m7

Exec == INSTANCE RunLoops WITH
    Waits <- 2, Inline <- 3,
    next <- m1, tail <- m2, variant <- m3, finishing <- m4, main <- m5, i <- m6,
    loop <- m7, cur <- m8, done <- m9, ran <- m10, dead <- m11,
    Senders <- 4, Reads <- {2, 3}, Entries <- 1,
    started <- m3, pc <- m4, op <- m5, sq <- m6, inflight <- m7, cq <- m8, outcome <- m10

Rings == INSTANCE UringRings WITH
    W <- 16, Depth <- 4, Count <- 3, Garbage <- {0, 1, 3, 9},
    program <- m1, pc <- m2, sqHead <- m3, sqTail <- m4, array <- m5, sqes <- m6,
    sqeHead <- m7, sqeTail <- m8, cqHead <- m9, cqTail <- m10, cqes <- m11, inflight <- m12,
    ret <- m13, k <- m14, got <- m15, firstPeek <- m16

Client == <<"c", "d">>
Echo == INSTANCE UringEcho WITH
    Conns <- {"c", "d"}, Fds <- {3, 4}, Texts <- {<<"t", "t">>, <<"t", "Zz-", "t">>}, Failures <- TRUE,
    text <- m1, sent <- m2, taken <- m3, echoed <- m4, state <- m5, fd <- m6, ops <- m7,
    cq <- m8, buf <- m9, up <- m10

Web == INSTANCE WebServer WITH
    Conns <- {"c", "d"}, Fds <- {1}, PerRequest <- 2, READ_BUFFER <- 3, MAX_RESPONSES <- 2,
    Requests <- 2, LateReset <- FALSE, Interrupts <- FALSE,
    net <- m1, fdOf <- m2, interest <- m3, sockets <- m4, batch <- m5, stopped <- m6, module <- m7

Procs == 1 .. 3
Epoll == INSTANCE EpollPrograms WITH
    Arrivals <- 3,
    prog <- m1, pc <- m2, q <- m3, items <- m4, ready <- m5, spent <- m6, woken <- m7,
    came <- m8, calm <- m9, events <- m10
-----------------------------------------------------------------------------
RuntimeInit ==
    /\ Init /\ SpinInit /\ (readSpin => program = "Spinlock.cpp")
    /\ \/ program \in {"SharedMutex.cpp", "Spinlock.cpp"} /\ Off1
       \/ program = "ThreadPool.cpp" /\ Pool!Init /\ Off11
       \/ program = "coroutine.h" /\ Coroutines!Init /\ Off13
       \/ program = "Connector.h" /\ Conn!Init /\ Off8
       \/ program = "execution_simple.cpp" /\ Exec!LoopInit /\ Off12
       \/ program = "stdexec" /\ Exec!ExecInit /\ Off11
       \/ program = "io_uring" /\ Rings!Init
       \/ program = "echo.cpp" /\ Echo!Init /\ Off11
       \/ program = "web" /\ Web!Init /\ Off8
       \/ program = "epoll" /\ Epoll!Init /\ Off11

MutexStep(t) == program = "SharedMutex.cpp" /\ Step(t) /\ UNCHANGED <<program, spinVars, memory>>
ContenderStep(t) == program = "Spinlock.cpp" /\ SpinStep(t) /\ UNCHANGED <<program, vars, memory>>

RuntimeNext ==
    \/ \E t \in Thread : MutexStep(t)
    \/ \E t \in Contender : ContenderStep(t)
    \/ On10("ThreadPool.cpp") /\ Pool!Next
    \/ On12("coroutine.h") /\ Coroutines!Next
    \/ On7("Connector.h") /\ Conn!Next
    \/ On11("execution_simple.cpp") /\ Exec!LoopNext
    \/ On10("stdexec") /\ Exec!ExecNext
    \/ On16("io_uring") /\ Rings!Next
    \/ On10("echo.cpp") /\ Echo!Next
    \/ On7("web") /\ Web!Next
    \/ On10("epoll") /\ Epoll!Next

\* Whoever is scheduled again and again, by number: the threads and processes of a
\* program, its event loop, the kernel at work on one operation, a connected client.
\* Only one program runs, so the agents with one number never wait for each other.
Agent(i) ==
    \/ i \in Thread /\ MutexStep(i)
    \/ i \in Contender /\ ContenderStep(i)
    \/ On10("ThreadPool.cpp") /\ \/ i = 0 /\ (Pool!NotifyOne \/ Pool!NotifyAll)
                                 \/ i \in 1 .. 3 /\ Pool!Work(Workers[i])
    \/ On12("coroutine.h") /\ \/ i = 0 /\ Coroutines!Loop
                              \/ i \in Task /\ Coroutines!Complete(i)
    \/ On7("Connector.h") /\ \/ i = 0 /\ Conn!Looper
                             \/ i = 1 /\ Conn!Established
    \/ On11("execution_simple.cpp") /\ \/ i = 0 /\ Exec!Main
                                       \/ i = 1 /\ Exec!Loop
    \/ On10("stdexec") /\ \/ i = 0 /\ Exec!Push
                          \/ i = 1 /\ Exec!Run
                          \/ i = 2 /\ Exec!Kernel
    \/ On16("io_uring") /\ \/ i = 0 /\ Rings!Main
                           \/ i = 1 /\ Rings!Complete
    \/ On10("echo.cpp") /\ \/ i = 0 /\ Echo!Loop
                           \/ i \in {1, 2} /\ Echo!Operate(i + 2)
                           \/ i \in {3, 4} /\ Echo!GoOn(Client[i - 2])
    \/ i = 0 /\ On7("web") /\ Web!Server
    \/ i \in Procs /\ On10("epoll") /\ Epoll!Step(i)

\* What happens in the end if it is possible again and again, although not all the
\* time: a weak exchange with the current value succeeds, a mutex is not withheld
\* from one thread for ever, and a connection is not left in the backlog.
Chance(i) ==
    \/ /\ i + 2 \in Reader /\ pc[i + 2] \in {"lock_shared", "unlock_shared"}
       /\ MutexStep(i + 2) /\ n' # n
    \/ i \in 1 .. 3 /\ On10("ThreadPool.cpp") /\ Pool!NeedsMutex(Workers[i])
    \/ i \in {1, 2} /\ On10("echo.cpp") /\ Echo!Accepted(Client[i])

Fairness == (\A i \in 0 .. 4 : WF_allVars(Agent(i))) /\ \A i \in 1 .. 3 : SF_allVars(Chance(i))

RuntimeSpec == RuntimeInit /\ [][RuntimeNext]_allVars /\ Fairness
-----------------------------------------------------------------------------
\* No job of the thread pool runs twice, although slow jobs and their messages are
\* queued apart.
AtMostOnce == program = "ThreadPool.cpp" => Pool!AtMostOnce

\* A pending slow job always has a message on its way, and runningSlowIO counts the
\* workers with a slow job, at most one above the threshold.
SlowPath == program = "ThreadPool.cpp" => Pool!PendingHasMessage /\ Pool!SlowLimit

\* Io_context: _inflight is what the kernel holds or has completed, and a coroutine
\* waits to be resumed in exactly one place until it ends.
CoroutineBooks == program = "coroutine.h" => Coroutines!InflightExact /\ Coroutines!HeldOnce

\* Nothing is completed twice, too early or after its operation is gone: contexts are
\* made for connected sockets only (Connector.h), the run loops execute every started
\* task once (execution_simple.cpp, stdexec/io_uring.cpp), and the programs on the raw
\* rings submit and see every write once (io_uring/*.cpp).  One exception: the operation of
\* a second sync_wait on one loop of execution_simple.cpp is pushed behind a task that is
\* gone and never runs.
CompletionsExact ==
    /\ program = "Connector.h" => Conn!ContextConnected
    /\ program = "execution_simple.cpp" => Exec!TasksRunOnce
    /\ program = "stdexec" => Exec!ToldOnce
    /\ program = "io_uring" => Rings!AllSubmitted /\ Rings!PeekExact /\ Rings!AssertsBlameGarbage

\* A server answers every client with what is due to it and nothing else, although
\* requests are cut into arbitrary reads and descriptors and buffers are reused.  Only the
\* web server in the kernel drops a connection, when it finds no descriptor for it.
ResponsesExact ==
    /\ program = "web" => Web!OutMeansPending /\ Web!OneToOne
    /\ program = "echo.cpp" => Echo!EchoExact

\* The epoll programs whose comment says that there is no thundering herd wake one
\* process for one arrival, and a one-shot registration delivers once.
HerdAsSaid == program = "epoll" => Epoll!HerdAsSaid

\* What the running program still owes.
Owes ==
    \/ program = "SharedMutex.cpp" /\ ~Joined
    \/ program = "Spinlock.cpp" /\ ~SpinJoined
    \/ program = "ThreadPool.cpp" /\ Pool!Owed
    \/ program = "coroutine.h" /\ Coroutines!Owed
    \/ program = "Connector.h" /\ Conn!Owed
    \/ program = "execution_simple.cpp" /\ Exec!LoopOwed
    \/ program = "stdexec" /\ Exec!ExecOwed
    \/ program = "io_uring" /\ Rings!Owed
    \/ program = "echo.cpp" /\ Echo!Owed
    \/ program = "web" /\ Web!Owed
    \/ program = "epoll" /\ Epoll!Owed

\* Whenever something is owed, there comes a time when nothing is: the threads of the
\* lock tests join ("test deadlock" in SharedMutex.cpp), submitted jobs are done and
\* workers leave, coroutines end and draining ends, a connect() settles, senders and
\* programs complete, clients are answered and closed, arrivals are taken by somebody.
\* The second sync_wait on a loop of execution_simple.cpp is not among what is owed.
WorkEnds == Owes ~> ~Owes
=============================================================================
