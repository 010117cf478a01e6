------------------------------- MODULE Queues -------------------------------
(***************************************************************************)
(* The blocking and the single-producer queues of Concurrency/: Queue and  *)
(* Queue_v2 of Queue.cpp, called by any mix of threads, and the ring of    *)
(* Fifo.cpp under its main(); and the double buffer of the logger of       *)
(* net/fluent.  A behaviour uses one of them; the others stay as they were *)
(* constructed.                                                            *)
(*                                                                         *)
(* Queue comes first: a deque under one mutex, with a condition variable   *)
(* for wait_and_pop.  A push notifies after it has released the mutex, so  *)
(* other calls come in between.                                            *)
(***************************************************************************)
EXTENDS Integers, Sequences, FiniteSets

CONSTANTS
    Producer, Consumer,
    MAX_PUSHES  \* bound on calls of push; the i-th one pushes i

ASSUME MonitorQueueAssumption ==
    IsFiniteSet(Producer) /\ IsFiniteSet(Consumer) /\ MAX_PUSHES \in Nat

VARIABLES
    container,  \* _container
    notifying,  \* producers between the mutex and notify_one
    asleep,     \* consumers waiting on _condition
    awake,      \* consumers notified and not yet back under the mutex
    pushes, got \* calls of push; what the consumers got, in order

vars == <<container, notifying, asleep, awake, pushes, got>>

Init ==
    /\ container = <<>>
    /\ notifying = {} /\ asleep = {} /\ awake = {}
    /\ pushes = 0 /\ got = <<>>

\* The critical section of push.
Push(p) ==
    /\ p \in Producer \ notifying /\ pushes < MAX_PUSHES
    /\ container' = Append(container, pushes + 1)
    /\ pushes' = pushes + 1
    /\ notifying' = notifying \cup {p}
    /\ UNCHANGED <<asleep, awake, got>>

\* mutant: notify_one only if the queue was empty before
NotifyFirst(p) ==
    /\ p \in notifying
    /\ notifying' = notifying \ {p}
    /\ IF asleep = {} \/ Len(container) # 1 THEN UNCHANGED <<asleep, awake>>
       ELSE \E c \in asleep : asleep' = asleep \ {c} /\ awake' = awake \cup {c}
    /\ UNCHANGED <<container, pushes, got>>

\* _condition.notify_one()
Notify(p) ==
    /\ p \in notifying
    /\ notifying' = notifying \ {p}
    /\ IF asleep = {} THEN UNCHANGED <<asleep, awake>>
       ELSE \E c \in asleep : asleep' = asleep \ {c} /\ awake' = awake \cup {c}
    /\ UNCHANGED <<container, pushes, got>>

\* The first element leaves the container.
Take ==
    /\ container # <<>>
    /\ got' = Append(got, Head(container))
    /\ container' = Tail(container)

\* try_pop; of an empty queue it changes nothing
TryPop(c) ==
    /\ c \in Consumer \ (asleep \cup awake)
    /\ Take
    /\ UNCHANGED <<notifying, asleep, awake, pushes>>

\* mutant: a consumer that was notified does not look again
WaitAndPopOnce(c) ==
    /\ c \in Consumer \ asleep
    /\ \/ container # <<>> /\ Take /\ UNCHANGED asleep
       \/ container = <<>> /\ c \notin awake /\ asleep' = asleep \cup {c} /\ UNCHANGED <<container, got>>
       \/ container = <<>> /\ c \in awake /\ got' = Append(got, 0) /\ UNCHANGED <<container, asleep>>
    /\ awake' = awake \ {c}
    /\ UNCHANGED <<notifying, pushes>>

\* wait_and_pop has the mutex, at its call or after a wakeup: the predicate is
\* tested, and the consumer takes the element or sleeps.
WaitAndPop(c) ==
    /\ c \in Consumer \ asleep
    /\ \/ Take /\ UNCHANGED asleep
       \/ container = <<>> /\ asleep' = asleep \cup {c} /\ UNCHANGED <<container, got>>
    /\ awake' = awake \ {c}
    /\ UNCHANGED <<notifying, pushes>>

SpuriousWakeup(c) ==
    /\ c \in asleep
    /\ asleep' = asleep \ {c} /\ awake' = awake \cup {c}
    /\ UNCHANGED <<container, notifying, pushes, got>>

Next ==
    \/ \E p \in Producer : Push(p) \/ Notify(p)
    \/ \E c \in Consumer : TryPop(c) \/ WaitAndPop(c) \/ SpuriousWakeup(c)

Spec == Init /\ [][Next]_vars
-----------------------------------------------------------------------------
\* A consumer is in one place, and elements are what was pushed.
TypeOK ==
    /\ container \in Seq(Nat) /\ got \in Seq(Nat)
    /\ notifying \subseteq Producer
    /\ asleep \subseteq Consumer /\ awake \subseteq Consumer
    /\ asleep \cap awake = {}
    /\ pushes \in 0 .. MAX_PUSHES

\* While a consumer sleeps, every element in the queue has a producer that is
\* going to notify or a consumer that was woken: no wakeup is lost, although
\* try_pop and other callers of wait_and_pop take elements in between.
NoLostWakeup ==
    asleep # {} => Len(container) <= Cardinality(notifying) + Cardinality(awake)

\* Elements come out in the order they went in.
Served == got \o container = [i \in 1 .. pushes |-> i]

\* An element does not stay while a consumer sleeps.
Progress == [](container # <<>> => <>(container = <<>> \/ asleep = {}))
-----------------------------------------------------------------------------
(***************************************************************************)
(* All of them side by side.                                               *)
(***************************************************************************)
CONSTANTS
    Thread, V2_PUSHES,      \* the callers of Queue_v2
    SIZE, Number, COUNT,    \* the ring, and the numbers main() sends through it
    Client, BUFSIZE, Space, fileMaxSize, MAX_BYTES  \* Logger

\* "free" is no thread; the ring has two slots at least, and its elements include the
\* numbers that are sent.
ASSUME V2Assumption == "free" \notin Thread /\ V2_PUSHES \in Nat
ASSUME RingAssumption ==
    SIZE \in Nat /\ SIZE > 1 /\ COUNT \in Nat /\ 0 .. COUNT \subseteq Number /\ Number \subseteq Int
\* A record that is longer than a buffer would not fit after a swap either.
ASSUME LoggerAssumption ==
    BUFSIZE \in Nat /\ Space \subseteq 1 .. BUFSIZE /\ fileMaxSize \in Nat /\ "nobody" \notin Client

VARIABLES
    queue,                                          \* the class in use
    head, tail, data, next, headMutex, tailMutex,   \* TwoLockQueue
    pc, node, copy, v2Pushes, chain,
    in, out, buffer, prod, cons, sent, ringGot,     \* Fifo
    prev, g_value, failed,
    buf, ridx, rcur, sflag, rmtx, logPc, need,      \* Logger
    applied, kflag, writer, cur, idx, done, file, written, early, stray

V2 == INSTANCE TwoLockQueue WITH MAX_PUSHES <- V2_PUSHES, pushes <- v2Pushes
Ring == INSTANCE Fifo WITH Val <- Number, MAX <- COUNT, got <- ringGot
Log == INSTANCE Logger WITH pc <- logPc

v2Vars == <<head, tail, data, next, headMutex, tailMutex, pc, node, copy, v2Pushes, chain>>
ringVars == <<in, out, buffer, prod, cons, sent, ringGot, prev, g_value, failed>>
logVars == <<buf, ridx, rcur, sflag, rmtx, logPc, need, applied, kflag, writer, cur, idx, done,
             file, written, early, stray>>
allVars == <<queue, vars, v2Vars, ringVars, logVars>>

QueuesInit ==
    /\ queue \in {"Queue", "Queue_v2", "Fifo", "Log"}
    /\ Init /\ V2!Init /\ Ring!Init /\ Log!Init /\ (early => queue = "Log")

Idle(others) == UNCHANGED queue /\ UNCHANGED others

QueueStep == queue = "Queue" /\ Next /\ Idle(<<v2Vars, ringVars, logVars>>)
V2Step(t) == queue = "Queue_v2" /\ V2!Step(t) /\ Idle(<<vars, ringVars, logVars>>)
ProduceStep == queue = "Fifo" /\ Ring!produce /\ Idle(<<vars, v2Vars, logVars>>)
ConsumeStep == queue = "Fifo" /\ Ring!consume /\ Idle(<<vars, v2Vars, logVars>>)
LogStep == queue = "Log" /\ Log!Next /\ Idle(<<vars, v2Vars, ringVars>>)

QueuesNext == QueueStep \/ (\E t \in Thread : V2Step(t)) \/ ProduceStep \/ ConsumeStep \/ LogStep

\* Threads inside a call are scheduled, and a mutex is not withheld from one of
\* them for ever.  A caller of Queue finishes its push, a consumer that was
\* woken gets the mutex.  Nobody has to call again, except in main() of Fifo.  The
\* writer of the logger goes on, and so does one of the threads that log.
QueuesSpec ==
    /\ QueuesInit /\ [][QueuesNext]_allVars
    /\ \A p \in Producer : WF_allVars(QueueStep /\ Notify(p))
    /\ \A c \in Consumer : WF_allVars(QueueStep /\ c \in awake /\ WaitAndPop(c))
    /\ \A t \in Thread :
        /\ WF_allVars(V2Step(t) /\ pc[t] # "idle")
        /\ SF_allVars(V2Step(t) /\ pc[t] \in {"push_lock", "pop_lock", "pop_tail"})
    /\ WF_allVars(ProduceStep \/ (LogStep /\ Log!Wthread))
    /\ WF_allVars(ConsumeStep \/ (LogStep /\ \E c \in Client : Log!Apply(c)))
-----------------------------------------------------------------------------
\* Queue: elements come out in the order they went in.  Logger: the files hold the records
\* that were applied in order, what is missing is in the two buffers, and no file grows
\* beyond its maximum, unless a record was copied in the middle of a swap because apply()
\* reads sflag without smtx (Log.hpp:1305).
InOrder == Served /\ Log!InOrder

\* Queue_v2: the fields a push writes under one mutex and a pop reads under the
\* other are never those of one node, two pops never have the same node, and the nodes
\* linked from _head are those that pushes have appended and pops have not taken.
\* Fifo: the producer never writes the slot the consumer is reading.  Logger: a record
\* is copied into room that nobody else writes or reads, with one exception: where the
\* build stores sflag before ridx and rcur, a client that reads sflag without smtx
\* (Log.hpp:1305) may copy its record into the full buffer and beyond.
NoRace == V2!NoRace /\ V2!SeparateNodes /\ V2!ChainLinked /\ Ring!NoRace /\ Log!NoRace

\* Queue_v2 is a first-in first-out queue, and Fifo is one of capacity SIZE - 1.
QueueSpec == V2!QueueSpec /\ Ring!QueueSpec

\* Nobody waits for ever.  Queue: while there are elements a sleeping consumer is
\* woken.  Queue_v2: every call returns, although a pop takes the two mutexes
\* together and a push takes one of them.  Fifo: both threads of main() return,
\* however small the ring is, and the checkpoints of main() have held.  Logger: unless it
\* is killed, every call returns and every record gets into a file; a record copied in the
\* middle of a swap may be lost, and the program with it.
CallsReturn ==
    /\ Progress
    /\ \A t \in Thread : (pc[t] # "idle") ~> (pc[t] = "idle")
    /\ (queue = "Fifo") ~> (Len(sent) = COUNT /\ Len(ringGot) = COUNT /\ Ring!Checkpoints)
    /\ \A c \in Client : (logPc[c] # "out") ~> (logPc[c] = "out" \/ kflag \/ ~Log!Alive)
    /\ (applied # Len(file)) ~> (applied = Len(file) \/ kflag \/ stray)
=============================================================================
