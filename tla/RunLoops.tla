------------------------------ MODULE RunLoops ------------------------------
(***************************************************************************)
(* Two run loops of senders and receivers: intrusive lists of tasks that   *)
(* one thread pushes to and another executes.                              *)
(*                                                                         *)
(* run_loop, thread_context and sync_wait of c++20/execution_simple.cpp:   *)
(* an intrusive task list under a mutex, the thread that runs it, and the  *)
(* main thread that starts operations, waits for them on a condition       *)
(* variable of its own stack, finishes the loop and joins.                 *)
(*                                                                         *)
(* Three programs use it: "main" is main(), which waits for one operation; *)
(* "again" waits for Waits of them, one after the other, on the same loop; *)
(* "inline", which main() has commented out, starts them all, finishes the *)
(* loop and runs it itself.                                                *)
(***************************************************************************)
EXTENDS Naturals, Sequences, FiniteSets, Functions

CONSTANTS Waits,    \* operations the "again" program waits for, one after the other
          Inline    \* operations the "inline" program starts before it runs the loop

VARIABLES variant,  \* which of the three programs runs
          next,     \* task::next; the list head is task 0
          tail,     \* run_loop::tail
          finishing,
          main,     \* where the main thread is
          i,        \* the operation main is at
          loop,     \* the loop's thread: "run", the task it executes, or "end"
          cur, done, ran, dead

loopVars == <<variant, next, tail, finishing, main, i, loop, cur, done, ran, dead>>

Ops == 1..(CASE variant = "main" -> 1 [] variant = "again" -> Waits [] OTHER -> Inline)
Threaded == variant # "inline"
Tasks == 1..(IF Waits > Inline THEN Waits ELSE Inline)

LoopInit ==
    /\ variant \in {"main", "again", "inline"}
    /\ next = [t \in Tasks \cup {0} |-> t] /\ tail = 0
    /\ finishing = FALSE
    /\ main = "start" /\ i = 1
    /\ loop = IF Threaded THEN "run" ELSE "idle"
    /\ cur = 0
    /\ done = {} /\ ran = [t \in Tasks |-> 0] /\ dead = {}

\* start(operation) -> push_back, under the mutex; notify_one wakes pop_front.  When the
\* tail is a task that is gone, the write goes to its old frame (or, if the new task lies
\* there, is the new task's own next): in either case the head does not lead to the new task.
PushBack ==
    /\ main = "start" /\ i \in Ops
    /\ next' = [next EXCEPT ![i] = 0, ![tail] = i] /\ tail' = i
    /\ main' = IF Threaded THEN "wait" ELSE "start"
    /\ i' = IF Threaded THEN i ELSE i + 1
    /\ UNCHANGED <<variant, finishing, loop, cur, done, ran, dead>>

\* sync_wait: cv.wait until data.done; the operation dies with the frame.
SyncWaitReturns ==
    /\ main = "wait" /\ i \in done
    /\ dead' = dead \cup {i}
    /\ i' = i + 1 /\ main' = "start"
    /\ UNCHANGED <<variant, next, tail, finishing, loop, cur, done, ran>>

\* finish(), and for the inline program run() on the same thread.
Finish ==
    /\ main = "start" /\ i \notin Ops
    /\ finishing' = TRUE /\ main' = "join"
    /\ loop' = IF Threaded THEN loop ELSE "run"
    /\ UNCHANGED <<variant, next, tail, i, cur, done, ran, dead>>

\* pop_front: waits for a task or for finishing; the tail stays where it is.
PopFront ==
    /\ loop = "run" /\ (next[0] # 0 \/ finishing)
    /\ IF next[0] = 0 THEN loop' = "end" /\ UNCHANGED <<next, cur>>
       ELSE loop' = "execute" /\ cur' = next[0] /\ next' = [next EXCEPT ![0] = next[next[0]]]
    /\ UNCHANGED <<variant, tail, finishing, main, i, done, ran, dead>>

\* execute -> set_value through the then chain -> sync_wait_receiver::set_value:
\* under data.mtx, value, done and notify_one.
Execute ==
    /\ loop = "execute"
    /\ ran' = [ran EXCEPT ![cur] = @ + 1] /\ done' = done \cup {cur}
    /\ loop' = "run"
    /\ UNCHANGED <<variant, next, tail, finishing, main, i, cur, dead>>

Join ==
    /\ main = "join" /\ loop = "end" /\ main' = "end"
    /\ UNCHANGED <<variant, next, tail, finishing, i, loop, cur, done, ran, dead>>

Main == PushBack \/ SyncWaitReturns \/ Finish \/ Join
Loop == PopFront \/ Execute
LoopNext == Main \/ Loop

\* A second sync_wait on a loop that became empty: pop_front has left the tail at the first
\* operation (execution_simple.cpp:227), and sync_wait has destroyed that one.
SecondWait == Threaded /\ i > 1

\* No task is executed twice or after its operation is gone, and none is lost to finish().
\* A push writes through a task that is gone in one case, the second sync_wait on one loop;
\* the operation of that one never runs.  main() and the inline program are not in that case.
TasksRunOnce ==
    /\ \A t \in Tasks : ran[t] <= 1
    /\ loop = "execute" => cur \notin dead
    /\ main = "end" => \A t \in Ops : ran[t] = 1
    /\ main = "start" /\ i \in Ops => (tail \in dead <=> SecondWait)
    /\ SecondWait => ran[i] = 0

\* Owed: the end of main(); every sync_wait but a second one on the same loop returns, and
\* the loop leaves after finish().
LoopOwed == main # "end" /\ ~(SecondWait /\ main = "wait")
-----------------------------------------------------------------------------
(***************************************************************************)
(* io_uring_exec of stdexec/io_uring.cpp: the intrusive list of scheduled  *)
(* tasks (push under the mutex, pop whose emptiness test is not), run()    *)
(* that drains it, submits and reaps completions, and the operations whose *)
(* start() takes a submission entry.  The program is main()'s: a thread    *)
(* starts all senders (when_all), each a scheduled task followed, for the  *)
(* Reads, by one read on the ring, and waits for all of them.  next, tail  *)
(* are its list as well, done counts the entries of cq handled in a round. *)
(***************************************************************************)
CONSTANTS Senders,  \* how many senders are started, numbered in start order
          Reads,    \* the senders that read after their task
          Entries   \* bound: entries of the submission ring

VARIABLES started,  \* senders started by the main thread so far
          pc,       \* run(): "test", "pop", "complete", "submit", "reap", "advance"
          op,       \* the task run() holds, 0 for none
          sq, inflight, cq,     \* filled entries, operations in the kernel, completions
          outcome   \* per sender, what its receiver was told, in order

execVars == <<next, tail, started, pc, op, sq, inflight, cq, done, outcome>>

All == 1..Senders
Tell(s, what) == [outcome EXCEPT ![s] = Append(@, what)]

ExecInit ==
    /\ next = [t \in All \cup {0} |-> t] /\ tail = 0
    /\ started = 0
    /\ pc = "test" /\ op = 0
    /\ sq = <<>> /\ inflight = {} /\ cq = <<>> /\ done = 0
    /\ outcome = [s \in All |-> <<>>]

\* operation::start -> push
Push ==
    /\ started < Senders
    /\ started' = started + 1
    /\ next' = [next EXCEPT ![started + 1] = 0, ![tail] = started + 1]
    /\ tail' = started + 1
    /\ UNCHANGED <<pc, op, sq, inflight, cq, done, outcome>>

\* pop(): the unlocked test ...
PopTest ==
    /\ pc = "test"
    /\ pc' = IF next[0] = 0 THEN "submit" ELSE "pop"
    /\ UNCHANGED <<next, tail, started, op, sq, inflight, cq, done, outcome>>

\* ... and the locked exchange, which also takes back the tail.
PopNoReset ==
    /\ pc = "pop"
    /\ op' = next[0]
    /\ next' = [next EXCEPT ![0] = next[next[0]]]
    /\ pc' = "complete"
    /\ UNCHANGED <<tail, started, sq, inflight, cq, done, outcome>>
Pop ==
    /\ pc = "pop"
    /\ op' = next[0]
    /\ next' = [next EXCEPT ![0] = next[next[0]]]
    /\ tail' = IF next[0] = tail THEN 0 ELSE tail
    /\ pc' = "complete"
    /\ UNCHANGED <<started, sq, inflight, cq, done, outcome>>

\* complete({}) of a scheduled task: the sender is through, or its let_value
\* starts the read: get_sqe, or EBUSY when the ring is full.
Complete ==
    /\ pc = "complete"
    /\ \/ /\ op \notin Reads
          /\ outcome' = Tell(op, "value") /\ UNCHANGED sq
       \/ /\ op \in Reads /\ Len(sq) < Entries
          /\ sq' = Append(sq, op) /\ UNCHANGED outcome
       \/ /\ op \in Reads /\ Len(sq) = Entries
          /\ outcome' = Tell(op, "error") /\ UNCHANGED sq
    /\ pc' = "test" /\ op' = 0
    /\ UNCHANGED <<next, tail, started, inflight, cq, done>>

\* io_uring_submit under the mutex.
Submit ==
    /\ pc = "submit"
    /\ inflight' = inflight \cup Range(sq) /\ sq' = <<>>
    /\ pc' = "reap" /\ done' = 0
    /\ UNCHANGED <<next, tail, started, op, cq, outcome>>

\* io_uring_for_each_cqe: complete(res) of the next completion there is now,
\* and when there is none left, advance the ring over all that were handled.
Reap ==
    /\ pc = "reap"
    /\ IF done < Len(cq)
       THEN /\ outcome' = Tell(cq[done + 1].s, cq[done + 1].res)
            /\ done' = done + 1
            /\ UNCHANGED <<cq, pc>>
       ELSE /\ cq' = SubSeq(cq, done + 1, Len(cq))
            /\ pc' = "test"
            /\ UNCHANGED <<outcome, done>>
    /\ UNCHANGED <<next, tail, started, op, sq, inflight>>

\* The kernel completes an operation: >= 0, an error, or -ECANCELED.
Kernel ==
    /\ \E s \in inflight, res \in {"value", "error", "stopped"} :
        /\ inflight' = inflight \ {s}
        /\ cq' = Append(cq, [s |-> s, res |-> res])
    /\ UNCHANGED <<next, tail, started, pc, op, sq, done, outcome>>

Run == PopTest \/ Pop \/ Complete \/ Submit \/ Reap
ExecNext == Push \/ Run \/ Kernel

\* The list the pushes build and run() consumes: the tail is its last task,
\* and what is linked are exactly the started tasks run() has not taken.
Linked == {t \in All : \E k \in 1..Senders :
              LET walk[j \in 0..k] == IF j = 0 THEN 0 ELSE next[walk[j-1]] IN walk[k] = t}
Waiting == {t \in 1..started : outcome[t] = <<>> /\ t # op
                               /\ t \notin Range(sq) \cup inflight \cup {cq[k].s : k \in 1..Len(cq)}}

\* Every receiver is told exactly one of set_value, set_error, set_stopped,
\* however pushes interleave with the unlocked emptiness test, and no started
\* task drops off the list before run() takes it.
ToldOnce ==
    /\ \A s \in All : Len(outcome[s]) <= 1
    /\ Linked = Waiting

\* Owed: that every sender completes, so that sync_wait(when_all(...)) returns.
ExecOwed == \E s \in All : outcome[s] = <<>>
=============================================================================
