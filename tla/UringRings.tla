----------------------------- MODULE UringRings -----------------------------
(***************************************************************************)
(* The io_uring programs written without liburing (io_uring/*.cpp): the    *)
(* submission and completion rings shared with the kernel, and the four    *)
(* main()s that drive them.  "setup" fills entries by hand and submits     *)
(* them in reverse through the index array, "get_sqe" takes entries with   *)
(* get_sqe and enters by hand, "submit" goes through submit_and_wait, and  *)
(* "peek" submits without waiting and collects the completions with        *)
(* peek_batch_cqe and cq_advance.  Ring counters are unsigned, modulo W.   *)
(* The kernel's side is the environment: io_uring_enter consumes what was  *)
(* published, completions arrive in any order, at any time.                *)
(***************************************************************************)
EXTENDS Naturals, Sequences, FiniteSets, Functions

CONSTANTS W,        \* stands for 2^32
          Depth,    \* ring_entries, queue_depth rounded up by the kernel
          Count,    \* the writes main() makes (3 in the source)
          Garbage   \* what sqe_head and sqe_tail, never initialised, may hold (some values)

VARIABLES program, pc,
          sqHead, sqTail, array, sqes,      \* *p_head, *p_tail, p_array, sqes (0 is empty)
          sqeHead, sqeTail,                 \* SQ_ref::sqe_head, sqe_tail
          cqHead, cqTail, cqes,             \* *cq.p_head, *cq.p_tail, cqes
          inflight, ret,                    \* operations in the kernel; io_uring_enter's result
          k,                                \* main()'s progress: writes prepared, then cnt
          got, firstPeek                    \* the cqes[] array, and the first batch's size

ringVars == <<program, pc, sqHead, sqTail, array, sqes, sqeHead, sqeTail,
              cqHead, cqTail, cqes, inflight, ret, k, got, firstPeek>>

Sub(a, b) == (a + W - b) % W
Slot(c, entries) == (c % entries) + 1
CqDepth == 2 * Depth

Init ==
    /\ program \in {"setup", "get_sqe", "submit", "peek"}
    /\ pc = "fill" /\ k = 0
    /\ sqHead = 0 /\ sqTail = 0
    /\ array = IF program = "setup" THEN [j \in 1..Depth |-> 0] ELSE [j \in 1..Depth |-> j - 1]
    /\ sqes = [j \in 1..Depth |-> 0]
    /\ sqeHead \in Garbage /\ sqeTail \in Garbage
    /\ cqHead = 0 /\ cqTail = 0 /\ cqes = [j \in 1..CqDepth |-> 0]
    /\ inflight = {} /\ ret = 0
    /\ got = <<>> /\ firstPeek = 0

\* get_sqe, then prepare_write of write k + 1 whose assert(sqe) stops main().
GetSqe ==
    /\ pc = "fill" /\ program # "setup" /\ k < Count
    /\ IF Sub((sqeTail + 1) % W, sqHead) > Depth
       THEN pc' = "assert" /\ UNCHANGED <<sqes, sqeTail, k>>
       ELSE /\ sqes' = [sqes EXCEPT ![Slot(sqeTail, Depth)] = k + 1]
            /\ sqeTail' = (sqeTail + 1) % W
            /\ k' = k + 1 /\ UNCHANGED pc
    /\ UNCHANGED <<program, sqHead, sqTail, array, sqeHead, cqHead, cqTail, cqes, inflight, ret, got, firstPeek>>

\* setup.cpp: entries 0..2 filled in place, the array maps them in reverse.
FillByHand ==
    /\ pc = "fill" /\ program = "setup" /\ k < Count
    /\ sqes' = [sqes EXCEPT ![k + 1] = k + 1]
    /\ array' = [array EXCEPT ![Count - k] = k]
    /\ k' = k + 1
    /\ UNCHANGED <<program, pc, sqHead, sqTail, sqeHead, sqeTail, cqHead, cqTail, cqes, inflight, ret, got, firstPeek>>

\* smp_store_release(p_tail, 3), or _flush_submit.
Publish ==
    /\ pc = "fill" /\ k = Count
    /\ IF program \in {"setup", "get_sqe"}
       THEN sqTail' = Count /\ UNCHANGED sqeHead
       ELSE IF sqeHead # sqeTail THEN sqTail' = sqeTail /\ sqeHead' = sqeTail
            ELSE UNCHANGED <<sqTail, sqeHead>>
    /\ pc' = "enter"
    /\ UNCHANGED <<program, sqHead, array, sqes, sqeTail, cqHead, cqTail, cqes, inflight, ret, k, got, firstPeek>>

\* io_uring_enter(to_submit, ...), skipped when nothing was published; what the
\* kernel finds in an entry nobody filled is a no-op, 0.
Enter ==
    /\ pc = "enter"
    /\ LET toSubmit == IF program \in {"setup", "get_sqe"} THEN Count ELSE Sub(sqeTail, sqHead)
           taken == IF toSubmit < Sub(sqTail, sqHead) THEN toSubmit ELSE Sub(sqTail, sqHead)
       IN  /\ inflight' = inflight \cup {sqes[array[Slot(sqHead + j, Depth)] + 1] : j \in 0..(taken - 1)}
           /\ sqHead' = (sqHead + taken) % W
           /\ ret' = taken
           /\ pc' = CASE program # "peek" -> "wait"
                      [] program = "peek" /\ taken = Count -> "peek"
                      [] OTHER -> "assert"
    /\ k' = IF pc' = "assert" THEN k ELSE 0
    /\ UNCHANGED <<program, sqTail, array, sqes, sqeHead, sqeTail, cqHead, cqTail, cqes, got, firstPeek>>

\* IORING_ENTER_GETEVENTS with min_complete = 3 returns, at once when fewer
\* entries were submitted than asked; then the asserts on the head and cnt.
Waited ==
    /\ pc = "wait"
    /\ Sub(cqTail, cqHead) >= Count \/ (program = "submit" /\ sqHead # sqeTail)
    /\ pc' = IF sqHead = sqTail /\ sqHead = Count /\ (program # "setup" => ret = Count)
             THEN "end" ELSE "assert"
    /\ k' = Count
    /\ UNCHANGED <<program, sqHead, sqTail, array, sqes, sqeHead, sqeTail, cqHead, cqTail, cqes, inflight, ret, got, firstPeek>>

\* The kernel posts a completion.
Complete ==
    /\ Sub(cqTail, cqHead) < CqDepth
    /\ \E o \in inflight :
        /\ cqes' = [cqes EXCEPT ![Slot(cqTail, CqDepth)] = o]
        /\ inflight' = inflight \ {o}
    /\ cqTail' = (cqTail + 1) % W
    /\ UNCHANGED <<program, pc, sqHead, sqTail, array, sqes, sqeHead, sqeTail, cqHead, ret, k, got, firstPeek>>

\* cnt += peek_batch_cqe(cqes + cnt, 3 - cnt): always from *cq.p_head.
PeekBatch ==
    /\ pc = "peek" /\ k < Count
    /\ LET ready == IF Sub(cqTail, cqHead) < Count - k THEN Sub(cqTail, cqHead) ELSE Count - k
       IN  /\ got' = got \o [j \in 1..ready |-> cqes[Slot(cqHead + j - 1, CqDepth)]]
           /\ k' = k + ready
           /\ firstPeek' = IF k = 0 THEN ready ELSE firstPeek
    /\ UNCHANGED <<program, pc, sqHead, sqTail, array, sqes, sqeHead, sqeTail, cqHead, cqTail, cqes, inflight, ret>>

\* cq_advance(3)
CqAdvance ==
    /\ pc = "peek" /\ k = Count
    /\ cqHead' = (cqHead + Count) % W
    /\ pc' = "end"
    /\ UNCHANGED <<program, sqHead, sqTail, array, sqes, sqeHead, sqeTail, cqTail, cqes, inflight, ret, k, got, firstPeek>>

Main == GetSqe \/ FillByHand \/ Publish \/ Enter \/ Waited \/ PeekBatch \/ CqAdvance
Next == Main \/ Complete
Spec == Init /\ [][Next]_ringVars /\ WF_ringVars(Main) /\ WF_ringVars(Complete)

\* Once main() has passed its asserts on the submission the kernel has taken
\* every write exactly once, also when the index array is permuted and whatever
\* sqe_head and sqe_tail held at first; get_sqe.cpp, which stores 3 and enters
\* with 3 by hand, does not notice a sqe_tail that did not start at 0.
AllSubmitted ==
    /\ pc \in {"peek", "end"}
    /\ program = "get_sqe" => sqeTail = Count
    => inflight \cup (Range(cqes) \ {0}) = 1..Count

\* The peek loop of peek+advance.cpp reads from the ring's head every time and
\* advances only at the end.  It sees every completion once, and leaves the
\* head at the tail, exactly when its first batch already holds them all;
\* after a shorter first batch it has counted a completion twice.
PeekExact ==
    program = "peek" /\ pc = "end" =>
        (firstPeek = Count <=> Range(got) = 1..Count)

\* An assert (assert(sqe), *p_head == 3, cnt == 3) fails only because of what the
\* uninitialised counters held: sqe_tail did not start at 0, or sqe_head started
\* where sqe_tail ended, so that nothing was published.
AssertsBlameGarbage ==
    pc = "assert" => program # "setup" /\ (Sub(sqeTail, k) # 0 \/ sqTail = 0)

\* Owed: that main() ends once the kernel completes what it was given.
Owed == pc \notin {"end", "assert"}
=============================================================================
