------------------------------- MODULE Logger -------------------------------
(***************************************************************************)
(* The logger of net/fluent (include/logger/Log.hpp): Scheduler::apply,    *)
(* called by any thread, copies a record into buf[ridx] under rmtx; the    *)
(* writer thread swaps the two buffers, on request when the record does    *)
(* not fit and otherwise every 10ms, and appends the other one to a file.  *)
(*                                                                         *)
(* A byte is represented by its position in the stream of all bytes that   *)
(* were applied, so the file must read 1, 2, 3, ...  smtx is only held     *)
(* inside one step, except while writer = "swapping", and is no variable.  *)
(* write() writes at least one byte.                                       *)
(*                                                                         *)
(* apply() waits for sflag without smtx, which is a data race: the stores  *)
(* of swap() are plain, and gcc -O2 puts the one to sflag first.  A client *)
(* that gets in between copies its record behind the old rcur, into the    *)
(* old buffer and past its end: from there into buf[1], or, behind buf[1], *)
(* over ridx and rcur themselves, and the program is lost.  The cursors    *)
(* are stored and loaded together, and rcur is advanced in one step.       *)
(***************************************************************************)
EXTENDS Integers, Sequences

CONSTANTS
    Client,       \* the threads that log
    BUFSIZE,      \* DLOG_BUFSIZE, 2^20 in the code
    Space,        \* what calspace() of a record may be
    fileMaxSize,  \* staticConfig.fileMaxSize
    MAX_BYTES     \* bound on the bytes applied

VARIABLES
    buf, ridx, rcur,      \* Shared: buf[ridx][1 .. rcur] is what nobody has taken
    sflag,                \* "swap finished"; FALSE asks for a swap
    rmtx,                 \* who holds it
    pc, need,             \* where each client is, and its calspace(args)
    applied,              \* the bytes that were applied
    kflag,                \* Log::done() or the destructor was called
    writer, cur, idx, done,  \* the writer, its locals, `written` in File::append
    file, written,           \* what all files hold, in order; _written of the last
    early, stray             \* the build stores sflag first; a record was copied in between

vars == <<buf, ridx, rcur, sflag, rmtx, pc, need, applied, kflag, writer, cur, idx, done, file, written,
          early, stray>>
shared == <<buf, ridx, rcur, sflag>>
frontend == <<rmtx, pc, need, applied, early, stray>>
backend == <<kflag, writer, cur, idx, done, file, written, early>>

Init ==
    /\ buf = [i \in {0, 1} |-> [j \in 1 .. BUFSIZE |-> 0]]
    /\ ridx = 0 /\ rcur = 0 /\ sflag = TRUE /\ rmtx = "nobody"
    /\ pc = [c \in Client |-> "out"] /\ need = [c \in Client |-> 0]
    /\ applied = 0 /\ kflag = FALSE
    /\ writer = "loop" /\ cur = 0 /\ idx = 1 /\ done = 0
    /\ file = <<>> /\ written = 0
    /\ early \in BOOLEAN /\ stray = FALSE

Goto(c, label) == pc' = [pc EXCEPT ![c] = label]
-----------------------------------------------------------------------------
(* Scheduler::apply *)

Log(c, space) ==
    /\ pc[c] = "out" /\ applied + space <= MAX_BYTES
    /\ need' = [need EXCEPT ![c] = space]
    /\ Goto(c, "lock")
    /\ UNCHANGED <<shared, rmtx, applied, backend, stray>>

\* lock_guard lk{s.rmtx}, and whether the record fits
Lock(c) ==
    /\ pc[c] = "lock" /\ rmtx = "nobody"
    /\ rmtx' = c
    /\ Goto(c, IF rcur + need[c] >= BUFSIZE THEN "ask" ELSE "put")
    /\ UNCHANGED <<shared, need, applied, backend, stray>>

\* s.sflag = false, under smtx
Ask(c) ==
    /\ pc[c] = "ask" /\ writer # "swapping"
    /\ sflag' = FALSE
    /\ Goto(c, "spin")
    /\ UNCHANGED <<buf, ridx, rcur, rmtx, need, applied, backend, stray>>

\* the test that ends `while(!s.sflag) s.cond.notify_one();`
Spin(c) ==
    /\ pc[c] = "spin" /\ sflag
    /\ Goto(c, "put")
    /\ UNCHANGED <<shared, rmtx, need, applied, backend, stray>>

\* Resolver::put(args, s.buf[s.ridx] + s.rcur): the byte of the record, if there is one,
\* that lands at buf[i][j]
Lands(i, j) == CASE i = ridx -> j - rcur
                 [] i > ridx -> BUFSIZE + j - rcur
                 [] i < ridx -> 0
Put(c) ==
    /\ pc[c] = "put"
    /\ buf' = [i \in {0, 1} |-> [j \in 1 .. BUFSIZE |->
                 IF Lands(i, j) \in 1 .. need[c] THEN applied + Lands(i, j) ELSE buf[i][j]]]
    /\ Goto(c, IF ridx = 1 /\ rcur + need[c] > BUFSIZE THEN "lost" ELSE "advance")
    /\ stray' = (stray \/ writer = "swapping")
    /\ UNCHANGED <<ridx, rcur, sflag, rmtx, need, applied, backend>>

\* s.rcur += calspace(args), and the end of the lock_guard
Advance(c) ==
    /\ pc[c] = "advance"
    /\ rcur' = rcur + need[c]
    /\ applied' = applied + need[c]
    /\ need' = [need EXCEPT ![c] = 0]
    /\ rmtx' = "nobody"
    /\ Goto(c, "out")
    /\ UNCHANGED <<buf, ridx, sflag, backend, stray>>

Apply(c) == Lock(c) \/ Ask(c) \/ Spin(c) \/ Put(c) \/ Advance(c)
-----------------------------------------------------------------------------
(* Wthread *)

kill ==
    /\ ~kflag /\ kflag' = TRUE
    /\ UNCHANGED <<shared, frontend, writer, cur, idx, done, file, written>>

\* while(!kflag.load())
Loop ==
    /\ writer = "loop"
    /\ writer' = IF kflag THEN "ended" ELSE "wait"
    /\ UNCHANGED <<shared, frontend, kflag, cur, idx, done, file, written>>

\* swap() without its store to sflag
swap ==
    /\ ridx' = 1 - ridx
    /\ rcur' = 0 /\ cur' = rcur
    /\ idx' = ridx
    /\ writer' = "roll"

\* s.cond.wait_for returns with smtx, and somebody has asked for the swap and waits with
\* rmtx.  The store to sflag is the last one to be seen, or, as the build has it, the first.
Requested ==
    /\ writer = "wait" /\ ~sflag
    /\ sflag' = TRUE
    /\ \/ ~early /\ swap
       \/ early /\ writer' = "swapping" /\ UNCHANGED <<ridx, rcur, cur, idx>>
    /\ UNCHANGED <<buf, frontend, kflag, done, file, written>>

Swapped ==
    /\ writer = "swapping" /\ swap
    /\ UNCHANGED <<buf, sflag, frontend, kflag, done, file, written>>

\* mutant: the swap does not wait for rmtx
TimeoutUnlocked ==
    /\ writer = "wait" /\ sflag /\ swap
    /\ UNCHANGED <<buf, sflag, frontend, kflag, done, file, written>>

\* ... or the time is over: rmtx.try_lock() succeeds, or somebody is logging
Timeout ==
    /\ writer = "wait" /\ sflag
    /\ \/ rmtx = "nobody" /\ swap
       \/ rmtx # "nobody" /\ writer' = "loop" /\ UNCHANGED <<ridx, rcur, cur, idx>>
    /\ UNCHANGED <<buf, sflag, frontend, kflag, done, file, written>>

\* if(file.updatable(cur)) file.update(...): the size is reached, or the interval is over
Roll ==
    /\ writer = "roll"
    /\ written' \in IF written + cur >= fileMaxSize THEN {0} ELSE {0, written}
    /\ writer' = "append"
    /\ UNCHANGED <<shared, frontend, kflag, cur, idx, done, file>>

\* The j-th byte from buf[idx] on; buf[1] stands behind buf[0].
Byte(j) == IF j <= BUFSIZE THEN buf[idx][j] ELSE buf[1][j - BUFSIZE]

\* one write() of File::append, perhaps a short one
Write ==
    /\ writer = "append" /\ done < cur
    /\ \E k \in done + 1 .. cur :
        /\ file' = file \o [j \in 1 .. k - done |-> Byte(done + j)]
        /\ done' = k
    /\ UNCHANGED <<shared, frontend, kflag, writer, cur, idx, written>>

\* _written += written; the locals are not used again
Appended ==
    /\ writer = "append" /\ done = cur
    /\ written' = written + cur
    /\ cur' = 0 /\ done' = 0
    /\ writer' = "loop"
    /\ UNCHANGED <<shared, frontend, kflag, idx, file>>

Wthread == Loop \/ Requested \/ Swapped \/ Timeout \/ Roll \/ Write \/ Appended

\* Nobody has overwritten ridx and rcur with the text of a record.
Alive == \A c \in Client : pc[c] # "lost"

Next ==
    /\ Alive
    /\ \/ \E c \in Client : Apply(c) \/ \E space \in Space : Log(c, space)
       \/ kill \/ Wthread

Spec == Init /\ [][Next]_vars
-----------------------------------------------------------------------------
\* What the writer has taken and not yet written.
InFlight == IF writer = "roll" THEN cur ELSE IF writer = "append" THEN cur - done ELSE 0

\* The files hold the bytes that were applied, in order, and what is missing is all there:
\* with the writer, then in the buffer that is filled.  A kill loses the latter at most.
AllThere ==
    /\ file = [i \in 1 .. Len(file) |-> i]
    /\ Len(file) + InFlight + rcur = applied
    /\ writer = "append" => \A j \in done + 1 .. cur : buf[idx][j] = Len(file) - done + j
    /\ writer = "roll" => \A j \in 1 .. cur : buf[idx][j] = Len(file) + j
    /\ \A j \in 1 .. rcur : buf[ridx][j] = Len(file) + InFlight + j

\* No file grows beyond its maximum, except by one buffer that is larger than that.
FileSize == written < fileMaxSize \/ written <= BUFSIZE

\* Until a record was copied in the middle of a swap.
InOrder == stray \/ (AllThere /\ FileSize)

\* One client at a time copies a record, into a buffer that the writer has not taken and
\* in which there is room.
Apart ==
    \A c \in Client : pc[c] = "put" =>
        /\ \A d \in Client : pc[d] = "put" => d = c
        /\ writer \in {"roll", "append"} => idx # ridx
        /\ rcur + need[c] <= BUFSIZE \/ writer = "swapping"

\* The only race is the test of sflag without smtx: a record is copied in the middle of a
\* swap only where the build stores sflag before ridx and rcur, and until then Apart holds.
NoRace == (stray => early) /\ (stray \/ Apart)
=============================================================================
