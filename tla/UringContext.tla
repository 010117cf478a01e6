---------------------------- MODULE UringContext ----------------------------
(***************************************************************************)
(* Io_context of liburing/coroutine.h: one thread resumes coroutines,      *)
(* submits what they asked for and resumes them with the completions, in   *)
(* run() until stop(), then by "while(!drained()) run_once()", as          *)
(* multi_task_test.cpp does.  A coroutine runs until it awaits an          *)
(* operation or ends; children it awaits count as the coroutine itself.    *)
(***************************************************************************)
EXTENDS Integers, Sequences, Functions, FiniteSetTheorems, TLAPS

CONSTANTS
    Task,       \* coroutines
    Root,       \* the one that main() spawns
    ENTRIES,    \* size of the submission ring (256 in the programs)
    PLUG_MAX,   \* coroutines resumed before a submission (32)
    MAX_OPS     \* bound on the operations of a coroutine

VARIABLES
    operations,  \* _operations
    sq,          \* entries taken from the submission ring, not submitted
    kernel,      \* submitted operations, by coroutine
    cq,          \* completions
    inflight,    \* _inflight
    stop,        \* _stop
    left,        \* operations a coroutine will still ask for
    spawned,     \* coroutines that were made
    ended,       \* coroutines that reached final_suspend
    mode,        \* main(): in run(), draining, over
    pc,          \* run_once(): to be entered, plugging or reaping
    n            \* what is left of loop_count, or done

vars == <<operations, sq, kernel, cq, inflight, stop, left, spawned, ended, mode, pc, n>>

Init ==
    /\ operations = <<Root>> /\ spawned = {Root}
    /\ sq = <<>> /\ kernel = {} /\ cq = <<>>
    /\ inflight = 0 /\ stop = FALSE
    /\ left \in [Task -> 0 .. MAX_OPS] /\ ended = {}
    /\ mode = "run" /\ pc = "enter" /\ n = 0

drained == operations = <<>> /\ inflight = 0
stopped == stop /\ operations = <<>>
-----------------------------------------------------------------------------
\* h.resume(): the coroutine may spawn another and call stop(), then awaits its
\* next operation or ends.  While the ring is full every operation returns -ENOMEM
\* at once, and it goes on.  ops is _operations without h.
Body(t, ops) ==
    /\ \/ operations' = ops /\ UNCHANGED spawned
       \/ \E c \in Task \ spawned : operations' = Append(ops, c) /\ spawned' = spawned \cup {c}
    /\ stop' \in {stop, TRUE}
    /\ IF left[t] > 0 /\ Len(sq) < ENTRIES
       THEN /\ sq' = Append(sq, t) /\ left' = [left EXCEPT ![t] = @ - 1]
            /\ UNCHANGED ended
       ELSE ended' = ended \cup {t} /\ UNCHANGED <<sq, left>>

\* The conditions of run() and of the loop around run_once(), and loop_count
Enter ==
    /\ pc = "enter" /\ mode # "over"
    /\ IF (mode = "run" /\ stopped) \/ (mode = "drain" /\ drained)
       THEN mode' = (IF mode = "run" THEN "drain" ELSE "over") /\ UNCHANGED <<pc, n>>
       ELSE /\ pc' = "plug" /\ UNCHANGED mode
            /\ n' = IF Len(operations) < PLUG_MAX THEN Len(operations) ELSE PLUG_MAX
    /\ UNCHANGED <<operations, sq, kernel, cq, inflight, stop, left, spawned, ended>>

Resume ==
    /\ pc = "plug" /\ n > 0 /\ n' = n - 1
    /\ Body(Head(operations), Tail(operations))
    /\ UNCHANGED <<kernel, cq, inflight, mode, pc>>

\* io_uring_submit takes everything
Submit ==
    /\ pc = "plug" /\ n = 0
    /\ sq' = <<>> /\ kernel' = kernel \cup Range(sq)
    /\ inflight' = inflight + Len(sq)
    /\ pc' = (IF inflight' = 0 THEN "enter" ELSE "reap")
    /\ UNCHANGED <<operations, cq, stop, left, spawned, ended, mode, n>>

\* io_uring_for_each_cqe: completions that arrive meanwhile are seen
Reap ==
    /\ pc = "reap" /\ n < Len(cq) /\ n' = n + 1
    /\ Body(cq[n + 1], operations)
    /\ UNCHANGED <<kernel, cq, inflight, mode, pc>>

\* mutant: as if every operation of the batch had been reaped
AdvanceAll ==
    /\ pc = "reap" /\ n = Len(cq) /\ n' = 0
    /\ cq' = <<>> /\ inflight' = 0
    /\ pc' = "enter"
    /\ UNCHANGED <<operations, sq, kernel, stop, left, spawned, ended, mode>>

\* io_uring_cq_advance or hang(), and the counter
Advance ==
    /\ pc = "reap" /\ n = Len(cq) /\ n' = 0
    /\ cq' = <<>> /\ inflight' = inflight - n
    /\ pc' = "enter"
    /\ UNCHANGED <<operations, sq, kernel, stop, left, spawned, ended, mode>>

\* The kernel completes an operation.
Complete(t) ==
    /\ t \in kernel /\ kernel' = kernel \ {t} /\ cq' = Append(cq, t)
    /\ UNCHANGED <<operations, sq, inflight, stop, left, spawned, ended, mode, pc, n>>

Loop == Enter \/ Resume \/ Submit \/ Reap \/ Advance

Done == mode = "over" /\ UNCHANGED vars

Next == Loop \/ Done \/ \E t \in Task : Complete(t)

Spec == Init /\ [][Next]_vars
-----------------------------------------------------------------------------
\* assert(_inflight >= done), and more: between two rounds _inflight is the number
\* of operations that were submitted and not reaped.
InflightExact ==
    /\ pc = "reap" => inflight >= n
    /\ pc = "enter" => inflight = Cardinality(kernel) + Len(cq)

\* "Started task (at least once) will kill itself in final_suspend": a coroutine
\* waits to be resumed in one place, and nobody holds the handle of one that ended.
HeldOnce ==
    \A t \in spawned :
        Cardinality({i \in DOMAIN operations : operations[i] = t}) +
        Cardinality({i \in DOMAIN sq : sq[i] = t}) +
        Cardinality({t} \cap kernel) +
        Cardinality({i \in DOMAIN cq : cq[i] = t /\ (pc = "reap" => i > n)})
            = (IF t \in ended THEN 0 ELSE 1)

\* What the context owes: in run() that every coroutine gets on until it ends, unless
\* stop() is called; and that draining comes to an end.
Owed == (spawned # ended /\ ~stop) \/ mode = "drain"

\* "What users can do if they want to complete all tasks: [...] while(!drained())
\* run_once();": afterwards no coroutine is suspended.
DrainCompletes == mode = "over" => spawned = ended
-----------------------------------------------------------------------------
(***************************************************************************)
(* Proofs, for any number of coroutines, ring size and plug size.          *)
(***************************************************************************)
\* What is asked of the program.
Program == IsFiniteSet(Task) /\ Root \in Task /\ PLUG_MAX \in Nat /\ ENTRIES \in Nat /\ MAX_OPS \in Nat

\* How many completions of the ring were resumed already, and whose are left.
Reaped == IF pc = "reap" THEN n ELSE 0
Unreaped == {cq[i] : i \in Reaped + 1 .. Len(cq)}
\* Nothing is twice in s.
Injective(s) == \A i, j \in DOMAIN s : s[i] = s[j] => i = j

\* Everything is of coroutines that were spawned.
TypeOK ==
    /\ operations \in Seq(Task) /\ sq \in Seq(Task) /\ cq \in Seq(Task)
    /\ kernel \in SUBSET Task
    /\ spawned \in SUBSET Task /\ ended \in SUBSET spawned
    /\ left \in [Task -> Int]
    /\ inflight \in Nat /\ n \in Nat /\ pc \in {"enter", "plug", "reap"}

\* The counters: _inflight is exact all the time, not only between two rounds.
Counts ==
    /\ inflight = Cardinality(kernel) + Len(cq)
    /\ pc = "plug" => n <= Len(operations)
    /\ pc = "reap" => n <= Len(cq)
    /\ pc = "enter" => n = 0

\* No coroutine of all is in two of _operations, the submission ring and the rest.
Separate(ops, s, rest, all) ==
    /\ Injective(ops) /\ Injective(s)
    /\ Range(ops) \cap Range(s) = {} /\ Range(ops) \cap rest = {} /\ Range(s) \cap rest = {}
    /\ Range(ops) \cup Range(s) \cup rest = all

\* A coroutine that has not ended is in exactly one place.
Places ==
    /\ Separate(operations, sq, kernel \cup Unreaped, spawned \ ended)
    /\ kernel \cap Unreaped = {}
    /\ \A i, j \in Reaped + 1 .. Len(cq) : cq[i] = cq[j] => i = j

IInv == TypeOK /\ Counts /\ Places

\* What a new element does to a sequence without repetitions.
LEMMA Appended ==
    ASSUME NEW S, NEW s \in Seq(S), NEW x \in S, Injective(s), x \notin Range(s)
    PROVE  /\ Append(s, x) \in Seq(S) /\ Len(Append(s, x)) = Len(s) + 1
           /\ Injective(Append(s, x)) /\ Range(Append(s, x)) = Range(s) \cup {x}
<1>1. Append(s, x) \in Seq(S) /\ Len(Append(s, x)) = Len(s) + 1 /\ Len(s) \in Nat
  OBVIOUS
<1>2. \A i \in 1 .. Len(s) : Append(s, x)[i] = s[i]
  OBVIOUS
<1>3. Append(s, x)[Len(s) + 1] = x
  OBVIOUS
<1>4. DOMAIN Append(s, x) = 1 .. Len(s) + 1 /\ DOMAIN s = 1 .. Len(s)
  BY <1>1
<1>5. Injective(Append(s, x))
  BY <1>1, <1>2, <1>3, <1>4 DEF Injective, Range
<1>6. Range(Append(s, x)) = Range(s) \cup {x}
  BY <1>1, <1>2, <1>3, <1>4 DEF Range
<1> QED
  BY <1>1, <1>5, <1>6

\* What taking the first element does to it.
LEMMA Shortened ==
    ASSUME NEW S, NEW s \in Seq(S), s # <<>>, Injective(s)
    PROVE  /\ Head(s) \in Range(s) /\ Head(s) \in S
           /\ Tail(s) \in Seq(S) /\ Len(Tail(s)) = Len(s) - 1
           /\ Injective(Tail(s)) /\ Range(Tail(s)) = Range(s) \ {Head(s)}
<1>1. Tail(s) \in Seq(S) /\ Len(Tail(s)) = Len(s) - 1 /\ Len(s) \in Nat /\ Len(s) > 0
  OBVIOUS
<1>2. \A i \in 1 .. Len(s) - 1 : Tail(s)[i] = s[i + 1]
  OBVIOUS
<1>3. Head(s) = s[1] /\ DOMAIN s = 1 .. Len(s) /\ DOMAIN Tail(s) = 1 .. Len(s) - 1
  BY <1>1
<1>4. Injective(Tail(s))
  BY <1>1, <1>2, <1>3 DEF Injective
<1>5. Head(s) \in Range(s) /\ Head(s) \in S
  BY <1>1, <1>3 DEF Range
<1>6. Range(Tail(s)) = Range(s) \ {Head(s)}
  <2>1. \A y \in Range(Tail(s)) : y \in Range(s) /\ y # Head(s)
    BY <1>1, <1>2, <1>3 DEF Range, Injective
  <2>2. ASSUME NEW y \in Range(s), y # Head(s) PROVE y \in Range(Tail(s))
    <3>1. PICK i \in 1 .. Len(s) : y = s[i]
      BY <1>3 DEF Range
    <3>2. i # 1 /\ i - 1 \in 1 .. Len(s) - 1
      BY <3>1, <2>2, <1>1, <1>3
    <3>3. Tail(s)[i - 1] = s[i]
      BY <3>2, <1>1, <1>2
    <3> QED
      BY Zenon, <3>1, <3>2, <3>3, <1>3 DEF Range
  <2> QED
    BY <2>1, <2>2
<1> QED
  BY <1>1, <1>4, <1>5, <1>6

\* It has as many elements as its length says.
LEMMA Counted ==
    ASSUME NEW S, NEW s \in Seq(S), Injective(s)
    PROVE  IsFiniteSet(Range(s)) /\ Cardinality(Range(s)) = Len(s)
<1>1. Len(s) \in Nat /\ DOMAIN s = 1 .. Len(s)
  OBVIOUS
<1>2. s \in Bijection(1 .. Len(s), Range(s))
  BY <1>1 DEF Bijection, Injection, Surjection, IsInjective, Injective, Range
<1>3. ExistsBijection(1 .. Len(s), Range(s))
  BY <1>2 DEF ExistsBijection
<1>4. IsFiniteSet(1 .. Len(s)) /\ Cardinality(1 .. Len(s)) = Len(s)
  BY <1>1, FS_Interval
<1> QED
  BY <1>3, <1>4, FS_Bijection

\* h.resume() puts the coroutine it took from one place, and one it spawns, into at most
\* one other.
LEMMA BodyKeeps ==
    ASSUME TypeOK, NEW t \in spawned \ ended, NEW ops \in Seq(Task), NEW rest, Body(t, ops),
           Separate(ops, sq, rest, (spawned \ ended) \ {t})
    PROVE  /\ operations' \in Seq(Task) /\ sq' \in Seq(Task) /\ spawned' \in SUBSET Task
           /\ ended' \in SUBSET spawned' /\ left' \in [Task -> Int]
           /\ Len(operations') >= Len(ops)
           /\ Separate(operations', sq', rest, spawned' \ ended')
<1>0. /\ t \in Task /\ ended \subseteq spawned
      /\ spawned \subseteq Task /\ sq \in Seq(Task) /\ Len(ops) \in Nat
  BY DEF TypeOK
<1>1. /\ operations' \in Seq(Task) /\ Injective(operations') /\ Len(operations') >= Len(ops)
      /\ spawned' \in SUBSET Task /\ spawned \subseteq spawned'
      /\ Range(operations') = Range(ops) \cup (spawned' \ spawned)
  <2>1. CASE operations' = ops /\ UNCHANGED spawned
    BY <1>0, <2>1 DEF Separate
  <2>2. CASE \E c \in Task \ spawned : operations' = Append(ops, c) /\ spawned' = spawned \cup {c}
    <3>1. PICK c \in Task \ spawned : operations' = Append(ops, c) /\ spawned' = spawned \cup {c}
      BY <2>2
    <3>2. c \notin Range(ops) /\ Injective(ops)
      BY <1>0, <3>1 DEF Separate
    <3>3. /\ Append(ops, c) \in Seq(Task) /\ Len(Append(ops, c)) = Len(ops) + 1
          /\ Injective(Append(ops, c)) /\ Range(Append(ops, c)) = Range(ops) \cup {c}
      BY <3>1, <3>2, Appended
    <3> QED
      BY <1>0, <3>1, <3>3
  <2> QED
    BY <2>1, <2>2 DEF Body
<1>2. /\ sq' \in Seq(Task) /\ Injective(sq') /\ left' \in [Task -> Int]
      /\ \/ Range(sq') = Range(sq) \cup {t} /\ ended' = ended
         \/ sq' = sq /\ ended' = ended \cup {t}
  <2>1. CASE left[t] > 0 /\ Len(sq) < ENTRIES
    <3>1. t \notin Range(sq) /\ Injective(sq)
      BY DEF Separate
    <3>2. /\ Append(sq, t) \in Seq(Task) /\ Injective(Append(sq, t))
          /\ Range(Append(sq, t)) = Range(sq) \cup {t}
      BY <1>0, <3>1, Appended
    <3>3. sq' = Append(sq, t) /\ left' = [left EXCEPT ![t] = @ - 1] /\ ended' = ended
      BY <2>1 DEF Body
    <3> QED
      BY <1>0, <3>2, <3>3 DEF TypeOK
  <2>2. CASE ~(left[t] > 0 /\ Len(sq) < ENTRIES)
    BY <1>0, <2>2 DEF Body, Separate, TypeOK
  <2> QED
    BY <2>1, <2>2
<1>3. ended' \in SUBSET spawned'
  BY <1>0, <1>1, <1>2
<1>4. Separate(operations', sq', rest, spawned' \ ended')
  <2>1. /\ Range(sq') \cup ended' = Range(sq) \cup ended \cup {t}
        /\ Range(sq) \subseteq Range(sq') /\ ended \subseteq ended'
    BY <1>2
  <2> QED
    BY <1>0, <1>1, <1>2 DEF Separate
<1> QED
  BY <1>1, <1>2, <1>3, <1>4

\* The invariant holds at first, and every step keeps it.
LEMMA InitHolds == ASSUME Program, Init PROVE IInv
<1>1. TypeOK
  BY DEF Program, Init, TypeOK
<1>2. Counts
  BY FS_EmptySet DEF Program, Init, Counts
<1>3. Unreaped = {} /\ Reaped = 0 /\ Len(cq) = 0
  BY DEF Init, Unreaped, Reaped
<1>4. Places
  BY <1>3 DEF Program, Init, Places, Separate, Injective, Range
<1> QED
  BY <1>1, <1>2, <1>4 DEF IInv

LEMMA EnterStep == ASSUME Program, IInv, Enter PROVE IInv'
<1>1. /\ Reaped' = Reaped
      /\ Unreaped' = Unreaped /\ UNCHANGED <<operations, sq, kernel, cq, spawned, ended>>
  BY DEF Enter, Unreaped, Reaped
<1>2. Places'
  BY <1>1 DEF IInv, Places
<1>3. TypeOK' /\ Counts'
  BY DEF Program, IInv, TypeOK, Counts, Enter
<1> QED
  BY <1>2, <1>3 DEF IInv

LEMMA ResumeStep == ASSUME Program, IInv, Resume PROVE IInv'
<1>1. TypeOK /\ Len(operations) >= n /\ n > 0 /\ operations # <<>> /\ operations \in Seq(Task)
  BY DEF IInv, Counts, Resume, TypeOK
<1>2. Injective(operations)
  BY DEF IInv, Places, Separate
<1> DEFINE t == Head(operations)
           ops == Tail(operations)
<1>3. /\ t \in Range(operations)
      /\ ops \in Seq(Task) /\ Len(ops) = Len(operations) - 1
      /\ Injective(ops) /\ Range(ops) = Range(operations) \ {t}
  BY <1>1, <1>2, Shortened
<1>4. Body(t, ops)
  BY DEF Resume
<1> HIDE DEF t, ops
<1>5. t \in spawned \ ended /\ Separate(ops, sq, kernel \cup Unreaped, (spawned \ ended) \ {t})
  BY <1>3 DEF IInv, Places, Separate
<1>6. /\ operations' \in Seq(Task) /\ sq' \in Seq(Task) /\ spawned' \in SUBSET Task
      /\ ended' \in SUBSET spawned' /\ left' \in [Task -> Int]
      /\ Len(operations') >= Len(ops)
      /\ Separate(operations', sq', kernel \cup Unreaped, spawned' \ ended')
  BY Zenon, <1>1, <1>3, <1>4, <1>5, BodyKeeps
<1>7. Reaped' = Reaped /\ Unreaped' = Unreaped /\ kernel' = kernel /\ cq' = cq
  BY DEF Resume, Unreaped, Reaped
<1>8. Places'
  BY <1>6, <1>7 DEF IInv, Places
<1>9. TypeOK'
  BY <1>6 DEF IInv, TypeOK, Resume
<1>10. Counts'
  BY <1>1, <1>3, <1>6 DEF IInv, TypeOK, Counts, Resume
<1> QED
  BY <1>8, <1>9, <1>10 DEF IInv

LEMMA ReapStep == ASSUME Program, IInv, Reap PROVE IInv'
<1>1. /\ TypeOK /\ n \in Nat /\ n < Len(cq)
      /\ cq \in Seq(Task) /\ Len(cq) \in Nat /\ Reaped = n /\ Reaped' = n + 1
  BY DEF IInv, Reap, TypeOK, Reaped
<1> DEFINE t == cq[n + 1]
<1>2. t \in Unreaped /\ Unreaped' = Unreaped \ {t}
  <2>1. Unreaped = {cq[i] : i \in n + 1 .. Len(cq)} /\ Unreaped' = {cq[i] : i \in n + 2 .. Len(cq)}
    BY <1>1 DEF Unreaped, Reap
  <2>2. \A i, j \in n + 1 .. Len(cq) : cq[i] = cq[j] => i = j
    BY <1>1 DEF IInv, Places
  <2> QED
    BY <1>1, <2>1, <2>2
<1>3. Body(t, operations)
  BY DEF Reap
<1> HIDE DEF t
<1>4. /\ t \in spawned \ ended
      /\ Separate(operations, sq, kernel \cup Unreaped', (spawned \ ended) \ {t})
  BY <1>2 DEF IInv, Places, Separate
<1>5. /\ operations' \in Seq(Task) /\ sq' \in Seq(Task) /\ spawned' \in SUBSET Task
      /\ ended' \in SUBSET spawned' /\ left' \in [Task -> Int]
      /\ Len(operations') >= Len(operations)
      /\ Separate(operations', sq', kernel \cup Unreaped', spawned' \ ended')
  <2>1. operations \in Seq(Task)
    BY <1>1 DEF TypeOK
  <2> QED
    BY Zenon, <1>1, <2>1, <1>3, <1>4, BodyKeeps
<1>6. Places'
  <2>1. \A i, j \in n + 2 .. Len(cq) : cq[i] = cq[j] => i = j
    BY <1>1 DEF IInv, Places
  <2>2. kernel' = kernel /\ cq' = cq /\ kernel \cap Unreaped' = {}
    BY <1>2 DEF IInv, Places, Reap
  <2> QED
    BY <1>1, <1>5, <2>1, <2>2 DEF Places
<1>7. TypeOK'
  BY SMTT(30), <1>5 DEF IInv, TypeOK, Reap
<1>8. Counts'
  BY <1>1 DEF IInv, Counts, Reap
<1> QED
  BY <1>6, <1>7, <1>8 DEF IInv

LEMMA SubmitStep == ASSUME Program, IInv, Submit PROVE IInv'
<1>1. sq \in Seq(Task) /\ Injective(sq) /\ Range(sq) \cap kernel = {} /\ Range(sq) \in SUBSET Task
  BY DEF IInv, TypeOK, Places, Separate, Range
<1>2. IsFiniteSet(Range(sq)) /\ Cardinality(Range(sq)) = Len(sq) /\ Len(sq) \in Nat
  BY <1>1, Counted
<1>3. IsFiniteSet(kernel) /\ Cardinality(kernel) \in Nat
  BY FS_Subset, FS_CardinalityType DEF Program, IInv, TypeOK
<1>4. Cardinality(kernel \cup Range(sq)) = Cardinality(kernel) + Len(sq)
  <2>1. kernel \cap Range(sq) = {} /\ Cardinality({}) = 0
    BY <1>1, FS_EmptySet
  <2>2. Cardinality(kernel \cup Range(sq))
          = Cardinality(kernel) + Cardinality(Range(sq)) - Cardinality(kernel \cap Range(sq))
    BY <1>2, <1>3, FS_Union, Zenon
  <2>3. Cardinality(kernel \cap Range(sq)) = 0
    BY <2>1
  <2> QED
    BY <1>2, <1>3, <2>2, <2>3
<1>5. Reaped' = Reaped /\ Reaped = 0 /\ Unreaped' = Unreaped /\ cq' = cq
  BY DEF Submit, Reaped, Unreaped
<1>6. TypeOK'
  BY <1>1, <1>2 DEF IInv, TypeOK, Submit
<1>7. Counts'
  BY SMTT(30), <1>2, <1>3, <1>4 DEF IInv, TypeOK, Counts, Submit
<1>8. Places'
  <2>1. Separate(operations, <<>>, (kernel \cup Range(sq)) \cup Unreaped, spawned \ ended)
    <3>1. Range(<<>>) = {} /\ Injective(<<>>)
      BY DEF Range, Injective
    <3> QED
      BY <3>1 DEF IInv, Places, Separate
  <2>2. (kernel \cup Range(sq)) \cap Unreaped = {}
    BY DEF IInv, Places, Separate
  <2>3. /\ operations' = operations /\ sq' = <<>> /\ kernel' = kernel \cup Range(sq)
        /\ spawned' = spawned /\ ended' = ended
    BY DEF Submit
  <2>4. \A i, j \in Reaped + 1 .. Len(cq) : cq[i] = cq[j] => i = j
    BY DEF IInv, Places
  <2> QED
    BY <1>5, <2>1, <2>2, <2>3, <2>4 DEF Places
<1> QED
  BY <1>6, <1>7, <1>8 DEF IInv

LEMMA AdvanceStep == ASSUME Program, IInv, Advance PROVE IInv'
<1>1. Reaped = Len(cq) /\ Len(cq) \in Nat /\ n = Len(cq)
  BY DEF IInv, TypeOK, Advance, Reaped
<1>2. Unreaped = {} /\ Unreaped' = {} /\ Reaped' = 0 /\ Len(cq') = 0 /\ cq' = <<>>
  BY <1>1 DEF Advance, Reaped, Unreaped
<1>3. IsFiniteSet(kernel) /\ Cardinality(kernel) \in Nat
  BY FS_Subset, FS_CardinalityType DEF Program, IInv, TypeOK
<1>4. TypeOK' /\ Counts'
  BY <1>1, <1>2, <1>3 DEF IInv, TypeOK, Counts, Advance
<1>5. Places'
  BY <1>2 DEF IInv, Places, Advance
<1> QED
  BY <1>4, <1>5 DEF IInv

LEMMA CompleteStep == ASSUME Program, IInv, NEW t \in Task, Complete(t) PROVE IInv'
<1>1. cq \in Seq(Task) /\ Len(cq) \in Nat /\ Reaped' = Reaped /\ Reaped \in Nat /\ Reaped <= Len(cq)
  BY DEF IInv, TypeOK, Counts, Complete, Reaped
<1>2. /\ cq' \in Seq(Task) /\ Len(cq') = Len(cq) + 1
      /\ cq'[Len(cq) + 1] = t /\ \A i \in 1 .. Len(cq) : cq'[i] = cq[i]
  BY <1>1 DEF Complete
<1>3. Unreaped' = Unreaped \cup {t}
  BY <1>1, <1>2 DEF Unreaped
<1>4. t \in kernel /\ kernel' = kernel \ {t} /\ t \notin Unreaped
  BY DEF IInv, Places, Complete
<1>5. /\ IsFiniteSet(kernel)
      /\ Cardinality(kernel) \in Nat /\ Cardinality(kernel') = Cardinality(kernel) - 1
  BY Zenon, <1>4, FS_Subset, FS_CardinalityType, FS_RemoveElement DEF Program, IInv, TypeOK
<1>6. TypeOK'
  BY <1>2 DEF IInv, TypeOK, Complete
<1>7. Counts'
  BY <1>1, <1>2, <1>5 DEF IInv, TypeOK, Counts, Complete
<1>8. \A i, j \in Reaped + 1 .. Len(cq) + 1 : cq'[i] = cq'[j] => i = j
  <2>1. \A i, j \in Reaped + 1 .. Len(cq) : cq[i] = cq[j] => i = j
    BY DEF IInv, Places
  <2>2. \A i \in Reaped + 1 .. Len(cq) : cq[i] # t
    BY <1>4 DEF Unreaped
  <2> QED
    BY <1>1, <1>2, <2>1, <2>2
<1>9. Places'
  <2>1. kernel' \cup Unreaped' = kernel \cup Unreaped /\ kernel' \cap Unreaped' = {}
    BY <1>3, <1>4 DEF IInv, Places
  <2> QED
    BY Zenon, <1>1, <1>2, <1>8, <2>1 DEF IInv, Places, Complete
<1> QED
  BY <1>6, <1>7, <1>9 DEF IInv

LEMMA NextStep == ASSUME Program, IInv, [Next]_vars PROVE IInv'
<1>1. CASE UNCHANGED vars
  BY <1>1 DEF vars, IInv, TypeOK, Counts, Places, Reaped, Unreaped
<1>2. CASE Next
  BY <1>1, <1>2, EnterStep, ResumeStep, SubmitStep, ReapStep, AdvanceStep, CompleteStep DEF Next, Loop, Done
<1> QED
  BY <1>1, <1>2

\* assert(_inflight >= done) holds in every round, and between two rounds _inflight is
\* what was submitted and not reaped.
THEOREM InflightCorrect == ASSUME Program PROVE Spec => []InflightExact
<1>1. Init => IInv
  BY InitHolds
<1>2. IInv /\ [Next]_vars => IInv'
  BY NextStep
<1>3. IInv => InflightExact
  <2>1. ASSUME IInv PROVE Cardinality(kernel) \in Nat /\ Len(cq) \in Nat
    BY <2>1, FS_Subset, FS_CardinalityType DEF Program, IInv, TypeOK
  <2> QED
    BY <2>1 DEF IInv, TypeOK, Counts, InflightExact
<1> QED
  BY <1>1, <1>2, <1>3, PTL DEF Spec

\* In a sequence without repetitions an element is there once or not at all.
LEMMA Occurrences ==
    ASSUME NEW s, NEW D, NEW t, \A i, j \in D : s[i] = s[j] => i = j
    PROVE  Cardinality({i \in D : s[i] = t}) = IF t \in {s[i] : i \in D} THEN 1 ELSE 0
<1>1. CASE t \in {s[i] : i \in D}
  <2>1. PICK i \in D : s[i] = t
    BY <1>1
  <2>2. {k \in D : s[k] = t} = {i}
    BY <2>1
  <2> QED
    BY <1>1, <2>2, FS_Singleton
<1>2. CASE t \notin {s[i] : i \in D}
  <2>1. {k \in D : s[k] = t} = {}
    BY SMTT(30), <1>2
  <2> QED
    BY <1>2, <2>1, FS_EmptySet
<1> QED
  BY <1>1, <1>2

\* The handle of a coroutine that has not ended is held in exactly one place, and that of
\* one that has ended nowhere: h.resume() is never called on a destroyed frame.
THEOREM HandlesHeldOnce == ASSUME Program PROVE Spec => []HeldOnce
<1>1. Init => IInv
  BY InitHolds
<1>2. IInv /\ [Next]_vars => IInv'
  BY NextStep
<1>3. IInv => HeldOnce
  <2> SUFFICES ASSUME IInv, NEW t \in spawned
      PROVE  Cardinality({i \in DOMAIN operations : operations[i] = t}) +
             Cardinality({i \in DOMAIN sq : sq[i] = t}) +
             Cardinality({t} \cap kernel) +
             Cardinality({i \in DOMAIN cq : cq[i] = t /\ (pc = "reap" => i > n)})
                 = (IF t \in ended THEN 0 ELSE 1)
    BY Zenon DEF HeldOnce
  <2>1. Cardinality({i \in DOMAIN operations : operations[i] = t}) = IF t \in Range(operations) THEN 1 ELSE 0
    <3>1. \A i, j \in DOMAIN operations : operations[i] = operations[j] => i = j
      BY DEF IInv, Places, Separate, Injective
    <3>2. Cardinality({i \in DOMAIN operations : operations[i] = t}) = IF t \in {operations[i] : i \in DOMAIN operations} THEN 1 ELSE 0
      BY <3>1, Occurrences, Zenon
    <3> QED
      BY <3>2 DEF Range
  <2>2. Cardinality({i \in DOMAIN sq : sq[i] = t}) = IF t \in Range(sq) THEN 1 ELSE 0
    <3>1. \A i, j \in DOMAIN sq : sq[i] = sq[j] => i = j
      BY DEF IInv, Places, Separate, Injective
    <3>2. Cardinality({i \in DOMAIN sq : sq[i] = t}) = IF t \in {sq[i] : i \in DOMAIN sq} THEN 1 ELSE 0
      BY <3>1, Occurrences, Zenon
    <3> QED
      BY <3>2 DEF Range
  <2>3. Cardinality({t} \cap kernel) = IF t \in kernel THEN 1 ELSE 0
    <3>1. {t} \cap kernel = IF t \in kernel THEN {t} ELSE {}
      OBVIOUS
    <3> QED
      BY <3>1, FS_Singleton, FS_EmptySet
  <2>4. Cardinality({i \in DOMAIN cq : cq[i] = t /\ (pc = "reap" => i > n)}) = IF t \in Unreaped THEN 1 ELSE 0
    <3>1. {i \in DOMAIN cq : cq[i] = t /\ (pc = "reap" => i > n)} = {i \in Reaped + 1 .. Len(cq) : cq[i] = t}
      <4>1. DOMAIN cq = 1 .. Len(cq) /\ Len(cq) \in Nat /\ n \in Nat
        BY DEF IInv, TypeOK
      <4> QED
        BY <4>1 DEF Reaped
    <3>2. \A i, j \in Reaped + 1 .. Len(cq) : cq[i] = cq[j] => i = j
      BY DEF IInv, Places
    <3>3. Cardinality({i \in Reaped + 1 .. Len(cq) : cq[i] = t})
            = IF t \in {cq[i] : i \in Reaped + 1 .. Len(cq)} THEN 1 ELSE 0
      BY <3>2, Occurrences, Zenon
    <3> QED
      BY Zenon, <3>1, <3>3 DEF Unreaped
  <2> QED
    BY <2>1, <2>2, <2>3, <2>4 DEF IInv, Places, Separate
<1> QED
  BY <1>1, <1>2, <1>3, PTL DEF Spec
=============================================================================
