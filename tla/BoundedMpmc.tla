---------------------------- MODULE BoundedMpmc ----------------------------
(***************************************************************************)
(* Bounded_mpmc (Concurrency/Bounded_mpmc.cpp): a bounded multi-producer   *)
(* multi-consumer queue.  Counters _in and _out hand out tickets; ticket t *)
(* uses slot idx(t), and the slot's sequence number says whose turn it is: *)
(* seq(t) for the push of t, seq(t)+1 for the pop of t, seq(t)+2 for the   *)
(* push one lap later.                                                     *)
(*                                                                         *)
(* One action per atomic access of a thread; the plain accesses of         *)
(* slot.val are actions of their own, so that two threads at the same slot *)
(* are visible as a data race.  All orderings the code asks for are        *)
(* acquire/release on the location that hands the slot over, for which     *)
(* interleaving of the accesses is the right semantics.                    *)
(***************************************************************************)
EXTENDS Integers, TLC

CONSTANTS
    SIZE,         \* number of slots, a power of two in the code
    Thread,       \* the threads calling push, pop, try_push, try_pop
    Val,          \* the elements
    IntSpan,      \* 2^31: seq() and idx() take an int
    SizeSpan,     \* 2^64: size_t arithmetic is modulo this
    MAX_TICKETS   \* bound on the tickets handed out on each side

ASSUME SizeAssumption == SIZE \in Nat \ {0}
ASSUME WidthAssumption ==
    IntSpan \in Nat /\ SizeSpan \in Nat /\ IntSpan > 0 /\ SizeSpan > 2 * IntSpan
ASSUME MaxTicketsAssumption == MAX_TICKETS \in Nat /\ MAX_TICKETS < SizeSpan

VARIABLES
    in,       \* _in
    out,      \* _out
    slotSeq,  \* _buf[i].seq
    slotVal,  \* _buf[i].val
    pc,       \* where each thread is
    ticket,   \* each thread's local `in` or `out`
    elem,     \* each thread's argument `elem`, or the value it took
    pushed,   \* history: <<ticket, value>> stored
    popped,   \* history: <<ticket, value>> delivered
    refused   \* history: the last failed check of a try_ call saw the slot
              \* of its ticket occupied (push) or not filled (pop)

shared == <<in, out, slotSeq, slotVal>>
vars == <<in, out, slotSeq, slotVal, pc, ticket, elem, pushed, popped, refused>>

Slot == 0 .. SIZE - 1
Ticket == 0 .. MAX_TICKETS - 1

\* Conversion of a size_t, or of the mathematical result of an int shift, to
\* int, and of an int to size_t.
ToIntUnsigned(x) == x % (2 * IntSpan)  \* mutant: the parameter is unsigned
ToInt(x) ==
    LET u == x % (2 * IntSpan)
    IN  IF u < IntSpan THEN u ELSE u - 2 * IntSpan
ToSize(x) == x % SizeSpan

\* t >> SHIFT
Lap(t) == t \div SIZE

seq(t) == ToSize(ToInt(2 * Lap(ToInt(t))))
idx(t) == ToInt(t) % SIZE

Init ==
    /\ in = 0 /\ out = 0
    /\ slotSeq = [i \in Slot |-> 0]
    /\ slotVal \in [Slot -> Val]
    /\ pc = [p \in Thread |-> "idle"]
    /\ ticket = [p \in Thread |-> 0]
    /\ elem \in [Thread -> Val]
    /\ pushed = {} /\ popped = {}
    /\ refused = [p \in Thread |-> FALSE]

Goto(p, label) == pc' = [pc EXCEPT ![p] = label]

\* The call ends; its local ticket is gone.
Return(p) == Goto(p, "idle") /\ ticket' = [ticket EXCEPT ![p] = 0]

\* The push of ticket t may use its slot / the pop of ticket t may use it.
Vacant(t) == slotSeq[idx(t)] = seq(t)
Filled(t) == slotSeq[idx(t)] = ToSize(seq(t) + 1)

\* slot.seq.store(seq(t) + n, release): the slot's next turn begins.
HandOverMore(p, n) ==  \* mutant: the slot skips a turn
    slotSeq' = [slotSeq EXCEPT ![idx(ticket[p])] = ToSize(seq(ticket[p]) + n + 1)]
HandOverBack(p, n) ==  \* mutant: the number is not a size_t and goes down
    slotSeq' = [slotSeq EXCEPT ![idx(ticket[p])] = seq(ticket[p]) - n]
HandOver(p, n) ==
    slotSeq' = [slotSeq EXCEPT ![idx(ticket[p])] = ToSize(seq(ticket[p]) + n)]
-----------------------------------------------------------------------------
(* push *)

\* _in.fetch_add(1)
PushTicket(p, v) ==
    /\ pc[p] = "idle" /\ in < MAX_TICKETS
    /\ in' = in + 1
    /\ ticket' = [ticket EXCEPT ![p] = in]
    /\ elem' = [elem EXCEPT ![p] = v]
    /\ Goto(p, "push_spin")
    /\ UNCHANGED <<out, slotSeq, slotVal, pushed, popped, refused>>

\* The load that ends `while(seq(in) != slot.seq.load(acquire));`
PushSpin(p) ==
    /\ pc[p] = "push_spin" /\ Vacant(ticket[p])
    /\ Goto(p, "put")
    /\ UNCHANGED <<shared, ticket, elem, pushed, popped, refused>>

\* slot.val = std::move(elem), in push and in try_push
Put(p) ==
    /\ pc[p] = "put"
    /\ slotVal' = [slotVal EXCEPT ![idx(ticket[p])] = elem[p]]
    /\ Goto(p, "publish")
    /\ UNCHANGED <<in, out, slotSeq, ticket, elem, pushed, popped, refused>>

\* slot.seq.store(seq(in) + 1, release), in push and in try_push
Publish(p) ==
    /\ pc[p] = "publish"
    /\ HandOver(p, 1)
    /\ pushed' = pushed \cup {<<ticket[p], elem[p]>>}
    /\ Return(p)
    /\ UNCHANGED <<in, out, slotVal, elem, popped, refused>>
-----------------------------------------------------------------------------
(* try_push *)

TryPushLoad(p, v) ==
    /\ pc[p] = "idle" /\ in < MAX_TICKETS
    /\ ticket' = [ticket EXCEPT ![p] = in]
    /\ elem' = [elem EXCEPT ![p] = v]
    /\ Goto(p, "try_push_check")
    /\ UNCHANGED <<shared, pushed, popped, refused>>

TryPushCheck(p) ==
    /\ pc[p] = "try_push_check"
    /\ IF Vacant(ticket[p])
       THEN Goto(p, "try_push_cas") /\ UNCHANGED refused
       ELSE /\ Goto(p, "try_push_reload")
            /\ refused' = [refused EXCEPT ![p] =
                 /\ ticket[p] >= SIZE
                 /\ \A pair \in popped : pair[1] # ticket[p] - SIZE]
    /\ UNCHANGED <<shared, ticket, elem, pushed, popped>>

\* in = _in.load(acquire); if(old_in == in) return false;
TryPushReload(p) ==
    /\ pc[p] = "try_push_reload"
    /\ IF ticket[p] = in
       THEN Return(p)
       ELSE ticket' = [ticket EXCEPT ![p] = in] /\ Goto(p, "try_push_check")
    /\ refused' = [refused EXCEPT ![p] = FALSE]
    /\ UNCHANGED <<shared, elem, pushed, popped>>

\* mutant: after a failed exchange the new ticket's slot is not checked
TryPushCasUnchecked(p) ==
    /\ pc[p] = "try_push_cas"
    /\ \/ /\ ticket[p] = in /\ in < MAX_TICKETS
          /\ in' = in + 1
          /\ Goto(p, "put")
          /\ UNCHANGED ticket
       \/ /\ ticket' = [ticket EXCEPT ![p] = in]
          /\ UNCHANGED <<in, pc>>
    /\ UNCHANGED <<out, slotSeq, slotVal, elem, pushed, popped, refused>>

\* compare_exchange_weak: a failure, spurious or not, loads _in into `in`.
TryPushCas(p) ==
    /\ pc[p] = "try_push_cas"
    /\ \/ /\ ticket[p] = in /\ in < MAX_TICKETS
          /\ in' = in + 1
          /\ Goto(p, "put")
          /\ UNCHANGED ticket
       \/ /\ ticket' = [ticket EXCEPT ![p] = in]
          /\ Goto(p, "try_push_check")
          /\ UNCHANGED in
    /\ UNCHANGED <<out, slotSeq, slotVal, elem, pushed, popped, refused>>
-----------------------------------------------------------------------------
(* pop *)

\* _out.fetch_add(1)
PopTicket(p) ==
    /\ pc[p] = "idle" /\ out < MAX_TICKETS
    /\ out' = out + 1
    /\ ticket' = [ticket EXCEPT ![p] = out]
    /\ Goto(p, "pop_spin")
    /\ UNCHANGED <<in, slotSeq, slotVal, elem, pushed, popped, refused>>

\* The load that ends `while(seq(out) + 1 != slot.seq.load(acquire));`
PopSpin(p) ==
    /\ pc[p] = "pop_spin" /\ Filled(ticket[p])
    /\ Goto(p, "take")
    /\ UNCHANGED <<shared, ticket, elem, pushed, popped, refused>>

\* auto val = std::move(slot.val), in pop and in try_pop
Take(p) ==
    /\ pc[p] = "take"
    /\ elem' = [elem EXCEPT ![p] = slotVal[idx(ticket[p])]]
    /\ Goto(p, "release")
    /\ UNCHANGED <<shared, ticket, pushed, popped, refused>>

\* slot.seq.store(seq(out) + 2, release), in pop and in try_pop
Release(p) ==
    /\ pc[p] = "release"
    /\ HandOver(p, 2)
    /\ popped' = popped \cup {<<ticket[p], elem[p]>>}
    /\ Return(p)
    /\ UNCHANGED <<in, out, slotVal, elem, pushed, refused>>
-----------------------------------------------------------------------------
(* try_pop *)

TryPopLoad(p) ==
    /\ pc[p] = "idle" /\ out < MAX_TICKETS
    /\ ticket' = [ticket EXCEPT ![p] = out]
    /\ Goto(p, "try_pop_check")
    /\ UNCHANGED <<shared, elem, pushed, popped, refused>>

TryPopCheck(p) ==
    /\ pc[p] = "try_pop_check"
    /\ IF Filled(ticket[p])
       THEN Goto(p, "try_pop_cas") /\ UNCHANGED refused
       ELSE /\ Goto(p, "try_pop_reload")
            /\ refused' = [refused EXCEPT ![p] =
                 \A pair \in pushed : pair[1] # ticket[p]]
    /\ UNCHANGED <<shared, ticket, elem, pushed, popped>>

\* out = _out.load(acquire); if(old_out == out) return std::nullopt;
TryPopReload(p) ==
    /\ pc[p] = "try_pop_reload"
    /\ IF ticket[p] = out
       THEN Return(p)
       ELSE ticket' = [ticket EXCEPT ![p] = out] /\ Goto(p, "try_pop_check")
    /\ refused' = [refused EXCEPT ![p] = FALSE]
    /\ UNCHANGED <<shared, elem, pushed, popped>>

\* mutant: _out is stored without comparing it with the local ticket
TryPopCasBlind(p) ==
    /\ pc[p] = "try_pop_cas"
    /\ \/ /\ out < MAX_TICKETS
          /\ out' = ticket[p] + 1
          /\ Goto(p, "take")
          /\ UNCHANGED ticket
       \/ /\ ticket' = [ticket EXCEPT ![p] = out]
          /\ Goto(p, "try_pop_check")
          /\ UNCHANGED out
    /\ UNCHANGED <<in, slotSeq, slotVal, elem, pushed, popped, refused>>

TryPopCas(p) ==
    /\ pc[p] = "try_pop_cas"
    /\ \/ /\ ticket[p] = out /\ out < MAX_TICKETS
          /\ out' = out + 1
          /\ Goto(p, "take")
          /\ UNCHANGED ticket
       \/ /\ ticket' = [ticket EXCEPT ![p] = out]
          /\ Goto(p, "try_pop_check")
          /\ UNCHANGED out
    /\ UNCHANGED <<in, slotSeq, slotVal, elem, pushed, popped, refused>>
-----------------------------------------------------------------------------
\* The rest of a call once it has begun.
Step(p) ==
    \/ PushSpin(p) \/ Put(p) \/ Publish(p)
    \/ TryPushCheck(p) \/ TryPushReload(p) \/ TryPushCas(p)
    \/ PopSpin(p) \/ Take(p) \/ Release(p)
    \/ TryPopCheck(p) \/ TryPopReload(p) \/ TryPopCas(p)

Call(p) ==
    \/ \E v \in Val : PushTicket(p, v) \/ TryPushLoad(p, v)
    \/ PopTicket(p) \/ TryPopLoad(p)

Next == \E p \in Thread : Call(p) \/ Step(p)

Spec == Init /\ [][Next]_vars
-----------------------------------------------------------------------------
(* Properties *)

Label == {"idle", "push_spin", "put", "publish",
          "try_push_check", "try_push_reload", "try_push_cas",
          "pop_spin", "take", "release",
          "try_pop_check", "try_pop_reload", "try_pop_cas"}

\* Every variable of the queue and of its threads has its type; the history
\* holds only tickets that were handed out.
TypeOK ==
    /\ in \in 0 .. MAX_TICKETS /\ out \in 0 .. MAX_TICKETS
    /\ slotSeq \in [Slot -> Nat]
    /\ slotVal \in [Slot -> Val]
    /\ pc \in [Thread -> Label]
    /\ ticket \in [Thread -> 0 .. MAX_TICKETS]
    /\ elem \in [Thread -> Val]
    /\ pushed \subseteq (Ticket \X Val)
    /\ popped \subseteq (Ticket \X Val)
    /\ refused \in [Thread -> BOOLEAN]

\* No data race on slot.val: between the check of a slot's sequence number
\* and the store that hands the slot over, no other thread is at that slot,
\* whatever mix of push, try_push, pop and try_pop runs.
AtSlot(p) == pc[p] \in {"put", "publish", "take", "release"}
ExclusiveSlot ==
    \A p, q \in Thread :
        p # q /\ AtSlot(p) /\ AtSlot(q) => idx(ticket[p]) # idx(ticket[q])

\* A pop with ticket t delivers exactly the element that the push with ticket
\* t was given: nothing is lost, overwritten, or delivered before it is there.
DeliversPushed == popped \subseteq pushed

\* try_push returns false only if, during the call, the slot it needed was
\* still occupied by an element one lap older; try_pop returns nullopt only
\* if, during the call, the element next in ticket order was not stored yet.
\* This is so for the tickets within the int parameter of seq().
RefusalJustified ==
    \A p \in Thread : ticket[p] < IntSpan =>
        /\ pc[p] = "try_push_reload" /\ ticket[p] = in => refused[p]
        /\ pc[p] = "try_pop_reload" /\ ticket[p] = out => refused[p]

\* The int parameter of seq() and idx() limits the queue: a ticket of IntSpan
\* (2^31) or more is never served.  Its seq() is a negative int turned into a
\* size_t, which the slot, one lap behind, does not reach; push and pop spin
\* for ever and the try_ calls refuse.  SIZE, a power of two, divides IntSpan.
ServedWithinInt ==
    SIZE > 1 => \A pair \in pushed \cup popped : pair[1] < IntSpan

\* Threads are interchangeable.
Symmetry == Permutations(Thread)

Cells == INSTANCE TicketCells

\* The queue implements the numbered one-shot cells of TicketCells: a ticket
\* is stored once, delivered once, and never more than SIZE are full.
CellsSpec == Cells!Spec
=============================================================================
