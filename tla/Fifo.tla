-------------------------------- MODULE Fifo --------------------------------
(***************************************************************************)
(* Fifo (Concurrency/Fifo.cpp): a lock-free ring for one producer and one  *)
(* consumer.  _in and _out are indices in 0 .. SIZE-1; one slot stays      *)
(* empty, so that in = out means empty and in+1 = out means full.          *)
(*                                                                         *)
(* Each thread reads its own index with a relaxed load, which nobody else  *)
(* writes; that load is part of the step that reads the other's index.     *)
(*                                                                         *)
(* The program is main(): the producer pushes 1 .. count, each number      *)
(* until push succeeds; the consumer retries pop until it has count        *)
(* numbers, asserting that each follows the one before.                    *)
(***************************************************************************)
EXTENDS Integers, Sequences

CONSTANTS
    SIZE,   \* a power of two greater than one
    Val,    \* the elements
    MAX     \* bound on the number of elements pushed

VARIABLES
    in, out,   \* _in, _out
    buffer,    \* _buffer
    prod,      \* the producer: [pc, elem]
    cons,      \* the consumer: [pc, elem]
    sent,      \* history: the elements whose push returned true or is past
               \* its store of _in, in order
    got,       \* history: the elements whose pop is past its store of _out
    prev, g_value,  \* main(): the consumer's static prev, and the sum
    failed          \* main(): Checkpoint #1 has failed

vars == <<in, out, buffer, prod, cons, sent, got, prev, g_value, failed>>

MASK(x) == x % SIZE  \* x & MASK, for SIZE a power of two

\* make_unique value-initialises the ring; the threads have no element yet.
Init ==
    /\ in = 0 /\ out = 0
    /\ buffer = [i \in 0 .. SIZE - 1 |-> 0]
    /\ prod = [pc |-> "idle", elem |-> 0] /\ cons = [pc |-> "idle", elem |-> 0]
    /\ sent = <<>> /\ got = <<>>
    /\ prev = 0 /\ g_value = 0 /\ failed = FALSE
-----------------------------------------------------------------------------
FullAtOut == in = out      \* mutant: the test for empty
Full == MASK(in + 1) = out

\* push loads _in and _out; it returns false when the ring is full.
PushCheck(v) ==
    /\ prod.pc = "idle" /\ Len(sent) < MAX
    /\ prod' = [pc |-> IF Full THEN "idle" ELSE "write", elem |-> v]
    /\ UNCHANGED <<in, out, buffer, cons, sent, got>>

\* _buffer[in] = std::move(elem)
PushWrite ==
    /\ prod.pc = "write"
    /\ buffer' = [buffer EXCEPT ![in] = prod.elem]
    /\ prod' = [prod EXCEPT !.pc = "store"]
    /\ UNCHANGED <<in, out, cons, sent, got>>

\* _in.store(next_in, release)
PushStore ==
    /\ prod.pc = "store"
    /\ in' = MASK(in + 1)
    /\ sent' = Append(sent, prod.elem)
    /\ prod' = [prod EXCEPT !.pc = "idle"]
    /\ UNCHANGED <<out, buffer, cons, got>>

\* pop loads _in and _out; on an empty ring it returns nullopt, which changes
\* nothing and is a stuttering step.
PopCheck ==
    /\ cons.pc = "idle"
    /\ in # out
    /\ cons' = [cons EXCEPT !.pc = "read"]
    /\ UNCHANGED <<in, out, buffer, prod, sent, got>>

\* std::move(_buffer[out])
PopRead ==
    /\ cons.pc = "read"
    /\ cons' = [pc |-> "store", elem |-> buffer[out]]
    /\ UNCHANGED <<in, out, buffer, prod, sent, got>>

\* _out.store(out+1 & MASK, release); return opt
PopStore ==
    /\ cons.pc = "store"
    /\ out' = MASK(out + 1)
    /\ got' = Append(got, cons.elem)
    /\ cons' = [cons EXCEPT !.pc = "idle"]
    /\ UNCHANGED <<in, buffer, prod, sent>>

produce ==
    /\ PushCheck(Len(sent) + 1) \/ PushWrite \/ PushStore
    /\ UNCHANGED <<prev, g_value, failed>>

consume ==
    /\ Len(got) < MAX
    /\ PopCheck \/ PopRead \/ PopStore
    /\ IF cons.pc = "store"
       THEN /\ failed' = (failed \/ prev + 1 # cons.elem)
            /\ prev' = cons.elem
            /\ g_value' = g_value + cons.elem
       ELSE UNCHANGED <<prev, g_value, failed>>

Next == produce \/ consume

Spec == Init /\ [][Next]_vars
-----------------------------------------------------------------------------
\* The producer never writes the slot the consumer is reading: no data race
\* on _buffer, although neither thread ever waits for the other.
NoRace == ~(prod.pc = "write" /\ cons.pc = "read" /\ in = out)

\* The elements in the ring, oldest first.
Contents == [i \in 1 .. MASK(in - out) |-> buffer[MASK(out + i - 1)]]

Queue == INSTANCE Containers WITH
    items <- Contents, Capacity <- SIZE - 1, hand <- <<>>, Thread <- {}, None <- 0

\* The ring is a first-in first-out queue of capacity SIZE - 1: storing _in
\* enqueues, storing _out dequeues, and no other step is visible.
QueueSpec == Queue!QueueSpec

\* Checkpoints #1 and #2 of main(): the numbers arrive in order, and when all
\* have arrived their sum is the sum of 1 .. count.
Checkpoints ==
    /\ ~failed
    /\ Len(got) = MAX => 2 * g_value = MAX * (MAX + 1)
=============================================================================
