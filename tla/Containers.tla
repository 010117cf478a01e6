----------------------------- MODULE Containers -----------------------------
(***************************************************************************)
(* What the concurrent containers promise.  A queue: elements leave in the *)
(* order in which they entered, none is lost or invented, and there are    *)
(* never more than Capacity of them.  A stack: a push and a pop take       *)
(* effect at one instant, last in first out, and the popped element stays  *)
(* with its popper until it is copied out.                                 *)
(***************************************************************************)
EXTENDS Integers, Sequences

CONSTANTS
    Val, Capacity,
    Thread, None  \* of the stack: its users, and the hand of one that has popped nothing

VARIABLES
    items,  \* the next one to leave first
    hand    \* what each thread has popped and not yet copied, or None

Enqueue(v) == Len(items) < Capacity /\ items' = Append(items, v)

Dequeue == items # <<>> /\ items' = Tail(items)

QueueSpec == items = <<>> /\ [][Dequeue \/ \E v \in Val : Enqueue(v)]_items
-----------------------------------------------------------------------------
StackInit == items = <<>> /\ hand = [p \in Thread |-> None]

Push(v) == items' = <<v>> \o items /\ UNCHANGED hand

Pop(p) ==
    /\ items # <<>> /\ hand[p] = None
    /\ items' = Tail(items)
    /\ hand' = [hand EXCEPT ![p] = Head(items)]

CopyOut(p) ==
    /\ hand[p] # None
    /\ hand' = [hand EXCEPT ![p] = None]
    /\ UNCHANGED items

StackNext ==
    \/ \E v \in Val : Push(v)
    \/ \E p \in Thread : Pop(p) \/ CopyOut(p)

StackSpec == StackInit /\ [][StackNext]_<<items, hand>>
=============================================================================
