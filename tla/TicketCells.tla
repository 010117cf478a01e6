---------------------------- MODULE TicketCells ----------------------------
(***************************************************************************)
(* What Bounded_mpmc promises its callers, without slots, sequence numbers *)
(* or threads: numbered one-shot cells.  Cell t is filled once, by the     *)
(* push that holds ticket t, and emptied once, by the pop that holds       *)
(* ticket t, which gets the value that was put in.  A cell may be filled   *)
(* only when the cell SIZE places before it has been emptied, so at most   *)
(* SIZE cells are full.  Cells may be filled and emptied out of order:     *)
(* tickets order the elements, completion times do not.                    *)
(***************************************************************************)
EXTENDS Integers

CONSTANTS
    SIZE,    \* number of slots of the queue
    Ticket,  \* the ticket numbers, a set of naturals
    Val      \* the elements

VARIABLES
    pushed,  \* {<<t, v>>}: value v was stored for ticket t
    popped   \* {<<t, v>>}: ticket t was delivered with value v

cells == <<pushed, popped>>

Tickets(pairs) == {pair[1] : pair \in pairs}

Init == pushed = {} /\ popped = {}

Put(t, v) ==
    /\ t \notin Tickets(pushed)
    /\ t >= SIZE => t - SIZE \in Tickets(popped)
    /\ pushed' = pushed \cup {<<t, v>>}
    /\ UNCHANGED popped

Get(t, v) ==
    /\ <<t, v>> \in pushed
    /\ t \notin Tickets(popped)
    /\ popped' = popped \cup {<<t, v>>}
    /\ UNCHANGED pushed

Next ==
    \/ \E t \in Ticket, v \in Val : Put(t, v)
    \/ \E pair \in pushed : Get(pair[1], pair[2])

Spec == Init /\ [][Next]_cells
=============================================================================
