------------------------------ MODULE NodePool ------------------------------
(***************************************************************************)
(* What the lock-free Freelist promises its users: memory for a node       *)
(* belongs to one user at a time, and a returned node is handed out again  *)
(* last-in first-out.                                                      *)
(***************************************************************************)
EXTENDS Integers, Sequences

CONSTANTS
    Thread,
    Node    \* naturals: which fresh node the heap gives is immaterial, so it is the least

VARIABLES
    fresh,  \* nodes the heap has not handed out yet
    free,   \* returned nodes, the last one first
    owned   \* the nodes each thread holds

pool == <<fresh, free, owned>>

Init ==
    /\ fresh = Node /\ free = <<>>
    /\ owned = [p \in Thread |-> {}]

Recycle(p) ==
    /\ free # <<>>
    /\ free' = Tail(free)
    /\ owned' = [owned EXCEPT ![p] = @ \cup {Head(free)}]
    /\ UNCHANGED fresh

FromHeap(p, n) ==
    /\ n \in fresh /\ \A m \in fresh : n <= m
    /\ fresh' = fresh \ {n}
    /\ owned' = [owned EXCEPT ![p] = @ \cup {n}]
    /\ UNCHANGED free

Return(p, n) ==
    /\ n \in owned[p]
    /\ owned' = [owned EXCEPT ![p] = @ \ {n}]
    /\ free' = <<n>> \o free
    /\ UNCHANGED fresh

Next ==
    \E p \in Thread :
        \/ Recycle(p)
        \/ \E n \in Node : FromHeap(p, n) \/ Return(p, n)

Spec == Init /\ [][Next]_pool
=============================================================================
