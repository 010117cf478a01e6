-------------------------- MODULE ExceptionSafety --------------------------
(***************************************************************************)
(* c++/exception safety/case1..7.cpp: seven designs of one Stack<T>.  Any  *)
(* new expression and any copy of a T may throw; an operation is the set   *)
(* of its outcomes.  Two stacks of the same design are created, copied,    *)
(* assigned, used and destroyed in any order.                              *)
(***************************************************************************)
EXTENDS Integers, Sequences, FiniteSets

CONSTANTS Designs,       \* which of the seven cases
          Values,        \* elements
          InitCapacity,  \* 10 in the code
          MaxSize,       \* bound on the elements pushed
          MaxThrows      \* bound on the copies that throw in a copy constructor

VARIABLES design, stacks, heap, threw, got, copyThrew
\* stacks: by name [data, items, capacity], data = 0: no such object
\* heap: the arrays allocated; got: what the last pop or top handed out
\* copyThrew (history): how many copy constructors an element threw in

stackVars == <<design, stacks, heap, threw, got, copyThrew>>

Names == {"stk0", "stk1"}
None == [data |-> 0, items |-> <<>>, capacity |-> 0]
Fresh == CHOOSE n \in 1 .. 8 : n \notin heap
Init ==
    /\ design \in Designs /\ stacks = [x \in Names |-> None] /\ heap = {}
    /\ threw = FALSE /\ got = <<>> /\ copyThrew = 0

\* An outcome: the heap, the array made (0: an exception instead), whether a copy threw
Threw(h) == [heap |-> h, data |-> 0, copying |-> FALSE]
Made == [heap |-> heap \cup {Fresh}, data |-> Fresh, copying |-> FALSE]
\* new T[n]
New == {Threw(heap), Made}
\* std::copy of the elements may throw at any of them, and has none to throw at when empty
CopyThrows(items, h) == IF items = <<>> THEN {} ELSE {[Threw(h) EXCEPT !.copying = TRUE]}
\* mutant: the array is not freed when the copy throws
copy_data_leaking(items) == New \cup CopyThrows(items, heap \cup {Fresh})
\* case 1 inline, cases 2, 3, 4 and 7 as copy_data: catch, delete[], rethrow
copy_data(items) == New \cup CopyThrows(items, heap)
\* case 5, Stack_impl(const Stack_impl &): no object yet, so no destructor frees data
impl_copy_raw(items) == New \cup CopyThrows(items, heap \cup {Fresh})
\* case 6: the unique_ptr member frees it
impl_copy_unique(items) == New \cup CopyThrows(items, heap)
CopyCtor(items) == CASE design = 5 -> impl_copy_raw(items) [] design = 6 -> impl_copy_unique(items)
                     [] OTHER -> copy_data(items)
Counted(r) == copyThrew' = copyThrew + (IF r.copying THEN 1 ELSE 0) /\ copyThrew' <= MaxThrows
\* push grows into a complete Stack_impl in cases 5 and 6: its destructor frees it
Grown(items) == IF design \in {5, 6} THEN New \cup CopyThrows(items, heap) ELSE copy_data(items)

\* One outcome takes effect: x becomes s with the new array, old is freed
Outcome(r, x, s, old) ==
    IF r.data = 0 THEN heap' = r.heap /\ threw' = TRUE /\ UNCHANGED stacks
    ELSE /\ heap' = r.heap \ {old} /\ threw' = FALSE
         /\ stacks' = [stacks EXCEPT ![x] = [s EXCEPT !.data = r.data]]
Alive(x) == stacks[x].data # 0

Construct(x) ==
    /\ ~Alive(x)
    /\ \E r \in New : Outcome(r, x, [None EXCEPT !.capacity = InitCapacity], 0)
    /\ UNCHANGED <<design, got, copyThrew>>
CopyConstruct(x, y) ==
    /\ ~Alive(x) /\ Alive(y)
    /\ \E r \in CopyCtor(stacks[y].items) : Outcome(r, x, stacks[y], 0) /\ Counted(r)
    /\ UNCHANGED <<design, got>>
\* operator=: copy, then destroy the old array (cases 5 and 6 swap it into the temporary,
\* for a self-assignment too)
Assign(x, y) ==
    /\ Alive(x) /\ Alive(y) /\ (x = y => design \in {5, 6})
    /\ \E r \in CopyCtor(stacks[y].items) : Outcome(r, x, stacks[y], stacks[x].data) /\ Counted(r)
    /\ UNCHANGED <<design, got>>
Destroy(x) ==
    /\ Alive(x) /\ heap' = heap \ {stacks[x].data} /\ stacks' = [stacks EXCEPT ![x] = None]
    /\ threw' = FALSE /\ UNCHANGED <<design, got, copyThrew>>

\* push: cases 3 to 7.  The copy of elem into its place may throw after growing.
Pushed(s, v) == [s EXCEPT !.items = Append(@, v)]
push(x, v) ==
    /\ design >= 3 /\ Alive(x) /\ Len(stacks[x].items) < MaxSize
    /\ LET s == stacks[x]
           twice == [s EXCEPT !.capacity = 2 * @]
       IN  IF Len(s.items) < s.capacity
           THEN /\ stacks' \in {stacks, [stacks EXCEPT ![x] = Pushed(s, v)]}
                /\ threw' = (stacks' = stacks) /\ UNCHANGED heap
           ELSE \E r \in Grown(s.items) :
                  \/ Outcome(r, x, Pushed(twice, v), s.data)
                  \/ /\ r.data # 0 /\ threw' = TRUE /\ heap' = r.heap \ {s.data}
                     /\ stacks' = [stacks EXCEPT ![x] = [twice EXCEPT !.data = r.data]]
    /\ UNCHANGED <<design, got, copyThrew>>

Popped(s) == [s EXCEPT !.items = SubSeq(@, 1, Len(@) - 1)]
Topmost(s) == s.items[Len(s.items)]
Empty(x) == stacks[x].items = <<>> /\ threw' = TRUE /\ UNCHANGED <<stacks, got>>
\* case 3: the value is copied out before the size is lowered, and again on return
pop_value(x) ==
    /\ design = 3
    /\ \/ Empty(x)
       \/ /\ stacks[x].items # <<>>
          /\ \/ threw' = TRUE /\ UNCHANGED <<stacks, got>>
             \/ /\ stacks' = [stacks EXCEPT ![x] = Popped(@)]
                /\ threw' \in BOOLEAN
                /\ got' = IF threw' THEN got ELSE <<Topmost(stacks[x])>>
\* cases 4 to 6: pop returns nothing, top changes nothing
pop_void(x) ==
    /\ design \in {4, 5, 6}
    /\ \/ Empty(x)
       \/ /\ stacks[x].items # <<>> /\ stacks' = [stacks EXCEPT ![x] = Popped(@)]
          /\ threw' = FALSE /\ UNCHANGED got
top(x) ==
    /\ design \in {4, 5, 6}
    /\ \/ Empty(x)
       \/ /\ stacks[x].items # <<>> /\ threw' \in BOOLEAN /\ UNCHANGED stacks
          /\ got' = IF threw' THEN got ELSE <<Topmost(stacks[x])>>
\* case 7: make_shared copies the value, then nothing throws any more
\* mutant: the size is lowered before the value is copied
pop_shared_early(x) ==
    /\ design = 7
    /\ \/ Empty(x)
       \/ /\ stacks[x].items # <<>> /\ stacks' = [stacks EXCEPT ![x] = Popped(@)]
          /\ threw' \in BOOLEAN /\ got' = IF threw' THEN got ELSE <<Topmost(stacks[x])>>
pop_shared(x) ==
    /\ design = 7
    /\ \/ Empty(x)
       \/ /\ stacks[x].items # <<>>
          /\ \/ threw' = TRUE /\ UNCHANGED <<stacks, got>>
             \/ /\ stacks' = [stacks EXCEPT ![x] = Popped(@)]
                /\ threw' = FALSE /\ got' = <<Topmost(stacks[x])>>
Take(x) == Alive(x) /\ (pop_value(x) \/ pop_void(x) \/ top(x) \/ pop_shared(x))
           /\ UNCHANGED <<design, heap, copyThrew>>

Next == \E x \in Names : \/ Construct(x) \/ Destroy(x) \/ Take(x)
                         \/ \E y \in Names : CopyConstruct(x, y) \/ Assign(x, y)
                         \/ \E v \in Values : push(x, v)
Spec == Init /\ [][Next]_stackVars

\* An operation that throws leaves every stack with the elements it had (the strong
\* guarantee the cases build up to); case 3's pop is the counterexample the case is about.
Restored ==
    threw' /\ (design # 3 \/ \A x \in Names : Len(stacks'[x].items) >= Len(stacks[x].items))
        => \A x \in Names : stacks'[x].items = stacks[x].items

\* Every living stack has its own array, nothing is freed twice, and nothing leaks,
\* whichever expressions threw on the way; except that in case 5, which is meant to be made
\* exception safe by its swap (case5.cpp:1), every copy constructor and assignment whose
\* std::copy throws leaks one array (case5.cpp:58-65), and nothing else does.
HeapOwned ==
    /\ LET owned == {stacks[x].data : x \in Names} \ {0}
       IN  /\ owned \subseteq heap
           /\ Cardinality(heap \ owned) = IF design = 5 THEN copyThrew ELSE 0
    /\ \A x, y \in Names : Alive(x) /\ stacks[x].data = stacks[y].data => x = y
    /\ \A x \in Names : Len(stacks[x].items) <= stacks[x].capacity
=============================================================================
