--------------------------- MODULE EpollPrograms ---------------------------
(***************************************************************************)
(* net/thundering_herd and event/: small servers that ask how many of them *)
(* the kernel wakes for one connection (or one byte in a pipe), and what   *)
(* edge-triggered and one-shot registrations deliver.  A program is a      *)
(* record; the kernel's side of epoll, accept and the wait queues is       *)
(* external, as the programs use it.                                       *)
(***************************************************************************)
EXTENDS Integers, FiniteSets

CONSTANTS Procs,      \* the processes or threads, 1 is the main one; 4 to 6 in the code
          Arrivals    \* how many connections or bytes come

VARIABLES prog, pc,
          q,          \* [socket -> connections or bytes that wait in it]
          items,      \* registrations <<epoll instance, socket>>
          ready,      \* those in their instance's ready list
          spent,      \* those a one-shot event has disabled
          woken,      \* who returned from its wait since the last arrival
          came, calm, \* arrivals; whether everybody waited when the last one came
          events      \* deliveries to a one-shot program

epollVars == <<prog, pc, q, items, ready, spent, woken, came, calm, events>>

\* own: each process makes its epoll instance; socks: one listening socket, one each
\* (SO_REUSEPORT), or the main process' and the others'; said: what its comment says
Program(own, flags, socks, op, said) == [own |-> own, flags |-> flags, socks |-> socks, op |-> op, said |-> said]
accept_process == Program(FALSE, {"NOEPOLL"}, "one", "accept", "single")
accept_thread == Program(FALSE, {"NOEPOLL"}, "one", "accept", "single")
epoll_process == Program(FALSE, {}, "one", "accept", "herd")
epoll_process2 == Program(TRUE, {}, "one", "accept", "herd")
epoll_process3 == Program(FALSE, {"PAIR"}, "two", "accept", "herd")
epoll_process4 == Program(TRUE, {}, "two", "accept", "herd")
epoll_process_exclusive == Program(FALSE, {"EXCLUSIVE"}, "one", "accept", "herd")
epoll_process_exclusive2 == Program(TRUE, {"EXCLUSIVE"}, "one", "accept", "single")
epoll_process_reuseport == Program(FALSE, {}, "one", "accept", "herd")
epoll_process_reuseport2 == Program(TRUE, {}, "each", "accept", "single")
epoll_thread == Program(FALSE, {}, "one", "accept", "herd")
epoll_thread2 == Program(TRUE, {}, "one", "accept", "herd")
epoll_thread_exclusive2 == Program(TRUE, {"EXCLUSIVE"}, "one", "accept", "single")
epoll_thread_reuseport2 == Program(TRUE, {"EXCLUSIVE"}, "each", "accept", "single")
\* event/: a pipe whose reader takes all there is; the last four have one process
herd_case1 == Program(FALSE, {"EXCLUSIVE"}, "one", "read", "herd")
herd_case2 == Program(TRUE, {"EXCLUSIVE"}, "one", "read", "single")
et == Program(TRUE, {"ET", "ALONE"}, "one", "none", "")
\* mutant: level-triggered, as the other programs
oneshot_level == Program(TRUE, {"ALONE"}, "one", "read", "once")
oneshot == Program(TRUE, {"ONESHOT", "ALONE"}, "one", "read", "once")
interest == Program(TRUE, {"ONESHOT", "ALONE", "OUT"}, "one", "none", "once")
close_case == Program(TRUE, {"ALONE", "ENDS"}, "one", "none", "")
Programs == {accept_process, accept_thread, epoll_process, epoll_process2, epoll_process3, epoll_process4,
        epoll_process_exclusive, epoll_process_exclusive2, epoll_process_reuseport, epoll_process_reuseport2,
        epoll_thread, epoll_thread2, epoll_thread_exclusive2, epoll_thread_reuseport2,
        herd_case1, herd_case2, et, oneshot, interest, close_case}

Running == IF "ALONE" \in prog.flags THEN {1} ELSE IF "PAIR" \in prog.flags THEN {1, 2} ELSE Procs
Sock(p) == CASE prog.socks = "one" -> 1 [] prog.socks = "two" -> IF p = 1 THEN 1 ELSE 2 [] OTHER -> p
Item(p) == <<IF prog.own THEN p ELSE 1, Sock(p)>>
Inst(p) == Item(p)[1]
Epoll == "NOEPOLL" \notin prog.flags
InstItems(e, s) == {i \in s : i[1] = e}
Waiters(e) == {p \in Running : pc[p] = "wait" /\ Inst(p) = e}
Events(i) == (IF q[i[2]] > 0 THEN {"IN"} ELSE {}) \cup (IF "OUT" \in prog.flags THEN {"OUT"} ELSE {})

\* A shared instance is registered before fork (or by each, for its own socket).
Init ==
    /\ prog \in Programs
    /\ pc = [p \in Procs |-> "start"] /\ q = [p \in Procs |-> 0]
    /\ items = IF prog.own \/ ~Epoll \/ prog.socks = "two" THEN {} ELSE {<<1, 1>>}
    /\ ready = {} /\ spent = {} /\ woken = {} /\ came = 0 /\ calm = TRUE /\ events = 0

\* epoll_create1 and epoll_ctl(ADD), before the loop
Setup(p) ==
    /\ pc[p] = "start" /\ p \in Running
    /\ pc' = [pc EXCEPT ![p] = "loop"]
    /\ items' = IF Epoll THEN items \cup {Item(p)} ELSE items
    /\ ready' = IF Epoll /\ Events(Item(p)) # {} THEN ready \cup {Item(p)} ELSE ready
    /\ UNCHANGED <<prog, q, spent, woken, came, calm, events>>

\* The loop: accept directly, or epoll_wait, which looks at the ready list before it sleeps
Loop(p) ==
    /\ pc[p] = "loop"
    /\ pc' = [pc EXCEPT ![p] = IF ~Epoll THEN "got" ELSE IF InstItems(Inst(p), ready) # {} THEN "scan" ELSE "wait"]
    /\ UNCHANGED <<prog, q, items, ready, spent, woken, came, calm, events>>

\* epoll_wait takes an event that still holds; a level-triggered one stays in the ready
\* list, and the next waiter of the instance is woken for it.
Scan(p) ==
    /\ pc[p] = "scan"
    /\ LET mine == InstItems(Inst(p), ready)
           live == {i \in mine : Events(i) # {} /\ i \notin spent}
       IN  IF live = {} THEN /\ ready' = ready \ mine /\ pc' = [pc EXCEPT ![p] = "wait"]
                             /\ UNCHANGED <<spent, woken, events>>
           ELSE \E i \in live :
                /\ ready' = (ready \ (mine \ live)) \ (IF prog.flags \cap {"ET", "ONESHOT"} # {} THEN {i} ELSE {})
                /\ spent' = IF "ONESHOT" \in prog.flags THEN spent \cup {i} ELSE spent
                /\ events' = IF "ONESHOT" \in prog.flags \/ prog.said = "once" THEN events + 1 ELSE events
                /\ woken' = woken \cup {p}
                /\ IF InstItems(Inst(p), ready') # {} /\ Waiters(Inst(p)) # {}
                   THEN \E w \in Waiters(Inst(p)) : pc' = [pc EXCEPT ![p] = "got", ![w] = "scan"]
                   ELSE pc' = [pc EXCEPT ![p] = "got"]
    /\ UNCHANGED <<prog, q, items, came, calm>>

\* What the program does with it: the accept of a listening socket blocks
Handle(p) ==
    /\ pc[p] = "got"
    /\ CASE prog.op = "accept" /\ q[Sock(p)] = 0 -> pc' = [pc EXCEPT ![p] = "block"] /\ UNCHANGED <<q, woken>>
         [] prog.op = "accept" /\ q[Sock(p)] > 0 ->
               /\ q' = [q EXCEPT ![Sock(p)] = @ - 1] /\ pc' = [pc EXCEPT ![p] = "loop"]
               /\ woken' = IF Epoll THEN woken ELSE woken \cup {p}
         [] prog.op = "read" -> q' = [q EXCEPT ![Sock(p)] = 0] /\ pc' = [pc EXCEPT ![p] = "loop"] /\ UNCHANGED woken
         [] OTHER -> /\ pc' = [pc EXCEPT ![p] = IF "ENDS" \in prog.flags THEN "end" ELSE "loop"]
                     /\ UNCHANGED <<q, woken>>
    /\ UNCHANGED <<prog, items, ready, spent, came, calm, events>>

\* The socket's wait queue: every plain registration is told, then the exclusive ones and
\* the blocked accepts, until one of them has woken somebody.
Plain(s) == {i \in items : i[2] = s /\ "EXCLUSIVE" \notin prog.flags}
Exclusive(s) == {i \in items : i[2] = s /\ "EXCLUSIVE" \in prog.flags}
Blocked(s) == {p \in Running : pc[p] = "block" /\ Sock(p) = s}
Told(s, won, wakes) ==
    /\ ready' = ready \cup Plain(s) \cup won
    /\ pc' = [p \in Procs |-> IF p \notin wakes THEN pc[p] ELSE IF pc[p] = "block" THEN "got" ELSE "scan"]
OnePerPlain(s) == {ws \in SUBSET Running : ws \subseteq UNION {Waiters(i[1]) : i \in Plain(s)} /\
    \A i \in Plain(s) : Cardinality(ws \cap Waiters(i[1])) = IF Waiters(i[1]) = {} THEN 0 ELSE 1}
OneBlocked(s) == IF Blocked(s) = {} THEN {{}} ELSE {{p} : p \in Blocked(s)}
Idle(s) == {i \in Exclusive(s) : Waiters(i[1]) = {}}
Parked == \A p \in Running : pc[p] \in {"wait", "block"}
\* close.cpp writes its one byte itself, after the registration.
Arrive ==
    /\ "ENDS" \in prog.flags => came = 0 /\ pc[1] # "start"
    /\ came < Arrivals /\ came' = came + 1 /\ calm' = Parked /\ woken' = {}
    /\ \E s \in {Sock(p) : p \in Running} :
        /\ q' = [q EXCEPT ![s] = @ + 1]
        /\ \/ \E i \in Exclusive(s) : \E w \in Waiters(i[1]) : \E before \in SUBSET Idle(s) :
                 Told(s, before \cup {i}, {w})
           \/ /\ \A i \in Exclusive(s) : Waiters(i[1]) = {}
              /\ \E ws \in OnePerPlain(s) : \E b \in OneBlocked(s) : Told(s, Exclusive(s), ws \cup b)
    /\ UNCHANGED <<prog, items, spent, events>>

Step(p) == Setup(p) \/ Loop(p) \/ Scan(p) \/ Handle(p)
Next == Arrive \/ \E p \in Procs : Step(p)
Spec == Init /\ [][Next]_epollVars /\ \A p \in Procs : WF_epollVars(Step(p))

----------------------------------------------------------------------------
\* The programs whose comment says there is no thundering herd wake one process for an
\* arrival that finds them all waiting, and a one-shot registration delivers once, whatever comes after.
HerdAsSaid ==
    /\ prog.said = "single" /\ calm => Cardinality(woken) <= 1
    /\ prog.said = "once" => events <= 1
\* Owed: whoever was woken for nothing and now blocks in accept, or holds the other
\* port's event, every connection is accepted and every byte read; and an edge-triggered
\* reader that never reads is still woken by the next write, close.cpp's by its own byte.
Serves == prog.op # "none" /\ prog.said # "once"
Owed ==
    \/ Serves /\ \E s \in Procs : q[s] > 0
    \/ prog \in {et, close_case} /\ came > 0 /\ woken = {}
=============================================================================
