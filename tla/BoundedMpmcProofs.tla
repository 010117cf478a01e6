-------------------------- MODULE BoundedMpmcProofs --------------------------
(***************************************************************************)
(* Proofs about Bounded_mpmc, for every number of slots and threads and on *)
(* both sides of the int limit.  The inductive invariant IInv says which   *)
(* tickets a slot's sequence number has served, who holds which ticket,    *)
(* and that no number passes the int parameter of seq().                   *)
(***************************************************************************)
EXTENDS BoundedMpmc, TLAPS

\* SIZE, a power of two greater than 1, divides IntSpan; the tickets may pass
\* the int parameter of seq() and idx(), but not come round to it again: for
\* that IntSpan (2^31) calls would have to wait at the same time.
InRange == SIZE > 1 /\ IntSpan % SIZE = 0 /\ MAX_TICKETS < 2 * IntSpan

LEMMA SmallMod ==
    ASSUME NEW a \in Nat, NEW m \in Nat, a < m
    PROVE  a % m = a
  OBVIOUS

LEMMA DivMod ==
    ASSUME NEW a \in Nat, NEW m \in Nat \ {0}
    PROVE  /\ a \div m \in Nat
           /\ a % m \in 0 .. m - 1
           /\ a = m * (a \div m) + (a % m)
  OBVIOUS

LEMMA DivModInt ==
    ASSUME NEW a \in Int, NEW m \in Nat \ {0}
    PROVE  /\ a \div m \in Int
           /\ a % m \in 0 .. m - 1
           /\ a = m * (a \div m) + (a % m)
  OBVIOUS

\* A negative number is brought into the unsigned range by one modulus.
LEMMA WrapMod ==
    ASSUME NEW m \in Nat \ {0}, NEW a \in Int, -m <= a, a < 0
    PROVE  a % m = a + m
  OBVIOUS

\* Division keeps the side of a multiple of the divisor.
LEMMA DivBounds ==
    ASSUME NEW m \in Nat \ {0}, NEW a \in Int, NEW c \in Int
    PROVE  /\ a >= m * c => a \div m >= c
           /\ a < m * c => a \div m < c
<1> DEFINE q == a \div m
           r == a % m
<1>1. q \in Int /\ r \in 0 .. m - 1 /\ a = m * q + r
  BY Zenon, DivModInt
<1> HIDE DEF q, r
<1>2. ASSUME a >= m * c, q < c PROVE FALSE
  <2> DEFINE d == c - q
  <2>1. d \in Nat /\ d >= 1 /\ c = q + d
    BY <1>1, <1>2
  <2> HIDE DEF d
  <2>2. m * c = m * q + m * d
    BY <1>1, <2>1
  <2>3. m * d >= m
    BY <2>1
  <2> QED BY <1>1, <1>2, <2>1, <2>2, <2>3
<1>3. ASSUME a < m * c, q >= c PROVE FALSE
  <2> DEFINE d == q - c
  <2>1. d \in Nat /\ q = c + d
    BY <1>1, <1>3
  <2> HIDE DEF d
  <2>2. m * q = m * c + m * d
    BY <1>1, <2>1
  <2>3. m * d >= 0
    BY <2>1
  <2> QED BY <1>1, <1>3, <2>1, <2>2, <2>3
<1> QED BY <1>1, <1>2, <1>3 DEF q

LEMMA DoubleDiv ==
    ASSUME NEW a \in Nat, NEW m \in Nat, m > 1
    PROVE  2 * (a \div m) <= a
<1>1. a \div m \in Nat /\ a >= m * (a \div m)
  BY DivMod
<1>2. m * (a \div m) >= 2 * (a \div m)
  BY <1>1
<1> QED BY <1>1, <1>2

LEMMA SameCell ==
    ASSUME NEW m \in Nat \ {0}, NEW a \in Nat, NEW b \in Nat,
           a % m = b % m, a \div m = b \div m
    PROVE  a = b
  BY Zenon, DivMod

LEMMA LapBack ==
    ASSUME NEW m \in Nat \ {0}, NEW a \in Nat, a >= m
    PROVE  (a - m) % m = a % m /\ (a - m) \div m = (a \div m) - 1
<1> DEFINE q == a \div m
           r == a % m
           k == (a - m) \div m
           j == (a - m) % m
<1>1. q \in Nat /\ r \in 0 .. m - 1 /\ a = m * q + r
  BY Zenon, DivMod
<1>2. k \in Nat /\ j \in 0 .. m - 1 /\ a - m = m * k + j
  <2> DEFINE c == a - m
  <2>1. c \in Nat
    OBVIOUS
  <2> HIDE DEF c
  <2>2. c \div m \in Nat /\ c % m \in 0 .. m - 1 /\ c = m * (c \div m) + (c % m)
    BY Zenon, <2>1, DivMod
  <2> QED BY <2>2 DEF c
<1> HIDE DEF q, r, k, j
<1>3. m * (k + 1) + j = m * q + r
  BY <1>1, <1>2
<1>4. ~(k + 1 < q)
  <2> SUFFICES ASSUME k + 1 < q PROVE FALSE OBVIOUS
  <2> DEFINE d == q - (k + 1)
  <2>1. d \in Nat /\ d >= 1 /\ q = k + 1 + d
    BY <1>1, <1>2
  <2> HIDE DEF d
  <2>2. m * q = m * (k + 1) + m * d
    BY <1>2, <2>1
  <2>3. m * d >= m
    BY <2>1
  <2> QED BY <1>1, <1>2, <1>3, <2>1, <2>2, <2>3
<1>5. ~(q < k + 1)
  <2> SUFFICES ASSUME q < k + 1 PROVE FALSE OBVIOUS
  <2> DEFINE d == (k + 1) - q
  <2>1. d \in Nat /\ d >= 1 /\ k + 1 = q + d
    BY <1>1, <1>2
  <2> HIDE DEF d
  <2>2. m * (k + 1) = m * q + m * d
    BY <1>1, <2>1
  <2>3. m * d >= m
    BY <2>1
  <2> QED BY <1>1, <1>2, <1>3, <2>1, <2>2, <2>3
<1>6. k + 1 = q
  BY <1>1, <1>2, <1>4, <1>5
<1>7. j = r
  BY <1>1, <1>2, <1>3, <1>6
<1> QED BY <1>1, <1>2, <1>6, <1>7 DEF q, r, k, j

Drawn == 0 .. MAX_TICKETS

\* The tickets within the int parameter.
Local == {t \in Drawn : t < IntSpan}

LEMMA SeqIdx ==
    ASSUME InRange, NEW t \in Local
    PROVE  /\ seq(t) = 2 * Lap(t)
           /\ idx(t) = t % SIZE
           /\ idx(t) \in Slot
           /\ Lap(t) \in Nat
           /\ ToSize(seq(t) + 1) = 2 * Lap(t) + 1
           /\ ToSize(seq(t) + 2) = 2 * Lap(t) + 2
<1> USE SizeAssumption, WidthAssumption, MaxTicketsAssumption DEF InRange, Local, Drawn
<1>1. t \in Nat /\ t < IntSpan
  OBVIOUS
<1>2. ToInt(t) = t
  BY <1>1, SmallMod DEF ToInt
<1>3. Lap(t) \in Nat /\ 2 * Lap(t) <= t
  BY <1>1, DivMod, DoubleDiv DEF Lap
<1>4. ToInt(2 * Lap(t)) = 2 * Lap(t)
  BY <1>1, <1>3, SmallMod DEF ToInt
<1>5. ToSize(2 * Lap(t)) = 2 * Lap(t)
  BY <1>1, <1>3, SmallMod DEF ToSize
<1>6. ToSize(2 * Lap(t) + 1) = 2 * Lap(t) + 1
  BY <1>1, <1>3, SmallMod DEF ToSize
<1>7. ToSize(2 * Lap(t) + 2) = 2 * Lap(t) + 2
  BY <1>1, <1>3, SmallMod DEF ToSize
<1>8. idx(t) = t % SIZE /\ idx(t) \in Slot
  BY <1>1, <1>2, DivMod DEF idx, Slot
<1> QED BY <1>2, <1>3, <1>4, <1>5, <1>6, <1>7, <1>8 DEF seq

\* The sequence numbers of the tickets within the int stay within it.
LEMMA LapBound ==
    ASSUME InRange, NEW t \in Local
    PROVE  2 * Lap(t) + 2 <= IntSpan
<1> USE SizeAssumption, WidthAssumption, MaxTicketsAssumption DEF InRange, Local, Drawn
<1> DEFINE c == IntSpan \div SIZE
           q == t \div SIZE
<1>1. c \in Nat /\ IntSpan = SIZE * c /\ 2 * c <= IntSpan
  BY DivMod, DoubleDiv
<1>2. q \in Nat
  BY DivMod
<1> HIDE DEF c
<1>3. q < c
  <2>1. t \in Int /\ c \in Int /\ SIZE \in Nat \ {0} /\ t < SIZE * c
    BY <1>1
  <2> QED BY Zenon, <2>1, DivBounds
<1> HIDE DEF q
<1> QED BY <1>1, <1>2, <1>3 DEF Lap, q

\* A ticket past the int waits for a number no slot within the int reaches.
LEMMA LateSeq ==
    ASSUME InRange, NEW t \in Drawn, t >= IntSpan
    PROVE  /\ idx(t) \in Slot
           /\ seq(t) \in Nat /\ seq(t) > IntSpan
           /\ ToSize(seq(t) + 1) \in Nat /\ ToSize(seq(t) + 1) > IntSpan
<1> USE SizeAssumption, WidthAssumption, MaxTicketsAssumption DEF InRange, Drawn
<1> DEFINE n == t - 2 * IntSpan
           c == IntSpan \div SIZE
           q == n \div SIZE
<1>1. n \in Int /\ -IntSpan <= n /\ n < 0
  OBVIOUS
<1>2. ToInt(t) = n
  BY SmallMod DEF ToInt
<1>3. c \in Nat /\ IntSpan = SIZE * c /\ 2 * c <= IntSpan
  BY DivMod, DoubleDiv
<1> HIDE DEF n, c
<1>4. q \in Int /\ n % SIZE \in Slot
  BY <1>1, DivModInt DEF Slot
<1>5. q >= -c /\ q < 0
  <2>1. -c \in Int /\ 0 \in Int /\ SIZE \in Nat \ {0} /\ n >= SIZE * (-c) /\ n < SIZE * 0
    BY <1>1, <1>3
  <2> QED BY Zenon, <1>1, <2>1, DivBounds
<1> HIDE DEF q
<1> DEFINE w == 2 * q
<1>6. w \in Int /\ -IntSpan <= w /\ w <= -2
  BY <1>3, <1>4, <1>5
<1>7. Lap(ToInt(t)) = q /\ idx(t) = n % SIZE
  BY <1>2 DEF Lap, idx, q
<1> HIDE DEF w
<1>8. ToInt(w) = w
  <2>1. w % (2 * IntSpan) = w + 2 * IntSpan
    BY <1>6, WrapMod
  <2> QED BY <1>6, <2>1 DEF ToInt
<1>9. ToSize(w) = w + SizeSpan
  BY <1>6, WrapMod DEF ToSize
<1>10. seq(t) = w + SizeSpan
  BY Zenon, <1>7, <1>8, <1>9 DEF seq, w
<1>11. ToSize(seq(t) + 1) = seq(t) + 1
  BY <1>6, <1>10, SmallMod DEF ToSize
<1> QED BY <1>4, <1>6, <1>7, <1>10, <1>11
-----------------------------------------------------------------------------
Pushed(t) == \E v \in Val : <<t, v>> \in pushed
Popped(t) == \E v \in Val : <<t, v>> \in popped

Pusher(p) == pc[p] \in {"push_spin", "put", "publish"}
Popper(p) == pc[p] \in {"pop_spin", "take", "release"}

\* A slot's sequence number tells exactly which of its tickets are done, and
\* stays within the int.
Status ==
    /\ \A t \in Local :
        /\ Pushed(t) <=> slotSeq[idx(t)] >= 2 * Lap(t) + 1
        /\ Popped(t) <=> slotSeq[idx(t)] >= 2 * Lap(t) + 2
    /\ \A i \in Slot : slotSeq[i] <= IntSpan

\* Only tickets that were handed out, and are within the int, are used.
Handed ==
    \A t \in Drawn :
        /\ Pushed(t) => t < in /\ t < IntSpan
        /\ Popped(t) => t < out /\ t < IntSpan

\* A thread between its ticket and the end of its call holds a ticket that is
\* handed out and not used yet; a thread inside a try_ call has seen a counter.
Held ==
    \A p \in Thread :
        /\ Pusher(p) => ticket[p] < in /\ ~Pushed(ticket[p])
        /\ Popper(p) => ticket[p] < out /\ ~Popped(ticket[p])
        /\ pc[p] \in {"try_push_check", "try_push_reload", "try_push_cas"} => ticket[p] <= in
        /\ pc[p] \in {"try_pop_check", "try_pop_reload", "try_pop_cas"} => ticket[p] <= out

\* No ticket is held by two threads.
Distinct ==
    \A p, q \in Thread :
        p # q /\ ((Pusher(p) /\ Pusher(q)) \/ (Popper(p) /\ Popper(q)))
            => ticket[p] # ticket[q]

\* A thread at a slot has been given the slot, for a ticket within the int.
Turn ==
    \A p \in Thread :
        /\ AtSlot(p) \/ pc[p] \in {"try_push_cas", "try_pop_cas"} => ticket[p] < IntSpan
        /\ pc[p] \in {"put", "publish"} => slotSeq[idx(ticket[p])] = 2 * Lap(ticket[p])
        /\ pc[p] \in {"take", "release"} => slotSeq[idx(ticket[p])] = 2 * Lap(ticket[p]) + 1
        /\ pc[p] = "try_push_cas" => slotSeq[idx(ticket[p])] >= 2 * Lap(ticket[p])
        /\ pc[p] = "try_pop_cas" => slotSeq[idx(ticket[p])] >= 2 * Lap(ticket[p]) + 1

\* A slot holds the element of the ticket that is stored and not delivered.
SlotContent ==
    \A t \in Local, v \in Val :
        <<t, v>> \in pushed /\ ~Popped(t) => slotVal[idx(t)] = v

\* A thread about to publish has written its element, and one about to
\* release its slot has read the element that was pushed.
LocalContent ==
    \A p \in Thread :
        /\ pc[p] = "publish" => slotVal[idx(ticket[p])] = elem[p]
        /\ pc[p] = "release" => <<ticket[p], elem[p]>> \in pushed

IInv ==
    /\ TypeOK
    /\ Status /\ Handed /\ Held /\ Distinct /\ Turn
    /\ SlotContent /\ LocalContent /\ DeliversPushed
    /\ RefusalJustified

LEMMA CellFacts ==
    ASSUME InRange
    PROVE  /\ \A t \in Local :
               /\ idx(t) \in Slot
               /\ 2 * Lap(t) + 2 <= IntSpan
               /\ Lap(t) \in Nat
               /\ seq(t) = 2 * Lap(t)
               /\ ToSize(seq(t) + 1) = 2 * Lap(t) + 1
               /\ ToSize(seq(t) + 2) = 2 * Lap(t) + 2
           /\ \A s, t \in Local : idx(s) = idx(t) /\ Lap(s) = Lap(t) => s = t
           /\ \A t \in Local : t >= SIZE =>
               t - SIZE \in Local /\ idx(t - SIZE) = idx(t) /\ Lap(t - SIZE) = Lap(t) - 1
           /\ \A t \in Local : Lap(t) > 0 => t >= SIZE
<1> USE SizeAssumption, MaxTicketsAssumption DEF Local, Drawn
<1>1. \A t \in Local :
        /\ idx(t) \in Slot
        /\ 2 * Lap(t) + 2 <= IntSpan
        /\ Lap(t) \in Nat
        /\ seq(t) = 2 * Lap(t)
        /\ ToSize(seq(t) + 1) = 2 * Lap(t) + 1
        /\ ToSize(seq(t) + 2) = 2 * Lap(t) + 2
        /\ idx(t) = t % SIZE
  BY SeqIdx, LapBound
<1>2. \A s, t \in Local : idx(s) = idx(t) /\ Lap(s) = Lap(t) => s = t
  <2> TAKE s, t \in Local
  <2> HAVE idx(s) = idx(t) /\ Lap(s) = Lap(t)
  <2>1. s \in Nat /\ t \in Nat
    OBVIOUS
  <2>2. s % SIZE = t % SIZE /\ s \div SIZE = t \div SIZE
    BY <1>1 DEF Lap
  <2> QED BY <2>1, <2>2, SameCell, Zenon
<1>3. \A t \in Local : t >= SIZE =>
        t - SIZE \in Local /\ idx(t - SIZE) = idx(t) /\ Lap(t - SIZE) = Lap(t) - 1
  <2> TAKE t \in Local
  <2> HAVE t >= SIZE
  <2>1. t - SIZE \in Local /\ t \in Nat
    BY WidthAssumption
  <2>2. (t - SIZE) % SIZE = t % SIZE /\ (t - SIZE) \div SIZE = (t \div SIZE) - 1
    BY <2>1, LapBack, Zenon
  <2> QED BY Zenon, <1>1, <2>1, <2>2 DEF Lap
<1>4. \A t \in Local : Lap(t) > 0 => t >= SIZE
  <2> TAKE t \in Local
  <2> HAVE Lap(t) > 0
  <2>1. t \in Nat /\ Lap(t) \in Nat /\ t = SIZE * Lap(t) + (t % SIZE) /\ t % SIZE \in 0 .. SIZE - 1
    BY DivMod DEF Lap
  <2>2. SIZE * Lap(t) >= SIZE
    BY <2>1
  <2> QED BY <2>1, <2>2
<1> QED BY <1>1, <1>2, <1>3, <1>4
-----------------------------------------------------------------------------
(* Every step preserves the inductive invariant *)

\* No two threads are at one slot: their sequence numbers would be equal, hence
\* both push or both pop, on the same lap, with the same ticket.
LEMMA Exclusive ==
    ASSUME InRange, IInv
    PROVE  ExclusiveSlot
<1> SUFFICES ASSUME NEW p \in Thread, NEW q \in Thread, p # q,
                    AtSlot(p), AtSlot(q), idx(ticket[p]) = idx(ticket[q])
             PROVE  FALSE
  BY DEF ExclusiveSlot
<1>0. ticket[p] \in Local /\ ticket[q] \in Local
  BY DEF IInv, TypeOK, Turn, Local, Drawn
<1>1. ticket[p] \in Local /\ ticket[q] \in Local
      /\ Lap(ticket[p]) \in Nat /\ Lap(ticket[q]) \in Nat
  BY <1>0, CellFacts
<1>2. Lap(ticket[p]) = Lap(ticket[q])
      /\ ((Pusher(p) /\ Pusher(q)) \/ (Popper(p) /\ Popper(q)))
  BY <1>1 DEF IInv, Turn, AtSlot, Pusher, Popper
<1>3. ticket[p] = ticket[q]
  BY <1>1, <1>2, CellFacts
<1> QED BY <1>2, <1>3 DEF IInv, Distinct

\* A ticket whose turn has come is within the int.
LEMMA TurnLocal ==
    ASSUME InRange, IInv, NEW t \in Drawn, Vacant(t) \/ Filled(t)
    PROVE  t \in Local
<1> SUFFICES ASSUME t >= IntSpan PROVE FALSE
  BY WidthAssumption, MaxTicketsAssumption DEF Local, Drawn
<1>1. idx(t) \in Slot /\ seq(t) \in Nat /\ seq(t) > IntSpan
      /\ ToSize(seq(t) + 1) \in Nat /\ ToSize(seq(t) + 1) > IntSpan
  BY LateSeq
<1>2. slotSeq[idx(t)] \in Nat /\ slotSeq[idx(t)] <= IntSpan
  BY <1>1 DEF IInv, TypeOK, Status
<1> QED BY <1>1, <1>2, WidthAssumption DEF Vacant, Filled

\* A step that leaves the counters, the slots and the history alone leaves
\* the parts of the invariant that speak only of them alone.
LEMMA Frame ==
    ASSUME IInv, UNCHANGED <<shared, pushed, popped>>
    PROVE  /\ \A t : (Pushed(t)' <=> Pushed(t)) /\ (Popped(t)' <=> Popped(t))
           /\ Status' /\ Handed' /\ SlotContent' /\ DeliversPushed'
<1>1. \A t : (Pushed(t)' <=> Pushed(t)) /\ (Popped(t)' <=> Popped(t))
  BY DEF Pushed, Popped
<1> QED BY <1>1 DEF IInv, shared, Status, Handed, Drawn, SlotContent, DeliversPushed

LEMMA PushSpinInv ==
    ASSUME InRange, IInv, NEW p \in Thread, PushSpin(p)
    PROVE  IInv'
<1> USE DEF IInv, PushSpin, Goto, shared
<1>1. TypeOK'
  BY MaxTicketsAssumption DEF TypeOK, Label, Ticket
<1>2. /\ \A t : (Pushed(t)' <=> Pushed(t)) /\ (Popped(t)' <=> Popped(t))
      /\ Status' /\ Handed' /\ SlotContent' /\ DeliversPushed'
  BY Frame
<1>3. Held' /\ Distinct'
  BY <1>2 DEF TypeOK, Held, Distinct, Pusher, Popper
<1>4. Turn' /\ LocalContent'
  <2>1. ticket[p] \in Local
    BY TurnLocal DEF TypeOK, Drawn
  <2> QED BY <2>1, CellFacts DEF TypeOK, Turn, AtSlot, LocalContent, Vacant, Filled, Local
<1>5. RefusalJustified'
  BY DEF TypeOK, RefusalJustified
<1> QED BY <1>1, <1>2, <1>3, <1>4, <1>5

LEMMA TryPushLoadInv ==
    ASSUME InRange, IInv, NEW p \in Thread, NEW v \in Val, TryPushLoad(p, v)
    PROVE  IInv'
<1> USE DEF IInv, TryPushLoad, Goto, shared
<1>1. TypeOK'
  BY MaxTicketsAssumption DEF TypeOK, Label, Ticket
<1>2. /\ \A t : (Pushed(t)' <=> Pushed(t)) /\ (Popped(t)' <=> Popped(t))
      /\ Status' /\ Handed' /\ SlotContent' /\ DeliversPushed'
  BY Frame
<1>3. Held' /\ Distinct'
  BY <1>2 DEF TypeOK, Held, Distinct, Pusher, Popper
<1>4. Turn' /\ LocalContent'
  BY CellFacts DEF TypeOK, Turn, AtSlot, LocalContent, Vacant, Filled, Local, Drawn
<1>5. RefusalJustified'
  BY DEF TypeOK, RefusalJustified
<1> QED BY <1>1, <1>2, <1>3, <1>4, <1>5

LEMMA TryPushCheckInv ==
    ASSUME InRange, IInv, NEW p \in Thread, TryPushCheck(p)
    PROVE  IInv'
<1> USE DEF IInv, TryPushCheck, Goto, shared
<1>1. TypeOK'
  BY Zenon, MaxTicketsAssumption DEF TypeOK, Label, Ticket
<1>2. /\ \A t : (Pushed(t)' <=> Pushed(t)) /\ (Popped(t)' <=> Popped(t))
      /\ Status' /\ Handed' /\ SlotContent' /\ DeliversPushed'
  BY Frame
<1>3. Held' /\ Distinct'
  BY <1>2 DEF TypeOK, Held, Distinct, Pusher, Popper
<1>4. Turn' /\ LocalContent'
  <2>1. Vacant(ticket[p]) \/ Filled(ticket[p]) => ticket[p] \in Local
    BY TurnLocal DEF TypeOK, Drawn
  <2> QED BY <2>1, CellFacts DEF TypeOK, Turn, AtSlot, LocalContent, Vacant, Filled, Local
<1>5. RefusalJustified'
  <2> SUFFICES ASSUME pc'[p] = "try_push_reload", ticket[p] = in, ticket[p] < IntSpan
               PROVE  refused'[p]
    BY DEF TypeOK, RefusalJustified
  <2>1. /\ ticket[p] \in Local /\ ~Vacant(ticket[p]) /\ Lap(ticket[p]) \in Nat
        /\ slotSeq[idx(ticket[p])] \in Nat /\ seq(ticket[p]) = 2 * Lap(ticket[p])
    BY CellFacts DEF TypeOK, Local, Drawn
  <2>2. slotSeq[idx(ticket[p])] < 2 * Lap(ticket[p])
    BY <2>1 DEF TypeOK, Vacant, Status, Handed, Drawn
  <2>3. ticket[p] >= SIZE
    BY <2>1, <2>2, CellFacts DEF TypeOK
  <2>4. ticket[p] - SIZE \in Local /\ ~Popped(ticket[p] - SIZE)
    BY <2>1, <2>2, <2>3, CellFacts DEF TypeOK, Status
  <2>5. \A pair \in popped : pair[1] # ticket[p] - SIZE
    BY <2>4 DEF TypeOK, Popped, Ticket
  <2> QED BY <2>3, <2>5 DEF TypeOK
<1> QED BY <1>1, <1>2, <1>3, <1>4, <1>5

LEMMA TryPushReloadInv ==
    ASSUME InRange, IInv, NEW p \in Thread, TryPushReload(p)
    PROVE  IInv'
<1> USE DEF IInv, TryPushReload, Goto, Return, shared
<1>1. TypeOK'
  BY MaxTicketsAssumption DEF TypeOK, Label, Ticket
<1>2. /\ \A t : (Pushed(t)' <=> Pushed(t)) /\ (Popped(t)' <=> Popped(t))
      /\ Status' /\ Handed' /\ SlotContent' /\ DeliversPushed'
  BY Frame
<1>3. Held' /\ Distinct'
  BY <1>2 DEF TypeOK, Held, Distinct, Pusher, Popper
<1>4. Turn' /\ LocalContent'
  BY ZenonT(30), CellFacts DEF TypeOK, Turn, AtSlot, LocalContent, Vacant, Filled, Local, Drawn
<1>5. RefusalJustified'
  BY DEF TypeOK, RefusalJustified
<1> QED BY <1>1, <1>2, <1>3, <1>4, <1>5

LEMMA PopSpinInv ==
    ASSUME InRange, IInv, NEW p \in Thread, PopSpin(p)
    PROVE  IInv'
<1> USE DEF IInv, PopSpin, Goto, shared
<1>1. TypeOK'
  BY MaxTicketsAssumption DEF TypeOK, Label, Ticket
<1>2. /\ \A t : (Pushed(t)' <=> Pushed(t)) /\ (Popped(t)' <=> Popped(t))
      /\ Status' /\ Handed' /\ SlotContent' /\ DeliversPushed'
  BY Frame
<1>3. Held' /\ Distinct'
  BY <1>2 DEF TypeOK, Held, Distinct, Pusher, Popper
<1>4. Turn' /\ LocalContent'
  <2>1. ticket[p] \in Local
    BY TurnLocal DEF TypeOK, Drawn
  <2> QED BY <2>1, CellFacts DEF TypeOK, Turn, AtSlot, LocalContent, Vacant, Filled, Local
<1>5. RefusalJustified'
  BY DEF TypeOK, RefusalJustified
<1> QED BY <1>1, <1>2, <1>3, <1>4, <1>5

LEMMA TryPopLoadInv ==
    ASSUME InRange, IInv, NEW p \in Thread, TryPopLoad(p)
    PROVE  IInv'
<1> USE DEF IInv, TryPopLoad, Goto, shared
<1>1. TypeOK'
  BY MaxTicketsAssumption DEF TypeOK, Label, Ticket
<1>2. /\ \A t : (Pushed(t)' <=> Pushed(t)) /\ (Popped(t)' <=> Popped(t))
      /\ Status' /\ Handed' /\ SlotContent' /\ DeliversPushed'
  BY Frame
<1>3. Held' /\ Distinct'
  BY <1>2 DEF TypeOK, Held, Distinct, Pusher, Popper
<1>4. Turn' /\ LocalContent'
  BY CellFacts DEF TypeOK, Turn, AtSlot, LocalContent, Vacant, Filled, Local, Drawn
<1>5. RefusalJustified'
  BY DEF TypeOK, RefusalJustified
<1> QED BY <1>1, <1>2, <1>3, <1>4, <1>5

LEMMA TryPopCheckInv ==
    ASSUME InRange, IInv, NEW p \in Thread, TryPopCheck(p)
    PROVE  IInv'
<1> USE DEF IInv, TryPopCheck, Goto, shared
<1>1. TypeOK'
  BY Zenon, MaxTicketsAssumption DEF TypeOK, Label, Ticket
<1>2. /\ \A t : (Pushed(t)' <=> Pushed(t)) /\ (Popped(t)' <=> Popped(t))
      /\ Status' /\ Handed' /\ SlotContent' /\ DeliversPushed'
  BY Frame
<1>3. Held' /\ Distinct'
  BY <1>2 DEF TypeOK, Held, Distinct, Pusher, Popper
<1>4. Turn' /\ LocalContent'
  <2>1. Vacant(ticket[p]) \/ Filled(ticket[p]) => ticket[p] \in Local
    BY TurnLocal DEF TypeOK, Drawn
  <2> QED BY <2>1, CellFacts DEF TypeOK, Turn, AtSlot, LocalContent, Vacant, Filled, Local
<1>5. RefusalJustified'
  <2> SUFFICES ASSUME pc'[p] = "try_pop_reload", ticket[p] = out, ticket[p] < IntSpan
               PROVE  refused'[p]
    BY DEF TypeOK, RefusalJustified
  <2>1. ticket[p] \in Local /\ ~Filled(ticket[p])
    BY DEF TypeOK, Local, Drawn
  <2>2. ~Pushed(ticket[p])
    BY <2>1, CellFacts DEF TypeOK, Filled, Status, Handed, Drawn
  <2>3. \A pair \in pushed : pair[1] # ticket[p]
    BY <2>2 DEF TypeOK, Pushed, Ticket
  <2> QED BY <2>3 DEF TypeOK
<1> QED BY <1>1, <1>2, <1>3, <1>4, <1>5

LEMMA TryPopReloadInv ==
    ASSUME InRange, IInv, NEW p \in Thread, TryPopReload(p)
    PROVE  IInv'
<1> USE DEF IInv, TryPopReload, Goto, Return, shared
<1>1. TypeOK'
  BY MaxTicketsAssumption DEF TypeOK, Label, Ticket
<1>2. /\ \A t : (Pushed(t)' <=> Pushed(t)) /\ (Popped(t)' <=> Popped(t))
      /\ Status' /\ Handed' /\ SlotContent' /\ DeliversPushed'
  BY Frame
<1>3. Held' /\ Distinct'
  BY <1>2 DEF TypeOK, Held, Distinct, Pusher, Popper
<1>4. Turn' /\ LocalContent'
  BY ZenonT(30), CellFacts DEF TypeOK, Turn, AtSlot, LocalContent, Vacant, Filled, Local, Drawn
<1>5. RefusalJustified'
  BY DEF TypeOK, RefusalJustified
<1> QED BY <1>1, <1>2, <1>3, <1>4, <1>5

LEMMA PushTicketInv ==
    ASSUME InRange, IInv, NEW p \in Thread, NEW v \in Val, PushTicket(p, v)
    PROVE  IInv'
<1> USE MaxTicketsAssumption DEF IInv, PushTicket, Goto, shared
<1>1. TypeOK'
  BY DEF TypeOK, Label, Ticket
<1>2. \A t : (Pushed(t)' <=> Pushed(t)) /\ (Popped(t)' <=> Popped(t))
  BY DEF Pushed, Popped
<1>3. Status' /\ Handed' /\ SlotContent' /\ DeliversPushed'
  BY <1>2 DEF TypeOK, Status, Handed, SlotContent, DeliversPushed, Local, Drawn
<1>4. Held' /\ Distinct'
  BY <1>2 DEF TypeOK, Held, Handed, Distinct, Pusher, Popper, Local, Drawn
<1>5. Turn' /\ LocalContent'
  BY CellFacts DEF TypeOK, Turn, AtSlot, LocalContent, Status, Handed, Local, Drawn
<1>6. RefusalJustified'
  BY DEF TypeOK, RefusalJustified, Held
<1> QED BY <1>1, <1>2, <1>3, <1>4, <1>5, <1>6

LEMMA PopTicketInv ==
    ASSUME InRange, IInv, NEW p \in Thread, PopTicket(p)
    PROVE  IInv'
<1> USE MaxTicketsAssumption DEF IInv, PopTicket, Goto, shared
<1>1. TypeOK'
  BY DEF TypeOK, Label, Ticket
<1>2. \A t : (Pushed(t)' <=> Pushed(t)) /\ (Popped(t)' <=> Popped(t))
  BY DEF Pushed, Popped
<1>3. Status' /\ Handed' /\ SlotContent' /\ DeliversPushed'
  BY <1>2 DEF TypeOK, Status, Handed, SlotContent, DeliversPushed, Local, Drawn
<1>4. Held' /\ Distinct'
  BY <1>2 DEF TypeOK, Held, Handed, Distinct, Pusher, Popper, Local, Drawn
<1>5. Turn' /\ LocalContent'
  BY CellFacts DEF TypeOK, Turn, AtSlot, LocalContent, Status, Handed, Local, Drawn
<1>6. RefusalJustified'
  BY DEF TypeOK, RefusalJustified, Held
<1> QED BY <1>1, <1>2, <1>3, <1>4, <1>5, <1>6

LEMMA TryPushCasInv ==
    ASSUME InRange, IInv, NEW p \in Thread, TryPushCas(p)
    PROVE  IInv'
<1> USE MaxTicketsAssumption DEF IInv, Goto, shared
<1>1. CASE in' = in /\ ticket' = [ticket EXCEPT ![p] = in] /\ pc' = [pc EXCEPT ![p] = "try_push_check"]
  <2> USE <1>1 DEF TryPushCas
  <2>1. TypeOK'
    BY DEF TypeOK, Label, Ticket
  <2>2. /\ \A t : (Pushed(t)' <=> Pushed(t)) /\ (Popped(t)' <=> Popped(t))
        /\ Status' /\ Handed' /\ SlotContent' /\ DeliversPushed'
    BY Frame
  <2>3. Held' /\ Distinct'
    BY <2>2 DEF TypeOK, Held, Distinct, Pusher, Popper
  <2>4. Turn' /\ LocalContent' /\ RefusalJustified'
    BY DEF TypeOK, Turn, AtSlot, LocalContent, RefusalJustified
  <2> QED BY <2>1, <2>2, <2>3, <2>4
<1>2. CASE ticket[p] = in /\ in < MAX_TICKETS /\ in' = in + 1 /\ ticket' = ticket /\ pc' = [pc EXCEPT ![p] = "put"]
  <2> USE <1>2 DEF TryPushCas
  <2>1. TypeOK'
    BY DEF TypeOK, Label, Ticket
  <2>2. \A t : (Pushed(t)' <=> Pushed(t)) /\ (Popped(t)' <=> Popped(t))
    BY DEF Pushed, Popped
  <2>3. Status' /\ Handed' /\ SlotContent' /\ DeliversPushed'
    BY <2>2 DEF TypeOK, Status, Handed, SlotContent, DeliversPushed, Local, Drawn
  <2>4. Held' /\ Distinct'
    BY <2>2 DEF TypeOK, Held, Handed, Distinct, Pusher, Popper, Local, Drawn
  <2>5. Turn'
    <3>0. ticket[p] \in Local
      BY DEF TypeOK, Turn, Local, Drawn
    <3>1. ticket[p] \in Local /\ Lap(ticket[p]) \in Nat /\ slotSeq[idx(ticket[p])] \in Nat
      BY <3>0, CellFacts DEF TypeOK
    <3>2. ~Pushed(ticket[p])
      BY <3>1 DEF TypeOK, Handed, Drawn
    <3>3. slotSeq[idx(ticket[p])] >= 2 * Lap(ticket[p])
          /\ ~(slotSeq[idx(ticket[p])] >= 2 * Lap(ticket[p]) + 1)
      BY Zenon, <3>1, <3>2 DEF Turn, Status, TryPushCas
    <3>4. slotSeq[idx(ticket[p])] = 2 * Lap(ticket[p])
      BY <3>1, <3>3
    <3> QED BY <3>0, <3>4 DEF TypeOK, Turn, AtSlot, Local
  <2>6. LocalContent' /\ RefusalJustified'
    BY DEF TypeOK, LocalContent, RefusalJustified, Held
  <2> QED BY <2>1, <2>2, <2>3, <2>4, <2>5, <2>6
<1> QED BY <1>1, <1>2 DEF TryPushCas

LEMMA TryPopCasInv ==
    ASSUME InRange, IInv, NEW p \in Thread, TryPopCas(p)
    PROVE  IInv'
<1> USE MaxTicketsAssumption DEF IInv, Goto, shared
<1>1. CASE out' = out /\ ticket' = [ticket EXCEPT ![p] = out] /\ pc' = [pc EXCEPT ![p] = "try_pop_check"]
  <2> USE <1>1 DEF TryPopCas
  <2>1. TypeOK'
    BY DEF TypeOK, Label, Ticket
  <2>2. /\ \A t : (Pushed(t)' <=> Pushed(t)) /\ (Popped(t)' <=> Popped(t))
        /\ Status' /\ Handed' /\ SlotContent' /\ DeliversPushed'
    BY Frame
  <2>3. Held' /\ Distinct'
    BY <2>2 DEF TypeOK, Held, Distinct, Pusher, Popper
  <2>4. Turn' /\ LocalContent' /\ RefusalJustified'
    BY DEF TypeOK, Turn, AtSlot, LocalContent, RefusalJustified
  <2> QED BY <2>1, <2>2, <2>3, <2>4
<1>2. CASE ticket[p] = out /\ out < MAX_TICKETS /\ out' = out + 1 /\ ticket' = ticket /\ pc' = [pc EXCEPT ![p] = "take"]
  <2> USE <1>2 DEF TryPopCas
  <2>1. TypeOK'
    BY DEF TypeOK, Label, Ticket
  <2>2. \A t : (Pushed(t)' <=> Pushed(t)) /\ (Popped(t)' <=> Popped(t))
    BY DEF Pushed, Popped
  <2>3. Status' /\ Handed' /\ SlotContent' /\ DeliversPushed'
    BY SMTT(30), <2>2 DEF TypeOK, Status, Handed, SlotContent, DeliversPushed, Local, Drawn
  <2>4. Held' /\ Distinct'
    BY <2>2 DEF TypeOK, Held, Handed, Distinct, Pusher, Popper, Local, Drawn
  <2>5. Turn'
    <3>0. ticket[p] \in Local
      BY DEF TypeOK, Turn, Local, Drawn
    <3>1. ticket[p] \in Local /\ Lap(ticket[p]) \in Nat /\ slotSeq[idx(ticket[p])] \in Nat
      BY <3>0, CellFacts DEF TypeOK
    <3>2. ~Popped(ticket[p])
      BY <3>1 DEF TypeOK, Handed, Drawn
    <3>3. slotSeq[idx(ticket[p])] >= 2 * Lap(ticket[p]) + 1
          /\ ~(slotSeq[idx(ticket[p])] >= 2 * Lap(ticket[p]) + 2)
      BY Zenon, <3>1, <3>2 DEF Turn, Status, TryPopCas
    <3>4. slotSeq[idx(ticket[p])] = 2 * Lap(ticket[p]) + 1
      BY <3>1, <3>3
    <3> QED BY <3>0, <3>4 DEF TypeOK, Turn, AtSlot, Local
  <2>6. LocalContent' /\ RefusalJustified'
    BY DEF TypeOK, LocalContent, RefusalJustified, Held
  <2> QED BY <2>1, <2>2, <2>3, <2>4, <2>5, <2>6
<1> QED BY <1>1, <1>2 DEF TryPopCas

LEMMA PutInv ==
    ASSUME InRange, IInv, NEW p \in Thread, Put(p)
    PROVE  IInv'
<1> USE DEF IInv, Put, Goto
<1>0. ticket[p] \in Local
  BY DEF TypeOK, Turn, AtSlot, Local, Drawn
<1>1. ticket[p] \in Local /\ idx(ticket[p]) \in Slot
  BY <1>0, CellFacts
<1>2. TypeOK'
  BY <1>1 DEF TypeOK, Label
<1>3. \A t : (Pushed(t)' <=> Pushed(t)) /\ (Popped(t)' <=> Popped(t))
  BY DEF Pushed, Popped
<1>4. Status' /\ Handed' /\ DeliversPushed'
  BY <1>3 DEF Status, Handed, Drawn, DeliversPushed
<1>5. Held' /\ Distinct' /\ Turn' /\ RefusalJustified'
  BY <1>3 DEF TypeOK, Held, Distinct, Pusher, Popper, Turn, AtSlot, RefusalJustified
<1>6. SlotContent'
  <2> SUFFICES ASSUME NEW t \in Local, NEW v \in Val, <<t, v>> \in pushed, ~Popped(t)
               PROVE  slotVal'[idx(t)] = v
    BY ZenonT(30), <1>3 DEF SlotContent
  <2>1. Lap(t) \in Nat /\ Lap(ticket[p]) \in Nat /\ slotSeq[idx(t)] \in Nat
    BY <1>1, CellFacts DEF TypeOK
  <2>2. slotSeq[idx(t)] = 2 * Lap(t) + 1
    BY <2>1 DEF Status, Pushed
  <2>3. idx(t) # idx(ticket[p])
    BY <2>1, <2>2 DEF Turn, AtSlot
  <2> QED BY SMTT(30), <1>1, <2>3, CellFacts DEF TypeOK, SlotContent
<1>7. LocalContent'
  <2>1. \A q \in Thread : q # p /\ pc[q] = "publish" => idx(ticket[q]) # idx(ticket[p])
    BY SMTT(30), Exclusive DEF ExclusiveSlot, AtSlot
  <2> QED BY <1>1, <2>1, CellFacts DEF TypeOK, LocalContent, Local, Drawn
<1> QED BY <1>2, <1>4, <1>5, <1>6, <1>7

LEMMA TakeInv ==
    ASSUME InRange, IInv, NEW p \in Thread, Take(p)
    PROVE  IInv'
<1> USE DEF IInv, Take, Goto, shared
<1>0. ticket[p] \in Local
  BY DEF TypeOK, Turn, AtSlot, Local, Drawn
<1>1. ticket[p] \in Local /\ idx(ticket[p]) \in Slot
  BY <1>0, CellFacts
<1>2. TypeOK'
  BY <1>1 DEF TypeOK, Label
<1>3. /\ \A t : (Pushed(t)' <=> Pushed(t)) /\ (Popped(t)' <=> Popped(t))
      /\ Status' /\ Handed' /\ SlotContent' /\ DeliversPushed'
  BY Frame
<1>4. Held' /\ Distinct' /\ Turn' /\ RefusalJustified'
  BY <1>3 DEF TypeOK, Held, Distinct, Pusher, Popper, Turn, AtSlot, RefusalJustified
<1>5. LocalContent'
  <2>1. Pushed(ticket[p]) /\ ~Popped(ticket[p])
    BY <1>1, CellFacts DEF TypeOK, Status, Turn, AtSlot
  <2>2. <<ticket[p], slotVal[idx(ticket[p])]>> \in pushed
    BY <1>1, <2>1 DEF SlotContent, Pushed
  <2> QED BY <2>2 DEF TypeOK, LocalContent
<1> QED BY <1>2, <1>3, <1>4, <1>5

LEMMA PublishInv ==
    ASSUME InRange, IInv, NEW p \in Thread, Publish(p)
    PROVE  IInv'
<1> DEFINE k == ticket[p]
<1> USE DEF IInv, Publish, HandOver, Goto, Return
<1>0. k \in Ticket /\ k \in Local
  BY MaxTicketsAssumption DEF TypeOK, Local, Drawn, Ticket, Held, Pusher, Popper, Turn, AtSlot
<1>1. k \in Ticket /\ k \in Local /\ idx(k) \in Slot /\ Lap(k) \in Nat
      /\ ToSize(seq(k) + 1) = 2 * Lap(k) + 1 /\ 2 * Lap(k) + 2 <= IntSpan
  BY <1>0, CellFacts
<1>2. TypeOK'
  BY <1>1, MaxTicketsAssumption DEF TypeOK, Label
<1>3. /\ \A t : Pushed(t)' <=> Pushed(t) \/ t = k
      /\ \A t : Popped(t)' <=> Popped(t)
  BY Zenon, <1>1 DEF TypeOK, Pushed, Popped
<1>4. slotSeq[idx(k)] = 2 * Lap(k) /\ slotSeq' = [slotSeq EXCEPT ![idx(k)] = 2 * Lap(k) + 1]
  BY Zenon, <1>1 DEF Turn, AtSlot
<1> HIDE DEF Publish
<1>5. Status'
  <2> SUFFICES ASSUME NEW t \in Local
               PROVE  /\ Pushed(t)' <=> slotSeq'[idx(t)] >= 2 * Lap(t) + 1
                      /\ Popped(t)' <=> slotSeq'[idx(t)] >= 2 * Lap(t) + 2
    <3>1. \A i \in Slot : slotSeq'[i] <= IntSpan
      BY <1>1, <1>4, WidthAssumption DEF TypeOK, Status
    <3> QED BY <3>1 DEF Status
  <2>1. idx(t) \in Slot /\ Lap(t) \in Nat /\ (idx(t) = idx(k) /\ t # k => Lap(t) # Lap(k))
    BY <1>1, CellFacts
  <2>2. CASE t = k
    BY <1>1, <1>3, <1>4, <2>1, <2>2 DEF TypeOK, Status
  <2>3. CASE t # k
    BY <1>1, <1>3, <1>4, <2>1, <2>3 DEF TypeOK, Status
  <2> QED BY <2>2, <2>3
<1>6. Handed' /\ Held' /\ Distinct'
  <2>1. Handed'
    BY <1>1, <1>3 DEF Publish, Handed, Held, Pusher, Popper, Local
  <2>2. Held' /\ Distinct'
    BY <1>3 DEF Publish, TypeOK, Held, Distinct, Pusher, Popper
  <2> QED BY <2>1, <2>2
<1>7. Turn'
  <2>1. \A q \in Thread : q # p /\ AtSlot(q) => idx(ticket[q]) # idx(k)
    BY ZenonT(30), Exclusive DEF Publish, ExclusiveSlot, AtSlot
  <2>2. \A i \in Slot : slotSeq'[i] >= slotSeq[i]
    BY <1>1, <1>4 DEF TypeOK
  <2> QED BY SMTT(30), <1>1, <1>4, <2>1, <2>2, CellFacts DEF Publish, TypeOK, Turn, AtSlot, Local, Drawn
<1>8. SlotContent'
  BY <1>1, <1>3 DEF Publish, TypeOK, SlotContent, LocalContent, Held, Pusher, Pushed
<1>9. LocalContent' /\ DeliversPushed' /\ RefusalJustified'
  BY DEF Publish, TypeOK, LocalContent, DeliversPushed, RefusalJustified
<1> QED BY <1>2, <1>5, <1>6, <1>7, <1>8, <1>9

LEMMA ReleaseInv ==
    ASSUME InRange, IInv, NEW p \in Thread, Release(p)
    PROVE  IInv'
<1> DEFINE k == ticket[p]
<1> USE DEF IInv, Release, HandOver, Goto, Return
<1>0. k \in Ticket /\ k \in Local
  BY MaxTicketsAssumption DEF TypeOK, Local, Drawn, Ticket, Held, Pusher, Popper, Turn, AtSlot
<1>1. k \in Ticket /\ k \in Local /\ idx(k) \in Slot /\ Lap(k) \in Nat
      /\ ToSize(seq(k) + 2) = 2 * Lap(k) + 2 /\ 2 * Lap(k) + 2 <= IntSpan
  BY <1>0, CellFacts
<1>2. TypeOK'
  BY <1>1, MaxTicketsAssumption DEF TypeOK, Label
<1>3. /\ \A t : Popped(t)' <=> Popped(t) \/ t = k
      /\ \A t : Pushed(t)' <=> Pushed(t)
  BY Zenon, <1>1 DEF TypeOK, Pushed, Popped
<1>4. slotSeq[idx(k)] = 2 * Lap(k) + 1 /\ slotSeq' = [slotSeq EXCEPT ![idx(k)] = 2 * Lap(k) + 2]
  BY Zenon, <1>1 DEF Turn, AtSlot
<1> HIDE DEF Release
<1>5. Status'
  <2> SUFFICES ASSUME NEW t \in Local
               PROVE  /\ Pushed(t)' <=> slotSeq'[idx(t)] >= 2 * Lap(t) + 1
                      /\ Popped(t)' <=> slotSeq'[idx(t)] >= 2 * Lap(t) + 2
    <3>1. \A i \in Slot : slotSeq'[i] <= IntSpan
      BY <1>1, <1>4, WidthAssumption DEF TypeOK, Status
    <3> QED BY <3>1 DEF Status
  <2>1. idx(t) \in Slot /\ Lap(t) \in Nat /\ (idx(t) = idx(k) /\ t # k => Lap(t) # Lap(k))
    BY <1>1, CellFacts
  <2>2. CASE t = k
    BY <1>1, <1>3, <1>4, <2>1, <2>2 DEF TypeOK, Status
  <2>3. CASE t # k
    BY <1>1, <1>3, <1>4, <2>1, <2>3 DEF TypeOK, Status
  <2> QED BY <2>2, <2>3
<1>6. Handed' /\ Held' /\ Distinct'
  <2>1. Handed'
    BY <1>1, <1>3 DEF Release, Handed, Held, Pusher, Popper, Local
  <2>2. Held' /\ Distinct'
    BY <1>3 DEF Release, TypeOK, Held, Distinct, Pusher, Popper
  <2> QED BY <2>1, <2>2
<1>7. Turn'
  <2>1. \A q \in Thread : q # p /\ AtSlot(q) => idx(ticket[q]) # idx(k)
    BY ZenonT(30), Exclusive DEF Release, ExclusiveSlot, AtSlot
  <2>2. \A i \in Slot : slotSeq'[i] >= slotSeq[i]
    BY <1>1, <1>4 DEF TypeOK
  <2> QED BY SMTT(30), <1>1, <1>4, <2>1, <2>2, CellFacts DEF Release, TypeOK, Turn, AtSlot, Local, Drawn
<1>8. SlotContent'
  BY <1>1, <1>3 DEF Release, TypeOK, SlotContent, LocalContent, Held, Pusher, Pushed
<1>9. LocalContent' /\ DeliversPushed' /\ RefusalJustified'
  BY DEF Release, TypeOK, LocalContent, DeliversPushed, RefusalJustified
<1> QED BY <1>2, <1>5, <1>6, <1>7, <1>8, <1>9

-----------------------------------------------------------------------------
(* Results *)

\* The invariant holds initially and every step, stuttering included, keeps
\* it: the inductive invariant of the queue.
THEOREM Invariance ==
    ASSUME InRange
    PROVE  Spec => []IInv
<1>1. Init => IInv
  <2> SUFFICES ASSUME Init PROVE IInv OBVIOUS
  <2>1. TypeOK
    BY MaxTicketsAssumption DEF Init, TypeOK, Label, Ticket
  <2>2. \A t : ~Pushed(t) /\ ~Popped(t)
    BY DEF Init, Pushed, Popped
  <2>3. Status
    BY <2>2, CellFacts, WidthAssumption DEF Init, Status
  <2> QED BY <2>1, <2>2, <2>3 DEF Init, IInv, Handed, Drawn, Held, Distinct, Turn, AtSlot, SlotContent,
             LocalContent, DeliversPushed, RefusalJustified, Pusher, Popper
<1>2. IInv /\ [Next]_vars => IInv'
  <2> SUFFICES ASSUME IInv, [Next]_vars PROVE IInv' OBVIOUS
  <2>1. CASE UNCHANGED vars
    BY Zenon, <2>1 DEF vars, IInv, TypeOK, Status, Handed, Drawn, Held, Distinct, Turn, AtSlot, SlotContent,
             LocalContent, DeliversPushed, RefusalJustified, Pusher, Popper, Pushed, Popped
  <2>2. ASSUME NEW p \in Thread, Call(p) PROVE IInv'
    BY <2>2, PushTicketInv, TryPushLoadInv, PopTicketInv, TryPopLoadInv DEF Call
  <2>3. ASSUME NEW p \in Thread, Step(p) PROVE IInv'
    BY <2>3, PushSpinInv, PutInv, PublishInv, TryPushCheckInv, TryPushReloadInv,
       TryPushCasInv, PopSpinInv, TakeInv, ReleaseInv, TryPopCheckInv,
       TryPopReloadInv, TryPopCasInv DEF Step
  <2> QED BY <2>1, <2>2, <2>3 DEF Next
<1> QED BY <1>1, <1>2, PTL DEF Spec

\* For every number of slots, threads and tickets, also past the int limit,
\* the variables keep their types.
THEOREM TypeCorrect ==
    ASSUME InRange
    PROVE  Spec => []TypeOK
  BY Invariance, PTL DEF IInv

\* No data race on slot.val, for every number of slots and threads and every
\* mix of push, pop, try_push and try_pop.
THEOREM RaceFree ==
    ASSUME InRange
    PROVE  Spec => []ExclusiveSlot
<1>1. IInv => ExclusiveSlot
  BY Exclusive
<1> QED BY <1>1, Invariance, PTL

\* No ticket past the int parameter of seq() and idx() is ever served: its
\* number is out of reach of every slot, so the queue stops and nothing in it
\* is overwritten.
THEOREM ServedOnlyWithinInt ==
    ASSUME InRange
    PROVE  Spec => []ServedWithinInt
<1>1. IInv => ServedWithinInt
  <2> SUFFICES ASSUME IInv, NEW pair \in pushed \cup popped
               PROVE  pair[1] < IntSpan
    BY DEF ServedWithinInt
  <2>1. pair = <<pair[1], pair[2]>> /\ pair[1] \in Drawn /\ pair[2] \in Val
    BY MaxTicketsAssumption DEF IInv, TypeOK, Ticket, Drawn
  <2> QED BY <2>1 DEF IInv, Handed, Pushed, Popped
<1> QED BY <1>1, Invariance, PTL

\* Every pop delivers the element pushed with its ticket.
THEOREM DeliveryCorrect ==
    ASSUME InRange
    PROVE  Spec => []DeliversPushed
  BY Invariance, PTL DEF IInv

\* try_push refuses only when its slot is occupied and try_pop only when the
\* next element is missing, at a moment within the call.
THEOREM RefusalCorrect ==
    ASSUME InRange
    PROVE  Spec => []RefusalJustified
  BY Invariance, PTL DEF IInv

\* What the histories hold are pairs of a ticket and a value.
LEMMA Pairs ==
    ASSUME TypeOK
    PROVE  /\ \A pair \in pushed : pair = <<pair[1], pair[2]>> /\ pair[2] \in Val
           /\ \A pair \in popped : pair = <<pair[1], pair[2]>> /\ pair[2] \in Val
BY DEF TypeOK

\* The slots with their sequence numbers implement the numbered one-shot
\* cells: publishing is Put, releasing is Get, every other step is invisible.
THEOREM ImplementsCells ==
    ASSUME InRange
    PROVE  Spec => CellsSpec
<1>1. Init => Cells!Init
  BY DEF Init, Cells!Init
<1>2. IInv /\ [Next]_vars => [Cells!Next]_Cells!cells
  <2> SUFFICES ASSUME IInv, [Next]_vars PROVE [Cells!Next]_Cells!cells OBVIOUS
  <2>1. ASSUME NEW p \in Thread, Publish(p) PROVE Cells!Next
    <3> DEFINE k == ticket[p]
    <3>1. k \in Ticket /\ k \in Local /\ elem[p] \in Val
      BY <2>1, MaxTicketsAssumption DEF IInv, TypeOK, Local, Drawn, Ticket, Publish, Held, Pusher, Turn, AtSlot
    <3>2. k \notin Cells!Tickets(pushed)
      <4>1. \A pair \in pushed : pair = <<pair[1], pair[2]>> /\ pair[2] \in Val
        BY ZenonT(30), Pairs DEF IInv
      <4>2. ~Pushed(k)
        BY ZenonT(30), <2>1 DEF IInv, Publish, Held, Pusher
      <4> QED BY <4>1, <4>2 DEF Pushed, Cells!Tickets
    <3>3. k >= SIZE => k - SIZE \in Cells!Tickets(popped)
      <4> HAVE k >= SIZE
      <4>1. k - SIZE \in Local /\ idx(k - SIZE) = idx(k) /\ Lap(k - SIZE) = Lap(k) - 1
            /\ Lap(k) \in Nat
        BY ZenonT(30), <3>1, CellFacts
      <4>2. slotSeq[idx(k)] = 2 * Lap(k)
        BY ZenonT(30), <2>1 DEF IInv, Publish, Turn, AtSlot
      <4>3. Popped(k - SIZE)
        BY <4>1, <4>2 DEF IInv, Status
      <4> QED BY <4>3 DEF Popped, Cells!Tickets
    <3>4. Cells!Put(k, elem[p])
      BY <2>1, <3>2, <3>3 DEF Publish, Cells!Put
    <3> QED BY <3>1, <3>4 DEF Cells!Next
  <2>2. ASSUME NEW p \in Thread, Release(p) PROVE Cells!Next
    <3> DEFINE k == ticket[p]
    <3>1. <<k, elem[p]>> \in pushed
      BY <2>2 DEF IInv, LocalContent, Release
    <3>2. k \notin Cells!Tickets(popped)
      <4>1. \A pair \in popped : pair = <<pair[1], pair[2]>> /\ pair[2] \in Val
        BY ZenonT(30), Pairs DEF IInv
      <4>2. ~Popped(k)
        BY <2>2 DEF IInv, Release, Held, Popper
      <4> QED BY <4>1, <4>2 DEF Popped, Cells!Tickets
    <3>3. Cells!Get(k, elem[p])
      BY <2>2, <3>1, <3>2 DEF Release, Cells!Get
    <3>4. <<k, elem[p]>>[1] = k /\ <<k, elem[p]>>[2] = elem[p]
      OBVIOUS
    <3> QED BY <3>1, <3>3, <3>4 DEF Cells!Next
  <2>3. ASSUME NEW p \in Thread, Call(p) \/ Step(p), ~Publish(p), ~Release(p)
        PROVE  UNCHANGED Cells!cells
    BY <2>3 DEF Call, Step, Cells!cells, PushTicket, TryPushLoad, PopTicket, TryPopLoad,
       PushSpin, Put, TryPushCheck, TryPushReload, TryPushCas, PopSpin, Take,
       TryPopCheck, TryPopReload, TryPopCas
  <2>4. CASE UNCHANGED vars
    BY <2>4 DEF vars, Cells!cells
  <2> QED BY <2>1, <2>2, <2>3, <2>4 DEF Next, Step
<1> QED BY <1>1, <1>2, Invariance, PTL DEF Spec, CellsSpec, Cells!Spec
=============================================================================
