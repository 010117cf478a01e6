---------------------------- MODULE FluentProofs ----------------------------
(***************************************************************************)
(* Proofs about net/fluent, for any number of connections, any size of     *)
(* the pool and of the socket buffer, and sends of any length.             *)
(*                                                                         *)
(* First the Pool: what one step of its search and an emplace keep.  Then  *)
(* one connection: what every handler keeps of the record of a Context.    *)
(* Then the server, whose inductive invariant joins the two: a slot of the *)
(* pool is what the states of the connections say it is.                   *)
(***************************************************************************)
EXTENDS FluentServer, TLAPS

-----------------------------------------------------------------------------
(* The pool *)

\* A pool of the right type that satisfies what WindowClosed says, where shut is
\* the set of closed objects.
Typed(p) ==
    /\ p = [slots |-> p.slots, size |-> p.size, index |-> p.index, left |-> p.left, right |-> p.right]
    /\ p.size \in Nat /\ p.index \in Nat /\ p.left \in Nat /\ p.right \in Int
    /\ p.slots \in [0 .. p.size - 1 -> Conn \cup {Null}]

Shape(p, shut) ==
    /\ p.left <= p.right + 1 /\ p.right < p.index /\ p.index <= p.size
    /\ p.index # 0 => p.left < p.index
    /\ \A i \in p.left .. p.right : p.slots[i] \in shut \cup {Null}
    /\ \A i, j \in 0 .. p.size - 1 : p.slots[i] = p.slots[j] /\ i # j => p.slots[i] = Null

\* One step of the search (WeakReference::doUpdate) keeps the shape, the size and
\* the objects of the pool.
LEMMA StepKeeps ==
    ASSUME NEW p, Typed(p), Shape(p, closed), p.index # 0
    PROVE  /\ Typed(doUpdate(p)) /\ Shape(doUpdate(p), closed)
           /\ doUpdate(p).size = p.size /\ Occupants(doUpdate(p)) = Occupants(p)
<1> DEFINE q == doUpdate(p)
<1>1. \A i \in 0 .. p.size - 1 : isReusable(p, i) => p.slots[i] \in closed \cup {Null}
    BY DEF isReusable
<1>2. CASE p.left > p.right /\ isReusable(p, p.left)
    <2>1. q = [p EXCEPT !.right = p.right + 1]
        BY <1>2 DEF doUpdate
    <2>2. q = [slots |-> p.slots, size |-> p.size, index |-> p.index, left |-> p.left, right |-> p.right + 1]
        BY <2>1 DEF Typed
    <2>3. p.right + 1 = p.left /\ p.left \in 0 .. p.size - 1
        BY <1>2 DEF Typed, Shape
    <2> HIDE DEF q
    <2>4. \A i \in q.left .. q.right : q.slots[i] \in closed \cup {Null}
        BY <1>1, <1>2, <2>2, <2>3 DEF Typed
    <2> QED
        BY <2>2, <2>3, <2>4 DEF Typed, Shape, Occupants, q
<1>3. CASE p.left > p.right /\ ~isReusable(p, p.left) /\ p.left + 1 = p.index
    <2>1. q = [slots |-> p.slots, size |-> p.size, index |-> p.index, left |-> 0, right |-> -1]
        BY Zenon, <1>3 DEF doUpdate, resetWindow, Typed
    <2> QED
        BY <2>1 DEF Typed, Shape, Occupants
<1>4. CASE p.left > p.right /\ ~isReusable(p, p.left) /\ p.left + 1 # p.index
    <2>1. q = [slots |-> p.slots, size |-> p.size, index |-> p.index, left |-> p.left + 1, right |-> p.right + 1]
        BY Zenon, <1>4 DEF doUpdate, Typed
    <2> QED
        BY <1>4, <2>1 DEF Typed, Shape, Occupants
<1>5. CASE ~(p.left > p.right) /\ p.right + 1 = p.index
    <2>1. q = [slots |-> p.slots, size |-> p.size, index |-> p.left, left |-> 0, right |-> -1]
        BY Zenon, <1>5 DEF doUpdate, resetWindow, Typed
    <2> QED
        BY <1>5, <2>1 DEF Typed, Shape, Occupants
<1>6. CASE ~(p.left > p.right) /\ p.right + 1 # p.index /\ isReusable(p, p.right + 1)
    <2>1. q = [slots |-> p.slots, size |-> p.size, index |-> p.index, left |-> p.left, right |-> p.right + 1]
        BY <1>6 DEF doUpdate, Typed
    <2>2. p.right + 1 \in 0 .. p.size - 1 /\ p.right + 1 < p.index
        BY <1>6 DEF Typed, Shape
    <2>3. \A i \in p.left .. p.right + 1 : p.slots[i] \in closed \cup {Null}
        BY <1>1, <1>6, <2>2 DEF Typed, Shape
    <2> QED
        BY <1>6, <2>1, <2>2, <2>3 DEF Typed, Shape, Occupants
<1>7. CASE ~(p.left > p.right) /\ p.right + 1 # p.index /\ ~isReusable(p, p.right + 1)
    <2> DEFINE g == Swap(p.slots, p.right + 1, p.left)
    <2>1. q = [slots |-> g, size |-> p.size, index |-> p.index, left |-> p.left + 1, right |-> p.right + 1]
        BY Zenon, <1>7 DEF doUpdate, Typed
    <2>2. p.right + 1 \in 0 .. p.size - 1 /\ p.right + 1 < p.index /\ p.left \in 0 .. p.size - 1
        BY <1>7 DEF Typed, Shape
    <2>3. g \in [0 .. p.size - 1 -> Conn \cup {Null}]
        BY <2>2 DEF Swap, Typed
    <2>4. /\ g[p.left] = p.slots[p.right + 1] /\ g[p.right + 1] = p.slots[p.left]
          /\ \A i \in 0 .. p.size - 1 : i # p.left /\ i # p.right + 1 => g[i] = p.slots[i]
        BY <2>2 DEF Swap, Typed
    <2> HIDE DEF g
    <2>5. \A i, j \in 0 .. p.size - 1 : g[i] = g[j] /\ i # j => g[i] = Null
        BY <2>2, <2>4 DEF Shape
    <2>6. \A i \in p.left + 1 .. p.right + 1 : g[i] \in closed \cup {Null}
        <3> SUFFICES ASSUME NEW i \in p.left + 1 .. p.right + 1 PROVE g[i] \in closed \cup {Null}
            OBVIOUS
        <3>1. i \in 0 .. p.size - 1 /\ i # p.left /\ p.left \in p.left .. p.right
            BY <1>7, <2>2 DEF Typed
        <3>2. CASE i = p.right + 1
            BY <2>4, <3>1, <3>2 DEF Shape
        <3>3. CASE i # p.right + 1
            <4>1. i \in p.left .. p.right
                BY <2>2, <3>3 DEF Typed
            <4> QED
                BY <2>4, <3>1, <3>3, <4>1 DEF Shape
        <3> QED
            BY <3>2, <3>3
    <2> HIDE DEF q
    <2>7. Typed(q)
        BY <2>1, <2>2, <2>3 DEF Typed
    <2>8. Shape(q, closed)
        BY <1>7, <2>1, <2>2, <2>5, <2>6 DEF Typed, Shape
    <2>9. Occupants(q) = Occupants(p)
        <3>1. \A i \in 0 .. p.size - 1 : \E j \in 0 .. p.size - 1 : g[i] = p.slots[j]
            BY <2>2, <2>4
        <3>2. \A i \in 0 .. p.size - 1 : \E j \in 0 .. p.size - 1 : p.slots[i] = g[j]
            BY <2>2, <2>4
        <3>3. q.slots = g /\ q.size = p.size
            BY <2>1
        <3> QED
            BY <3>1, <3>2, <3>3 DEF Occupants
    <2> QED
        BY <2>1, <2>7, <2>8, <2>9 DEF q
<1> QED
    BY <1>2, <1>3, <1>4, <1>5, <1>6, <1>7

\* The same of the search before an emplace.
LEMMA SearchKeeps ==
    ASSUME NEW p, Typed(p), Shape(p, closed)
    PROVE  LET q == updateReusableIndex(p)
           IN  Typed(q) /\ Shape(q, closed) /\ q.size = p.size /\ Occupants(q) = Occupants(p)
<1> DEFINE once == IF p.index # 0 THEN doUpdate(p) ELSE p
           q == IF once.index # 0 THEN doUpdate(once) ELSE once
<1>1. Typed(once) /\ Shape(once, closed) /\ once.size = p.size /\ Occupants(once) = Occupants(p)
    BY StepKeeps
<1> HIDE DEF once
<1>2. Typed(q) /\ Shape(q, closed) /\ q.size = once.size /\ Occupants(q) = Occupants(once)
    BY <1>1, StepKeeps
<1> QED
    BY <1>1, <1>2 DEF updateReusableIndex, once

\* What Pool::emplace does: the shape is kept, the new object is in the pool, and
\* at most one object leaves it, which was reusable.
LEMMA EmplaceKeeps ==
    ASSUME Typed(pool), Shape(pool, closed), NEW c \in Conn \ Occupants(pool), Emplace(c), PoolAssumption
    PROVE  /\ Typed(pool') /\ Shape(pool', closed')
           /\ \A d \in Occupants(pool) \ Occupants(pool') : d \in closed \ guarded
           /\ c \in Occupants(pool') /\ Occupants(pool') \subseteq Occupants(pool) \cup {c}
<1> DEFINE q == IF pool.size > GC_THRESHOLD THEN updateReusableIndex(pool) ELSE pool
<1>1. Typed(q) /\ Shape(q, closed) /\ q.size = pool.size /\ Occupants(q) = Occupants(pool)
    BY SearchKeeps
<1>2. pool' = IF q.index # q.size /\ isReusable(q, q.index)
              THEN [q EXCEPT !.slots = [q.slots EXCEPT ![q.index] = c], !.index = q.index + 1]
              ELSE [q EXCEPT !.slots = [i \in 0 .. q.size |-> IF i < q.size THEN q.slots[i] ELSE c],
                             !.size = q.size + 1]
    BY Zenon DEF Emplace, emplace
<1>3. closed' = closed \cap Occupants(pool')
    BY DEF Emplace
<1> HIDE DEF q
<1>4. \A i \in 0 .. q.size - 1 : q.slots[i] # c
    BY Zenon, <1>1, PoolAssumption DEF Occupants
<1>5. CASE q.index # q.size /\ isReusable(q, q.index)
    <2> DEFINE g == [q.slots EXCEPT ![q.index] = c]
    <2>1. pool' = [slots |-> g, size |-> q.size, index |-> q.index + 1, left |-> q.left, right |-> q.right]
        BY Zenon, <1>1, <1>2, <1>5 DEF Typed
    <2>2. q.index \in 0 .. q.size - 1
        BY <1>1, <1>5 DEF Typed, Shape
    <2>3. /\ g \in [0 .. q.size - 1 -> Conn \cup {Null}]
          /\ g[q.index] = c /\ \A i \in 0 .. q.size - 1 : i # q.index => g[i] = q.slots[i]
        BY <1>1, <2>2 DEF Typed
    <2> HIDE DEF g
    <2>4. Typed(pool')
        BY <1>1, <2>1, <2>2, <2>3 DEF Typed
    <2>5. \A i, j \in 0 .. q.size - 1 : g[i] = g[j] /\ i # j => g[i] = Null
        BY <1>1, <1>4, <2>3 DEF Shape
    <2>6. \A i \in q.left .. q.right : g[i] \in (closed \cap Occupants(pool')) \cup {Null}
        <3> SUFFICES ASSUME NEW i \in q.left .. q.right
                     PROVE  g[i] \in (closed \cap Occupants(pool')) \cup {Null}
            OBVIOUS
        <3>1. i \in 0 .. q.size - 1 /\ i # q.index
            BY <1>1 DEF Typed, Shape
        <3>2. g[i] \in closed \cup {Null}
            BY <1>1, <2>3, <3>1 DEF Shape
        <3>3. g[i] # Null => g[i] \in Occupants(pool')
            BY <2>1, <3>1 DEF Occupants
        <3> QED
            BY <3>2, <3>3
    <2>7. Shape(pool', closed')
        BY SMTT(30), <1>1, <1>3, <2>1, <2>2, <2>5, <2>6 DEF Typed, Shape
    <2>8. \A d \in Occupants(q) : d \in Occupants(pool') \/ d = q.slots[q.index]
        BY <2>1, <2>3 DEF Occupants
    <2>9. q.slots[q.index] \in closed \ guarded \/ q.slots[q.index] = Null
        BY <1>5 DEF isReusable
    <2>10. c \in Occupants(pool') /\ Occupants(pool') \subseteq Occupants(q) \cup {c}
        BY SMTT(30), <2>1, <2>2, <2>3, PoolAssumption DEF Occupants
    <2> QED
        BY Zenon, <1>1, <2>4, <2>7, <2>8, <2>9, <2>10 DEF Occupants
<1>6. CASE ~(q.index # q.size /\ isReusable(q, q.index))
    <2> DEFINE g == [i \in 0 .. q.size |-> IF i < q.size THEN q.slots[i] ELSE c]
    <2>1. pool' = [slots |-> g, size |-> q.size + 1, index |-> q.index, left |-> q.left, right |-> q.right]
        BY Zenon, <1>1, <1>2, <1>6 DEF Typed
    <2>2. q.size \in Nat /\ q.size + 1 - 1 = q.size /\ \A i \in 0 .. q.size : i = q.size \/ i \in 0 .. q.size - 1
        BY <1>1 DEF Typed
    <2>3. /\ g \in [0 .. q.size -> Conn \cup {Null}]
          /\ g[q.size] = c /\ \A i \in 0 .. q.size - 1 : g[i] = q.slots[i]
        BY <1>1, <2>2 DEF Typed
    <2> HIDE DEF g
    <2>4. Typed(pool')
        BY <1>1, <2>1, <2>2, <2>3 DEF Typed
    <2>5. \A i, j \in 0 .. q.size : g[i] = g[j] /\ i # j => g[i] = Null
        BY <1>1, <1>4, <2>2, <2>3 DEF Shape
    <2>6. \A i \in q.left .. q.right : g[i] \in (closed \cap Occupants(pool')) \cup {Null}
        <3> SUFFICES ASSUME NEW i \in q.left .. q.right
                     PROVE  g[i] \in (closed \cap Occupants(pool')) \cup {Null}
            OBVIOUS
        <3>1. i \in 0 .. q.size - 1 /\ i \in 0 .. q.size
            BY SMTT(30), <1>1 DEF Typed, Shape
        <3>2. g[i] \in closed \cup {Null}
            BY <1>1, <2>3, <3>1 DEF Shape
        <3>3. g[i] # Null => g[i] \in Occupants(pool')
            BY <2>1, <2>2, <3>1 DEF Occupants
        <3> QED
            BY <3>2, <3>3
    <2>7. Shape(pool', closed')
        BY SMTT(30), <1>1, <1>3, <2>1, <2>2, <2>5, <2>6 DEF Typed, Shape
    <2>8. \A d \in Occupants(q) : d \in Occupants(pool')
        BY SMTT(30), <2>1, <2>2, <2>3 DEF Occupants
    <2>9. c \in Occupants(pool') /\ Occupants(pool') \subseteq Occupants(q) \cup {c}
        BY SMTT(30), <2>1, <2>2, <2>3, PoolAssumption DEF Occupants
    <2> QED
        BY <1>1, <2>4, <2>7, <2>8, <2>9
<1> QED
    BY <1>5, <1>6

-----------------------------------------------------------------------------
(* One connection *)

Fields == DOMAIN Blank

\* What holds of the record of a Context between two handlers.  The last two say when
\* shutdown() may send FIN and that the poll it leaves behind knows its connection.
Sound(r) ==
    /\ DOMAIN r = Fields
    /\ r.room \in 0 .. SNDBUF /\ r.sendCurrentIndex \in Nat /\ r.output \in Seq(Nat)
    /\ r.nState \in {"CONNECTING", "CONNECTED", "DISCONNECTING", "DISCONNECTED"}
    /\ r.nState \in {"CONNECTED", "DISCONNECTING"} => r.eState = "ADDED" /\ "READ" \in r.events
    /\ r.nState \in {"CONNECTING", "DISCONNECTED"} => r.interest = Absent /\ r.events = {}
    /\ r.nState = "CONNECTING" => r.output = <<>>
    /\ r.nState # "CONNECTING" => r.peer # "none"
    /\ r.nState = "CONNECTED" /\ "WRITE" \notin r.events => r.output = <<>>
    /\ r.fin => r.nState \in {"DISCONNECTING", "DISCONNECTED"} /\ "WRITE" \notin r.events /\ r.output = <<>>
    /\ r.posted => r.nState \in {"DISCONNECTING", "DISCONNECTED"}

\* What a handler that turns r into s may do: nothing is written after FIN, and
\* DISCONNECTED is final.
Follows(r, s) ==
    /\ r.fin => s.fin /\ s.room >= r.room
    /\ s.nState # "CONNECTING"
    /\ r.nState = "DISCONNECTED" => s.nState = "DISCONNECTED"

\* The end of a handler clears nothing but the exception.
LEMMA Cleared ==
    ASSUME NEW r, Sound(r), NEW b \in BOOLEAN
    PROVE  Sound([r EXCEPT !.thrown = b]) /\ \A q : Follows(q, r) => Follows(q, [r EXCEPT !.thrown = b])
BY DEF Sound, Follows, Fields, Blank

\* One handler after another.
LEMMA FollowsOn ==
    ASSUME NEW q, NEW r, NEW s, Sound(q), Sound(r), Sound(s), Follows(q, r), Follows(r, s)
    PROVE  Follows(q, s)
BY DEF Sound, Follows

\* Context::send writes nothing on a connection that is shut down, and leaves
\* EVENT_WRITE set as long as bytes wait.
LEMMA SendKeeps ==
    ASSUME NEW r, Sound(r), r.nState # "CONNECTING", NEW n \in Nat
    PROVE  Sound(send(r, n)) /\ Follows(r, send(r, n)) /\ send(r, n).nState = r.nState
<1> DEFINE ret == IF n <= r.room THEN n ELSE r.room
           wrote == [r EXCEPT !.room = @ - ret]
           queued == [wrote EXCEPT
               !.output = @ \o [i \in 1 .. n - ret |-> r.sendCurrentIndex],
               !.sendProvider = Append(@, n - ret),
               !.sendCurrentIndex = @ + 1]
           asked == Update([queued EXCEPT !.events = @ \cup {"WRITE"}])
<1>1. ret \in 0 .. n /\ r.room - ret \in 0 .. SNDBUF
    BY ContextAssumption DEF Sound
<1>2. r.output \o [i \in 1 .. n - ret |-> r.sendCurrentIndex] \in Seq(Nat)
    <2> DEFINE m == n - ret
               late == [i \in 1 .. m |-> r.sendCurrentIndex]
    <2>1. m \in Nat
        BY <1>1
    <2> HIDE DEF m
    <2>2. late \in Seq(Nat)
        BY <2>1 DEF Sound
    <2> HIDE DEF late
    <2>3. r.output \o late \in Seq(Nat)
        BY <2>2 DEF Sound
    <2> QED
        BY <2>3 DEF late, m
<1>3. send(r, n) = IF r.nState \in {"DISCONNECTING", "DISCONNECTED"} THEN r
                   ELSE IF r.peer = "reset" THEN Throw([r EXCEPT !.err = FALSE])
                   ELSE IF ret = n THEN wrote
                   ELSE IF "WRITE" \in r.events THEN queued ELSE asked
    BY DEF send
<1> HIDE DEF ret
<1>4. CASE r.nState \in {"DISCONNECTING", "DISCONNECTED"}
    BY <1>3, <1>4 DEF Sound, Follows
<1>5. CASE r.nState = "CONNECTED" /\ r.peer = "reset"
    BY <1>3, <1>5 DEF Sound, Follows, Throw, Fields, Blank
<1>6. CASE r.nState = "CONNECTED" /\ r.peer # "reset" /\ ret = n
    BY <1>1, <1>3, <1>6 DEF Sound, Follows, Fields, Blank
<1>7. CASE r.nState = "CONNECTED" /\ r.peer # "reset" /\ ret # n
    <2>1. /\ DOMAIN queued = Fields /\ queued.room = r.room - ret /\ queued.output \in Seq(Nat)
          /\ queued.sendCurrentIndex = r.sendCurrentIndex + 1
          /\ queued.nState = r.nState /\ queued.eState = r.eState /\ queued.events = r.events
          /\ queued.peer = r.peer /\ queued.fin = r.fin /\ queued.posted = r.posted
        BY <1>2 DEF Sound, Fields, Blank
    <2> HIDE DEF queued
    <2>2. CASE "WRITE" \in r.events
        BY <1>1, <1>3, <1>7, <2>1, <2>2 DEF Sound, Follows
    <2>3. CASE "WRITE" \notin r.events
        BY <1>1, <1>3, <1>7, <2>1, <2>3 DEF Sound, Follows, Update, Fields, Blank
    <2> QED
        BY <2>2, <2>3
<1> QED
    BY <1>4, <1>5, <1>6, <1>7 DEF Sound

\* Context::shutdown sends FIN only when nothing waits.
LEMMA ShutdownKeeps ==
    ASSUME NEW r, Sound(r), r.nState # "CONNECTING"
    PROVE  /\ Sound(shutdown(r)) /\ Follows(r, shutdown(r))
           /\ shutdown(r).nState \in {r.nState, "DISCONNECTING"}
           /\ r.nState = "DISCONNECTED" => shutdown(r) = r
BY DEF Sound, Follows, shutdown, Fields, Blank

\* A user's callback cannot make a connection DISCONNECTED.
LEMMA CallKeeps ==
    ASSUME NEW r, Sound(r), r.nState # "CONNECTING", NEW f \in Callback
    PROVE  /\ Sound(Call(r, f)) /\ Follows(r, Call(r, f))
           /\ Call(r, f).nState \in {r.nState, "DISCONNECTING"}
<1> DEFINE called == [r EXCEPT !.calls = @ + 1]
           sent == IF f.send > 0 THEN send(called, f.send) ELSE called
           shut == IF f.shutdown THEN shutdown(sent) ELSE sent
<1>1. Sound(called) /\ Follows(r, called) /\ called.nState = r.nState
    BY DEF Sound, Follows, Fields, Blank
<1> HIDE DEF called
<1>2. f.send \in Nat
    BY ContextAssumption DEF Callback
<1>3. Sound(sent) /\ Follows(called, sent) /\ sent.nState = r.nState
    <2>1. Follows(called, called)
        BY <1>1 DEF Follows, Sound
    <2> QED
        BY <1>1, <1>2, <2>1, SendKeeps
<1> HIDE DEF sent
<1>4. Sound(shut) /\ Follows(sent, shut) /\ shut.nState \in {r.nState, "DISCONNECTING"}
    <2>1. Follows(sent, sent)
        BY <1>3 DEF Follows, Sound
    <2> QED
        BY <1>3, <2>1, ShutdownKeeps
<1> HIDE DEF shut
<1>5. Follows(r, sent) /\ Follows(r, shut) /\ Follows(r, r)
    BY <1>1, <1>3, <1>4, FollowsOn DEF Follows, Sound
<1>6. /\ Sound(Throw(shut)) /\ Follows(r, Throw(shut))
      /\ Throw(shut).nState = shut.nState
    BY ZenonT(30), <1>4, <1>5, Cleared DEF Throw, Sound, Fields, Blank
<1>7. Call(r, f) \in {r, sent, Throw(shut), shut}
    BY DEF Call, called, sent, shut
<1> QED
    BY <1>3, <1>4, <1>5, <1>6, <1>7

\* handleNewContext makes a connection CONNECTED; its callback may shut it down.
LEMMA NewContextKeeps ==
    ASSUME NEW r, Sound(r), r.nState = "CONNECTING", r.peer # "none", NEW f \in Callback
    PROVE  LET s == [handleNewContext(r, f) EXCEPT !.thrown = FALSE]
           IN  Sound(s) /\ s.nState \in {"CONNECTED", "DISCONNECTING"}
<1> DEFINE q == Update([r EXCEPT !.nState = "CONNECTED", !.events = {"READ"}])
<1>1. Sound(q) /\ q.nState = "CONNECTED"
    BY DEF Sound, Update, Fields, Blank
<1> HIDE DEF q
<1>2. Sound(Call(q, f)) /\ Call(q, f).nState \in {"CONNECTED", "DISCONNECTING"}
    BY <1>1, CallKeeps
<1>3. handleNewContext(r, f) = Call(q, f)
    BY DEF handleNewContext, q
<1>4. [Call(q, f) EXCEPT !.thrown = FALSE].nState = Call(q, f).nState
    BY <1>2 DEF Sound, Fields, Blank
<1> QED
    BY ZenonT(30), <1>2, <1>3, <1>4, Cleared

\* handleClose takes the connection out of epoll and makes it DISCONNECTED for good.
LEMMA CloseKeeps ==
    ASSUME NEW r, Sound(r), r.nState # "CONNECTING", NEW f \in Callback
    PROVE  Sound(handleClose(r, f)) /\ Follows(r, handleClose(r, f))
<1> DEFINE shut == shutdown(r)
           q == [Update([shut EXCEPT !.events = {}]) EXCEPT !.nState = "DISCONNECTED"]
<1>1. Sound(shut) /\ Follows(r, shut) /\ Follows(r, r)
    BY ShutdownKeeps DEF Follows, Sound
<1>2. CASE r.nState \in {"CONNECTED", "DISCONNECTING"}
    <2>1. shut.nState = "DISCONNECTING"
        BY <1>2 DEF shutdown, Sound, Fields, Blank
    <2> HIDE DEF shut
    <2>2. Sound(q) /\ Follows(shut, q) /\ q.nState = "DISCONNECTED"
        BY <1>1, <2>1 DEF Sound, Follows, Update, Fields, Blank
    <2> HIDE DEF q
    <2>3. Sound(Call(q, f)) /\ Follows(q, Call(q, f))
        BY <2>2, CallKeeps
    <2>4. Follows(r, Call(q, f))
        BY <1>1, <2>2, <2>3, FollowsOn
    <2>5. handleClose(r, f) = Call(q, f)
        BY <1>2 DEF handleClose, q, shut
    <2> QED
        BY <2>3, <2>4, <2>5
<1>3. CASE r.nState \notin {"CONNECTED", "DISCONNECTING"}
    BY <1>1, <1>3 DEF handleClose
<1> QED
    BY <1>2, <1>3

LEMMA ReadKeeps ==
    ASSUME NEW r, Sound(r), r.nState # "CONNECTING", NEW f \in Callback
    PROVE  Sound(handleRead(r, f)) /\ Follows(r, handleRead(r, f))
<1> DEFINE q == [r EXCEPT !.inbox = 0]
<1>1. Sound(q) /\ Follows(r, q) /\ q.nState # "CONNECTING" /\ Follows(r, r)
    BY DEF Sound, Follows, Fields, Blank
<1>2. Sound(Throw([r EXCEPT !.err = FALSE])) /\ Follows(r, Throw([r EXCEPT !.err = FALSE]))
    BY DEF Sound, Follows, Throw, Fields, Blank
<1> HIDE DEF q
<1>3. Sound(Call(q, f)) /\ Follows(r, Call(q, f))
    BY <1>1, CallKeeps, FollowsOn
<1>4. handleRead(r, f) \in {Call(q, f), Throw([r EXCEPT !.err = FALSE]), handleClose(r, f), r}
    BY DEF handleRead, q
<1> QED
    BY <1>1, <1>2, <1>3, <1>4, CloseKeeps

\* handleWrite writes only bytes that wait, of which there are none once FIN is sent,
\* and takes EVENT_WRITE away only with the last of them.
LEMMA WriteKeeps ==
    ASSUME NEW r, Sound(r), r.nState # "CONNECTING"
    PROVE  Sound(handleWrite(r)) /\ Follows(r, handleWrite(r))
<1> DEFINE n == IF Len(r.output) <= r.room THEN Len(r.output) ELSE r.room
           wrote == handleWriteComplete(
               [r EXCEPT !.output = SubSeq(@, n + 1, Len(@)), !.room = @ - n], n)
<1>1. n \in Nat /\ r.room - n \in 0 .. SNDBUF
    BY ContextAssumption DEF Sound
<1>2. SubSeq(r.output, n + 1, Len(r.output)) \in Seq(Nat)
    BY <1>1 DEF Sound
<1>3. handleWrite(r) = IF "WRITE" \notin r.events THEN r
                       ELSE IF r.peer = "reset" THEN Throw([r EXCEPT !.err = FALSE])
                       ELSE IF n > 0 /\ wrote.output = <<>>
                       THEN Update([wrote EXCEPT !.events = @ \ {"WRITE"}])
                       ELSE wrote
    BY DEF handleWrite
<1> HIDE DEF n
<1>4. /\ DOMAIN wrote = Fields /\ wrote.room = r.room - n /\ wrote.output \in Seq(Nat)
      /\ wrote.sendCurrentIndex = r.sendCurrentIndex
      /\ wrote.nState = r.nState /\ wrote.eState = r.eState /\ wrote.events = r.events
      /\ wrote.interest = r.interest
      /\ wrote.peer = r.peer /\ wrote.fin = r.fin /\ wrote.posted = r.posted
    BY <1>2 DEF handleWriteComplete, Sound, Fields, Blank
<1> HIDE DEF wrote
<1>5. CASE "WRITE" \notin r.events
    BY <1>3, <1>5 DEF Sound, Follows
<1>6. CASE "WRITE" \in r.events /\ r.peer = "reset"
    BY <1>3, <1>6 DEF Sound, Follows, Throw, Fields, Blank
<1>7. CASE "WRITE" \in r.events /\ r.peer # "reset" /\ ~(n > 0 /\ wrote.output = <<>>)
    BY <1>1, <1>3, <1>4, <1>7 DEF Sound, Follows
<1>8. CASE "WRITE" \in r.events /\ r.peer # "reset" /\ n > 0 /\ wrote.output = <<>>
    <2> DEFINE q == [wrote EXCEPT !.events = @ \ {"WRITE"}]
    <2>1. handleWrite(r) = Update(q)
        BY <1>3, <1>8
    <2>2. r.nState \in {"CONNECTED", "DISCONNECTING"} /\ ~r.fin
        BY <1>8 DEF Sound
    <2>3. /\ DOMAIN q = Fields /\ q.events = r.events \ {"WRITE"} /\ "READ" \in q.events
          /\ q.room = wrote.room /\ q.output = <<>> /\ q.sendCurrentIndex = wrote.sendCurrentIndex
          /\ q.nState = r.nState /\ q.eState = "ADDED"
          /\ q.peer = r.peer /\ q.fin = r.fin /\ q.posted = r.posted
        BY <1>4, <1>8, <2>2 DEF Sound, Fields, Blank
    <2> HIDE DEF q
    <2>4. Update(q) = [q EXCEPT !.interest = EpollBits(q.events)]
        BY <2>3 DEF Update
    <2> DEFINE s == [q EXCEPT !.interest = EpollBits(q.events)]
    <2>5. /\ DOMAIN s = Fields /\ s.events = q.events /\ s.room = q.room /\ s.output = <<>>
          /\ s.sendCurrentIndex = q.sendCurrentIndex /\ s.nState = q.nState /\ s.eState = "ADDED"
          /\ s.peer = q.peer /\ s.fin = q.fin /\ s.posted = q.posted
        BY <2>3 DEF Fields, Blank
    <2> HIDE DEF s
    <2>6. Sound(s) /\ Follows(r, s)
        BY <1>1, <1>4, <2>2, <2>3, <2>5 DEF Sound, Follows
    <2> QED
        BY <2>1, <2>4, <2>6 DEF s
<1> QED
    BY <1>5, <1>6, <1>7, <1>8

\* HandlerBase::handleEvent, whichever of its handlers run and whichever throws
LEMMA EventKeeps ==
    ASSUME NEW r, Sound(r), r.nState # "CONNECTING", NEW revents, NEW f \in Callback
    PROVE  LET s == [handleEvent(r, revents, f) EXCEPT !.thrown = FALSE]
           IN  Sound(s) /\ Follows(r, s)
<1> DEFINE hung == IF "HUP" \in revents /\ "IN" \notin revents THEN handleClose(r, f) ELSE r
           read == IF "IN" \in revents THEN handleRead(hung, f) ELSE hung
<1>1. Sound(hung) /\ Follows(r, hung)
    <2>1. Follows(r, r)
        BY DEF Follows, Sound
    <2> QED
        BY <2>1, CloseKeeps
<1> HIDE DEF hung
<1>2. hung.nState # "CONNECTING" /\ Follows(hung, hung)
    BY <1>1 DEF Follows, Sound
<1>3. Sound(read) /\ Follows(r, read)
    BY <1>1, <1>2, ReadKeeps, FollowsOn
<1> HIDE DEF read
<1>4. Sound(handleWrite(read)) /\ Follows(r, handleWrite(read))
    <2>1. read.nState # "CONNECTING"
        BY <1>3 DEF Follows
    <2> QED
        BY <1>3, <2>1, WriteKeeps, FollowsOn
<1>5. Sound(Throw(hung)) /\ Follows(r, Throw(hung))
    BY ZenonT(30), <1>1, Cleared DEF Throw
<1>6. handleEvent(r, revents, f) \in {hung, Throw(hung), handleWrite(read), read}
    BY DEF handleEvent, hung, read
<1>7. Sound(handleEvent(r, revents, f)) /\ Follows(r, handleEvent(r, revents, f))
    BY <1>1, <1>3, <1>4, <1>5, <1>6
<1> QED
    BY ZenonT(30), <1>7, Cleared

\* The poll of shutdown() finds a connection that is no longer CONNECTED, and ends.
LEMMA PollKeeps ==
    ASSUME NEW r, Sound(r), r.posted
    PROVE  /\ Sound(pollShutdown(r)) /\ Follows(r, pollShutdown(r))
           /\ ~pollShutdown(r).posted /\ pollShutdown(r).nState = r.nState
BY DEF Sound, Follows, pollShutdown, Fields, Blank

-----------------------------------------------------------------------------
(* The server *)

\* The slots of the pool are used by the connections that are not CONNECTING, closed is
\* what isReusable reads off their states, an event refers to a slot in use, and when
\* accept() may reuse a slot neither an event nor a poll of shutdown() refers to a
\* connection that is DISCONNECTED.
ServerInv ==
    /\ \A c \in Conn : c \in Occupants(pool) <=> ctx[c].nState # "CONNECTING"
    /\ closed = {c \in Conn : ctx[c].nState = "DISCONNECTED"}
    /\ \A c \in backlog : c \in Conn /\ ctx[c].nState = "CONNECTING" /\ ctx[c].peer # "none"
    /\ \A e \in pending : e[1] \in Occupants(pool)
    /\ phase = "accept" => \A e \in pending : ctx[e[1]].nState # "DISCONNECTED"
    /\ phase # "events" => \A c \in Conn : ctx[c].nState = "DISCONNECTED" => ~ctx[c].posted

IInv ==
    /\ Typed(pool) /\ Shape(pool, closed)
    /\ DOMAIN ctx = Conn /\ \A c \in Conn : Sound(ctx[c])
    /\ bench \in {"pool", "server"}
    /\ bench = "pool" => pending = {} /\ \A c \in Conn : ~ctx[c].posted
    /\ bench = "server" => ServerInv

\* Every part of the invariant at the start.
LEMMA Start == BenchInit => IInv
<1> SUFFICES ASSUME BenchInit PROVE IInv
    OBVIOUS
<1>1. Typed(pool) /\ Shape(pool, closed) /\ Occupants(pool) = {} /\ closed = {}
    BY PoolAssumption DEF BenchInit, Init, PoolInit, Typed, Shape, Occupants
<1>2. Sound(Blank) /\ Blank.nState = "CONNECTING" /\ ~Blank.posted
    BY ContextAssumption DEF Blank, Sound, Fields, FAST_COMPLETE
<1>3. /\ DOMAIN ctx = Conn /\ \A c \in Conn : ctx[c] = Blank
      /\ backlog = {} /\ phase = "poll" /\ pending = {} /\ bench \in {"pool", "server"}
    BY DEF BenchInit, Init
<1>4. ServerInv
    BY <1>1, <1>2, <1>3 DEF ServerInv
<1> QED
    BY <1>1, <1>2, <1>3, <1>4 DEF IInv

\* What accept() does when there is a connection: the pool may destroy a connection
\* that is DISCONNECTED, to which nothing refers any more.
LEMMA AcceptKeeps ==
    ASSUME IInv, bench = "server", bench' = bench, NEW c \in Conn, NEW f \in Callback, Accept(c, f)
    PROVE  /\ IInv'
           /\ \A d \in Occupants(pool) \ Occupants(pool') :
                d \in closed \ guarded /\ ~ctx[d].posted /\ \A e \in pending : e[1] # d
           /\ \A d \in Conn : ctx[d].fin => ctx'[d].room >= ctx[d].room
<1> DEFINE gone == Occupants(pool) \ Occupants(pool')
           new == [handleNewContext(ctx[c], f) EXCEPT !.thrown = FALSE]
<1>1. c \in backlog /\ c \in Conn \ Occupants(pool) /\ Emplace(c)
    BY DEF Accept, Emplace
<1>2. /\ Typed(pool') /\ Shape(pool', closed')
      /\ \A d \in gone : d \in closed \ guarded
      /\ c \in Occupants(pool') /\ Occupants(pool') \subseteq Occupants(pool) \cup {c}
      /\ closed' = closed \cap Occupants(pool')
    BY <1>1, EmplaceKeeps, PoolAssumption DEF IInv, Emplace
<1>3. /\ DOMAIN ctx' = Conn
      /\ \A d \in Conn : ctx'[d] = IF d = c THEN new ELSE IF d \in gone THEN Blank ELSE ctx[d]
    BY DEF Accept
<1>4. Sound(ctx[c]) /\ ctx[c].nState = "CONNECTING" /\ ctx[c].peer # "none"
    BY <1>1 DEF IInv, ServerInv
<1>5. Sound(new) /\ new.nState \in {"CONNECTED", "DISCONNECTING"}
    BY <1>4, NewContextKeeps
<1>6. Sound(Blank) /\ Blank.nState = "CONNECTING" /\ Blank.room = SNDBUF /\ ~Blank.posted
    BY ContextAssumption DEF Blank, Sound, Fields, FAST_COMPLETE
<1> HIDE DEF gone, new
<1>7. \A d \in Conn : Sound(ctx'[d])
    BY <1>3, <1>5, <1>6 DEF IInv
<1>8. \A d \in gone : d \in Conn /\ ctx[d].nState = "DISCONNECTED" /\ d # c
    BY <1>2, <1>4 DEF IInv, ServerInv
<1>9. phase = "accept" /\ phase' = "events" /\ pending' = pending /\ backlog' = backlog \ {c}
    BY DEF Accept
<1>10. \A e \in pending : e[1] \notin gone
    BY <1>8, <1>9 DEF IInv, ServerInv
<1>11. ServerInv'
    <2>1. \A d \in Conn : d \in Occupants(pool') <=> ctx'[d].nState # "CONNECTING"
        BY <1>2, <1>3, <1>5, <1>6 DEF IInv, ServerInv, gone
    <2>2. closed' = {d \in Conn : ctx'[d].nState = "DISCONNECTED"}
        BY <1>2, <1>3, <1>4, <1>5, <1>6 DEF IInv, ServerInv, gone
    <2>3. \A d \in backlog' : d \in Conn /\ ctx'[d].nState = "CONNECTING" /\ ctx'[d].peer # "none"
        BY <1>3, <1>8, <1>9 DEF IInv, ServerInv
    <2>4. \A e \in pending' : e[1] \in Occupants(pool')
        BY <1>9, <1>10 DEF IInv, ServerInv, gone
    <2> QED
        BY <1>9, <2>1, <2>2, <2>3, <2>4 DEF ServerInv
<1>12. IInv'
    BY <1>2, <1>3, <1>7, <1>11 DEF IInv
<1>13. \A d \in gone : ~ctx[d].posted
    BY <1>8, <1>9 DEF IInv, ServerInv
<1>14. \A d \in Conn : ctx[d].fin => ctx'[d].room >= ctx[d].room
    <2> SUFFICES ASSUME NEW d \in Conn, ctx[d].fin PROVE ctx'[d].room >= ctx[d].room
        OBVIOUS
    <2>1. d # c /\ ctx[d].room \in 0 .. SNDBUF
        BY <1>4 DEF Sound, IInv
    <2> QED
        BY <1>3, <1>6, <2>1, ContextAssumption
<1> QED
    BY <1>2, <1>10, <1>12, <1>13, <1>14 DEF gone

\* One round of handleEvents: the connection of the event is in the pool, so that it is
\* not CONNECTING, and its slot may become reusable.
LEMMA EventStepKeeps ==
    ASSUME IInv, bench = "server", bench' = bench,
           NEW e \in pending, NEW f \in Callback, HandleEvent(e, f)
    PROVE  IInv' /\ pool' = pool /\ \A d \in Conn : ctx[d].fin => ctx'[d].room >= ctx[d].room
<1> DEFINE c == e[1]
           new == [handleEvent(ctx[c], e[2], f) EXCEPT !.thrown = FALSE]
<1>1. c \in Conn /\ c \in Occupants(pool) /\ Sound(ctx[c]) /\ ctx[c].nState # "CONNECTING"
    BY DEF IInv, ServerInv, Typed, Occupants
<1>2. Sound(new) /\ Follows(ctx[c], new)
    BY <1>1, EventKeeps
<1>3. DOMAIN ctx' = Conn /\ ctx'[c] = new /\ \A d \in Conn : d # c => ctx'[d] = ctx[d]
    BY ZenonT(30), <1>1 DEF HandleEvent, Set, IInv
<1>4. /\ closed' = {d \in Conn : ctx'[d].nState = "DISCONNECTED"}
      /\ pool' = pool /\ backlog' = backlog /\ phase = "events" /\ phase' = phase
      /\ pending' \subseteq pending
    BY DEF HandleEvent, Closed
<1> HIDE DEF c, new
<1>5. closed \subseteq closed'
    BY <1>2, <1>3, <1>4 DEF IInv, ServerInv, Follows
<1>6. Shape(pool', closed') /\ Typed(pool')
    BY <1>4, <1>5 DEF IInv, Shape
<1>7. ServerInv'
    <2>1. \A d \in Conn : d \in Occupants(pool') <=> ctx'[d].nState # "CONNECTING"
        BY <1>1, <1>2, <1>3, <1>4 DEF IInv, ServerInv, Follows
    <2>2. \A d \in backlog' : d \in Conn /\ ctx'[d].nState = "CONNECTING" /\ ctx'[d].peer # "none"
        BY <1>1, <1>3, <1>4 DEF IInv, ServerInv
    <2> QED
        BY <1>4, <2>1, <2>2 DEF IInv, ServerInv
<1>8. \A d \in Conn : Sound(ctx'[d]) /\ (ctx[d].fin => ctx'[d].room >= ctx[d].room)
    <2> SUFFICES ASSUME NEW d \in Conn
                 PROVE  Sound(ctx'[d]) /\ (ctx[d].fin => ctx'[d].room >= ctx[d].room)
        OBVIOUS
    <2>1. CASE d = c
        BY <1>2, <1>3, <2>1 DEF Follows
    <2>2. CASE d # c
        BY <1>3, <2>2 DEF IInv, Sound
    <2> QED
        BY <2>1, <2>2
<1> QED
    BY <1>3, <1>4, <1>6, <1>7, <1>8 DEF IInv

\* Looper::loop and a future of the program: some connections change, none becomes
\* CONNECTING or DISCONNECTED, and the pool stays as it is.
LEMMA QuietKeeps ==
    ASSUME IInv, bench = "server", bench' = bench,
           UNCHANGED <<pool, closed, backlog, pending>>,
           DOMAIN ctx' = Conn,
           \A d \in Conn :
               /\ Sound(ctx'[d])
               /\ ctx[d].fin => ctx'[d].room >= ctx[d].room
               /\ ctx'[d].nState = "CONNECTING" <=> ctx[d].nState = "CONNECTING"
               /\ ctx'[d].nState = "DISCONNECTED" <=> ctx[d].nState = "DISCONNECTED"
               /\ ctx[d].peer # "none" => ctx'[d].peer # "none"
               /\ phase' # "events" /\ ctx'[d].nState = "DISCONNECTED" => ~ctx'[d].posted,
           phase' = "accept" => phase = "accept"
    PROVE  IInv' /\ pool' = pool /\ \A d \in Conn : ctx[d].fin => ctx'[d].room >= ctx[d].room
<1>1. Typed(pool') /\ Shape(pool', closed')
    BY DEF IInv
<1>2. \A d \in Occupants(pool) : d \in Conn
    BY DEF IInv, Typed, Occupants
<1>3. ServerInv'
    <2>1. \A d \in Conn : d \in Occupants(pool') <=> ctx'[d].nState # "CONNECTING"
        BY DEF IInv, ServerInv
    <2>2. closed' = {d \in Conn : ctx'[d].nState = "DISCONNECTED"}
        BY DEF IInv, ServerInv
    <2>3. \A d \in backlog' : d \in Conn /\ ctx'[d].nState = "CONNECTING" /\ ctx'[d].peer # "none"
        BY DEF IInv, ServerInv
    <2>4. \A e \in pending' : e[1] \in Occupants(pool')
        BY DEF IInv, ServerInv
    <2>5. phase' = "accept" => \A e \in pending' : ctx'[e[1]].nState # "DISCONNECTED"
        BY <1>2 DEF IInv, ServerInv
    <2> QED
        BY <2>1, <2>2, <2>3, <2>4, <2>5 DEF ServerInv
<1> QED
    BY <1>1, <1>3 DEF IInv

\* epoll_wait reports only connections that are registered, which are neither
\* CONNECTING nor DISCONNECTED.
LEMMA PollStepKeeps ==
    ASSUME IInv, bench = "server", bench' = bench, Poll
    PROVE  IInv' /\ pool' = pool /\ ctx' = ctx
<1>1. /\ pool' = pool /\ closed' = closed /\ ctx' = ctx /\ backlog' = backlog
      /\ phase = "poll" /\ phase' = "accept"
    BY DEF Poll, poolVars
<1>2. \A e \in pending' : \E c \in Conn : e[1] = c /\ ctx[c].interest # Absent
    BY DEF Poll
<1>3. \A e \in pending' : e[1] \in Conn /\ ctx[e[1]].nState \notin {"CONNECTING", "DISCONNECTED"}
    BY <1>2 DEF IInv, Sound
<1>4. ServerInv'
    BY <1>1, <1>3 DEF IInv, ServerInv
<1> QED
    BY <1>1, <1>4 DEF IInv

\* A connection that waits for accept() is not in the pool yet.
LEMMA ConnectKeeps ==
    ASSUME IInv, bench = "server", bench' = bench, NEW c \in Conn, Connect(c)
    PROVE  IInv' /\ pool' = pool /\ \A d \in Conn : ctx[d].fin => ctx'[d].room >= ctx[d].room
<1> DEFINE new == [Blank EXCEPT !.peer = "open"]
<1>1. /\ pool' = pool /\ closed' = closed /\ phase' = phase /\ pending' = pending
      /\ backlog' = backlog \cup {c}
    BY DEF Connect, PeerStep, poolVars
<1>2. DOMAIN ctx' = Conn /\ ctx'[c] = new /\ \A d \in Conn : d # c => ctx'[d] = ctx[d]
    BY DEF Connect, PeerStep, IInv
<1>3. Sound(new) /\ new.nState = "CONNECTING" /\ new.peer = "open" /\ ~new.posted
    BY ContextAssumption DEF Blank, Sound, Fields, FAST_COMPLETE
<1>4. ctx[c].nState = "CONNECTING" /\ ~ctx[c].fin
    BY DEF Connect, IInv, Sound
<1> HIDE DEF new
<1>5. ServerInv'
    <2>1. \A d \in Conn : ctx'[d].nState = ctx[d].nState
        BY <1>2, <1>3, <1>4
    <2>2. \A d \in Occupants(pool) : d \in Conn
        BY DEF IInv, Typed, Occupants
    <2>3. closed' = {d \in Conn : ctx'[d].nState = "DISCONNECTED"}
        BY <1>1, <2>1 DEF IInv, ServerInv
    <2>4. \A d \in Conn : ctx'[d].nState = "DISCONNECTED" => ctx'[d] = ctx[d]
        BY <1>2, <1>3
    <2> QED
        BY <1>1, <1>2, <1>3, <2>1, <2>2, <2>3, <2>4 DEF IInv, ServerInv
<1>6. \A d \in Conn : Sound(ctx'[d]) /\ (ctx[d].fin => ctx'[d].room >= ctx[d].room)
    BY <1>2, <1>3, <1>4 DEF IInv, Sound
<1> QED
    BY <1>1, <1>2, <1>5, <1>6 DEF IInv

\* What the other end does to a connection is seen only through its socket.
LEMMA PeerKeeps ==
    ASSUME IInv, bench = "server", bench' = bench, NEW c \in Conn,
           PeerSend(c) \/ PeerRead(c) \/ PeerClose(c) \/ PeerReset(c)
    PROVE  IInv' /\ pool' = pool /\ \A d \in Conn : ctx[d].fin => ctx'[d].room >= ctx[d].room
<1>1. UNCHANGED <<pool, closed, backlog, pending, phase>>
    BY DEF PeerSend, PeerRead, PeerClose, PeerReset, PeerStep, poolVars
<1>2. PICK new : ctx' = [ctx EXCEPT ![c] = new]
                 /\ new \in {[ctx[c] EXCEPT !.inbox = 1], [ctx[c] EXCEPT !.room = SNDBUF],
                             [ctx[c] EXCEPT !.peer = "fin"], [ctx[c] EXCEPT !.peer = "reset", !.err = TRUE]}
    BY DEF PeerSend, PeerRead, PeerClose, PeerReset, PeerStep
<1>3. Sound(ctx[c])
    BY DEF IInv
<1>4. /\ Sound(new) /\ new.room >= ctx[c].room /\ new.nState = ctx[c].nState
      /\ new.posted = ctx[c].posted /\ (ctx[c].peer # "none" => new.peer # "none")
    <2> DEFINE r == ctx[c]
    <2>1. CASE new = [r EXCEPT !.inbox = 1]
        BY <1>3, <2>1 DEF Sound, Fields, Blank
    <2>2. CASE new = [r EXCEPT !.room = SNDBUF]
        BY <1>3, <2>2, ContextAssumption DEF Sound, Fields, Blank
    <2>3. CASE new = [r EXCEPT !.peer = "fin"]
        BY <1>3, <2>3 DEF Sound, Fields, Blank
    <2>4. CASE new = [r EXCEPT !.peer = "reset", !.err = TRUE]
        BY <1>3, <2>4 DEF Sound, Fields, Blank
    <2> QED
        BY <1>2, <2>1, <2>2, <2>3, <2>4
<1>5. DOMAIN ctx' = Conn /\ ctx'[c] = new /\ \A d \in Conn : d # c => ctx'[d] = ctx[d]
    BY <1>2 DEF IInv
<1>6. \A d \in Conn :
        /\ Sound(ctx'[d]) /\ ctx'[d].room >= ctx[d].room
        /\ ctx'[d].nState = ctx[d].nState /\ ctx'[d].posted = ctx[d].posted
        /\ ctx[d].peer # "none" => ctx'[d].peer # "none"
    BY <1>4, <1>5 DEF IInv, Sound
<1>7. \A d \in Conn : phase' # "events" /\ ctx'[d].nState = "DISCONNECTED" => ~ctx'[d].posted
    BY <1>1, <1>6 DEF IInv, ServerInv
<1> QED
    BY <1>1, <1>5, <1>6, <1>7, QuietKeeps

\* The callbacks of a connection without traffic are among those of one with traffic.
LEMMA CallbackTyped == \A c : Callbacks(c) \subseteq Callback
<1>1. 0 \in 0 .. MAX_LEN
    BY ContextAssumption
<1>2. Silence \in Callback
    BY <1>1 DEF Callback, Silence
<1> QED
    BY <1>2 DEF Callbacks

\* The rest of batch(), and the program's own futures.
LEMMA BatchKeeps ==
    ASSUME IInv, bench = "server", bench' = bench,
           \/ AcceptNone \/ Loop \/ EndBatch
           \/ \E c \in Conn : Hold(c) \/ \E f \in Callbacks(c) : User(c, f)
    PROVE  IInv' /\ pool' = pool /\ \A d \in Conn : ctx[d].fin => ctx'[d].room >= ctx[d].room
<1>1. \A d \in Conn : Sound(ctx[d]) /\ ctx[d].room >= ctx[d].room
    BY DEF IInv, Sound
<1>2. CASE AcceptNone \/ EndBatch \/ \E c \in Conn : Hold(c)
    <2>1. UNCHANGED <<pool, closed, ctx, backlog, pending>>
        BY <1>2 DEF AcceptNone, EndBatch, Hold, Guard, Unguard, poolVars
    <2>2. phase' # "accept" /\ (phase' # "events" => phase # "events")
        BY <1>2 DEF AcceptNone, EndBatch, Hold
    <2>3. \A d \in Conn : phase' # "events" /\ ctx'[d].nState = "DISCONNECTED" => ~ctx'[d].posted
        BY <2>1, <2>2 DEF IInv, ServerInv
    <2>4. DOMAIN ctx' = Conn /\ \A d \in Conn : ctx'[d] = ctx[d]
        BY <2>1 DEF IInv
    <2> QED
        BY <1>1, <2>1, <2>2, <2>3, <2>4, QuietKeeps
<1>3. CASE Loop
    <2>1. UNCHANGED <<pool, closed, backlog, pending>> /\ phase' = "user"
        BY <1>3 DEF Loop, poolVars
    <2>2. /\ DOMAIN ctx' = Conn
          /\ \A d \in Conn : ctx'[d] = IF ctx[d].posted THEN pollShutdown(ctx[d]) ELSE ctx[d]
        BY <1>3 DEF Loop
    <2>3. ASSUME NEW d \in Conn
          PROVE  /\ Sound(ctx'[d]) /\ ~ctx'[d].posted /\ ctx'[d].nState = ctx[d].nState
                 /\ ctx[d].fin => ctx'[d].room >= ctx[d].room
                 /\ ctx[d].peer # "none" => ctx'[d].peer # "none"
        <3>1. CASE ctx[d].posted
            <4>1. pollShutdown(ctx[d]).peer = ctx[d].peer
                BY <1>1 DEF pollShutdown, Sound, Fields, Blank
            <4> QED
                BY <1>1, <2>2, <3>1, <4>1, PollKeeps DEF Follows
        <3>2. CASE ~ctx[d].posted
            BY <1>1, <2>2, <3>2
        <3> QED
            BY <3>1, <3>2
    <2> QED
        BY <2>1, <2>2, <2>3, QuietKeeps
<1>4. ASSUME NEW c \in Conn, NEW f \in Callbacks(c), User(c, f)
      PROVE  IInv' /\ pool' = pool /\ \A d \in Conn : ctx[d].fin => ctx'[d].room >= ctx[d].room
    <2> DEFINE r == ctx[c]
               new == [Call(r, f) EXCEPT !.thrown = FALSE]
    <2>1. UNCHANGED <<pool, closed, backlog, pending, phase>> /\ phase = "user"
        BY <1>4 DEF User, poolVars
    <2>2. r.nState \notin {"CONNECTING", "DISCONNECTED"}
        BY <1>4 DEF User, IInv, ServerInv
    <2>3. DOMAIN ctx' = Conn /\ ctx'[c] = new /\ \A d \in Conn : d # c => ctx'[d] = ctx[d]
        BY <1>4 DEF User, Set, IInv
    <2> HIDE DEF r
    <2>4. f \in Callback
        BY CallbackTyped
    <2>5. /\ Sound(Call(r, f)) /\ Follows(r, Call(r, f))
          /\ Call(r, f).nState \in {r.nState, "DISCONNECTING"}
        BY <1>1, <2>2, <2>4, CallKeeps DEF r
    <2>6. new.nState = Call(r, f).nState
        BY <2>5 DEF Sound, Fields, Blank
    <2>7. Sound(new) /\ Follows(r, new)
        BY ZenonT(30), <2>5, Cleared
    <2> HIDE DEF new
    <2>8. /\ new.nState \notin {"CONNECTING", "DISCONNECTED"} /\ new.peer # "none"
          /\ r.fin => new.room >= r.room
        BY <2>2, <2>5, <2>6, <2>7 DEF Sound, Follows
    <2>9. \A d \in Conn : d # c /\ ctx[d].nState = "DISCONNECTED" => ~ctx[d].posted
        BY <2>1 DEF IInv, ServerInv
    <2>10. ASSUME NEW d \in Conn
           PROVE  /\ Sound(ctx'[d])
                  /\ ctx[d].fin => ctx'[d].room >= ctx[d].room
                  /\ ctx'[d].nState = "CONNECTING" <=> ctx[d].nState = "CONNECTING"
                  /\ ctx'[d].nState = "DISCONNECTED" <=> ctx[d].nState = "DISCONNECTED"
                  /\ ctx[d].peer # "none" => ctx'[d].peer # "none"
                  /\ ctx'[d].nState = "DISCONNECTED" => ~ctx'[d].posted
        <3>1. CASE d = c
            BY <2>2, <2>3, <2>7, <2>8, <3>1 DEF r
        <3>2. CASE d # c
            BY <1>1, <2>3, <2>9, <3>2
        <3> QED
            BY <3>1, <3>2
    <2> QED
        BY <2>1, <2>3, <2>10, QuietKeeps
<1> QED
    BY <1>2, <1>3, <1>4

\* Every step of either bench keeps the invariant; it destroys only connections that are
\* closed and to which nothing refers, and it writes nothing after FIN.
LEMMA StepFacts ==
    ASSUME IInv, BenchNext
    PROVE  /\ IInv'
           /\ \A d \in Occupants(pool) \ Occupants(pool') :
                d \in closed \ guarded /\ ~ctx[d].posted /\ \A e \in pending : e[1] # d
           /\ \A d \in Conn : ctx[d].fin => ctx'[d].room >= ctx[d].room
<1>1. CASE Pooling
    <2>1. UNCHANGED <<ctx, backlog, phase, pending, bench>> /\ bench = "pool"
        BY <1>1 DEF Pooling
    <2>2. /\ Typed(pool') /\ Shape(pool', closed')
          /\ \A d \in Occupants(pool) \ Occupants(pool') : d \in closed \ guarded
        <3>1. PICK c \in Conn : Emplace(c) \/ Close(c) \/ Guard(c) \/ Unguard(c)
            BY <1>1 DEF Pooling, PoolNext
        <3>2. CASE Emplace(c)
            <4>1. c \in Conn \ Occupants(pool)
                BY <3>2 DEF Emplace
            <4> QED
                BY <3>2, <4>1, EmplaceKeeps, PoolAssumption DEF IInv
        <3>3. CASE Close(c) \/ Guard(c) \/ Unguard(c)
            <4>1. pool' = pool /\ closed \subseteq closed'
                BY <3>3 DEF Close, Guard, Unguard
            <4> QED
                BY <4>1 DEF IInv, Shape
        <3> QED
            BY <3>1, <3>2, <3>3
    <2>3. Occupants(pool) \subseteq Conn
        BY DEF IInv, Typed, Occupants
    <2> QED
        BY <2>1, <2>2, <2>3 DEF IInv, Sound
<1>2. CASE bench = "server" /\ bench' = bench /\ Next
    <2>1. ASSUME NEW c \in Conn, NEW f \in Callbacks(c), Accept(c, f)
          PROVE  /\ IInv'
                 /\ \A d \in Occupants(pool) \ Occupants(pool') :
                      d \in closed \ guarded /\ ~ctx[d].posted /\ \A e \in pending : e[1] # d
                 /\ \A d \in Conn : ctx[d].fin => ctx'[d].room >= ctx[d].room
        BY <1>2, <2>1, AcceptKeeps, CallbackTyped
    <2>2. ASSUME IInv' /\ pool' = pool /\ \A d \in Conn : ctx[d].fin => ctx'[d].room >= ctx[d].room
          PROVE  /\ IInv'
                 /\ \A d \in Occupants(pool) \ Occupants(pool') :
                      d \in closed \ guarded /\ ~ctx[d].posted /\ \A e \in pending : e[1] # d
                 /\ \A d \in Conn : ctx[d].fin => ctx'[d].room >= ctx[d].room
        BY <2>2
    <2>3. CASE Poll
        <3>1. \A d \in Conn : ctx[d].room \in Int
            BY DEF IInv, Sound
        <3> QED
            BY <1>2, <2>2, <2>3, <3>1, PollStepKeeps
    <2>4. CASE \/ AcceptNone \/ Loop \/ EndBatch
               \/ \E c \in Conn : Hold(c) \/ \E f \in Callbacks(c) : User(c, f)
        BY <1>2, <2>2, <2>4, BatchKeeps
    <2>5. ASSUME NEW e \in pending, NEW f \in Callbacks(e[1]), HandleEvent(e, f)
          PROVE  IInv' /\ pool' = pool /\ \A d \in Conn : ctx[d].fin => ctx'[d].room >= ctx[d].room
        BY <1>2, <2>5, EventStepKeeps, CallbackTyped
    <2>6. ASSUME NEW c \in Conn, Peers(c) \/ PeerRead(c)
          PROVE  IInv' /\ pool' = pool /\ \A d \in Conn : ctx[d].fin => ctx'[d].room >= ctx[d].room
        BY <1>2, <2>6, ConnectKeeps, PeerKeeps DEF Peers
    <2> QED
        BY <1>2, <2>1, <2>2, <2>3, <2>4, <2>5, <2>6 DEF Next, Server
<1> QED
    BY <1>1, <1>2 DEF BenchNext, Serving

LEMMA StutterKeeps ==
    ASSUME IInv, UNCHANGED all
    PROVE  IInv'
BY DEF IInv, ServerInv, all, vars, poolVars

\* The inductive invariant; the fairness of Spec is not needed.
LEMMA Invariance == Spec => []IInv
<1>1. IInv /\ [BenchNext]_all => IInv'
    BY StepFacts, StutterKeeps
<1> QED
    BY <1>1, Start, PTL DEF Spec

\* Pool and WeakReference, alone and under the server: the window holds only slots
\* without a connection, the search never leaves the container, and no object is in
\* two slots.
THEOREM PoolKeepsItsShape == Spec => []WindowClosed
<1>1. IInv => WindowClosed
    BY DEF IInv, Typed, Shape, WindowClosed
<1> QED
    BY <1>1, Invariance, PTL

\* Pool::emplace never destroys an object that is connected or that somebody holds.
THEOREM LiveObjectsStay == Spec => KeepsLive
<1>1. IInv /\ [BenchNext]_all =>
        [\A c \in Occupants(pool) \ Occupants(pool') : c \in closed \ guarded]_poolVars
    BY StepFacts DEF all, vars
<1> QED
    BY <1>1, Invariance, PTL DEF Spec, KeepsLive

\* BaseServer::batch: when accept() makes the pool destroy a Context, no event of
\* _eventBuffer and no poll of shutdown() in the looper holds a pointer to it.
THEOREM BundlesStayLive == Spec => LiveBundles
<1>1. IInv /\ [BenchNext]_all =>
        [\A c \in Occupants(pool) \ Occupants(pool') :
            ~ctx[c].posted /\ \A e \in pending : e[1] # c]_vars
    BY StepFacts DEF all
<1> QED
    BY <1>1, Invariance, PTL DEF Spec, LiveBundles

\* Context::send, shutdown and the handlers: FIN is sent only when no byte waits in
\* output, and no byte is written after it.
THEOREM FinComesLast == Spec => FinLast
<1>1. IInv /\ IInv' /\ [BenchNext]_all =>
        [\A c \in Conn :
            /\ ctx'[c].fin /\ ~ctx[c].fin => ctx'[c].output = <<>>
            /\ ctx[c].fin => ctx'[c].room >= ctx[c].room]_vars
    <2> SUFFICES ASSUME IInv, IInv', BenchNext
                 PROVE  \A c \in Conn :
                            /\ ctx'[c].fin /\ ~ctx[c].fin => ctx'[c].output = <<>>
                            /\ ctx[c].fin => ctx'[c].room >= ctx[c].room
        BY DEF all
    <2>1. \A c \in Conn : Sound(ctx'[c])
        BY DEF IInv
    <2> QED
        BY <2>1, StepFacts DEF Sound
<1> QED
    BY <1>1, Invariance, PTL DEF Spec, FinLast
=============================================================================
