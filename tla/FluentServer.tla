---------------------------- MODULE FluentServer ----------------------------
(***************************************************************************)
(* BaseServer of net/fluent (include/app/Server.h): one thread that runs   *)
(* batch() again and again: poll epoll, accept one connection, handle the  *)
(* events, run the looper.  Around it the peers and the program's own      *)
(* futures.  The connections live in the slots of the Pool.                *)
(***************************************************************************)
EXTENDS FluentPool, FluentContext

CONSTANTS
    Talker,  \* connections with traffic; the others connect and close
    Served   \* the connections of the server; the bench of the pool has all

VARIABLES
    ctx,      \* the connections: see FluentContext
    backlog,  \* connections accept4 has not returned yet
    phase,    \* the next part of batch()
    pending,  \* _eventBuffer: what epoll_wait returned and is not handled
    bench     \* what a behaviour shows: the "pool" alone or the "server"

vars == <<poolVars, ctx, backlog, phase, pending>>
all == <<vars, bench>>

Init ==
    /\ PoolInit
    /\ ctx = [c \in Conn |-> Blank]
    /\ backlog = {} /\ phase = "poll" /\ pending = {}

\* The handler is over, and with it the exception.
Set(c, r) == ctx' = [ctx EXCEPT ![c] = [r EXCEPT !.thrown = FALSE]]

\* DISCONNECTED is what isReusable looks at.
Closed == {c \in Conn : ctx'[c].nState = "DISCONNECTED"}

Callbacks(c) == IF c \in Talker THEN Callback ELSE {Silence}
-----------------------------------------------------------------------------
\* Multiplexer::poll and dispatchActiveContext
Poll ==
    /\ phase = "poll" /\ phase' = "accept"
    /\ pending' = {<<c, Revents(ctx[c])>> : c \in
        {c \in Conn : ctx[c].interest # Absent /\ Revents(ctx[c]) # {}}}
    /\ UNCHANGED <<poolVars, ctx, backlog>>

\* accept() without and with a connection.  The Context that the Pool destroys
\* closes its socket.
AcceptNone ==
    /\ phase = "accept" /\ phase' = "events"
    /\ backlog = {}
    /\ UNCHANGED <<poolVars, ctx, backlog, pending>>

Accept(c, f) ==
    /\ phase = "accept" /\ phase' = "events"
    /\ c \in backlog /\ backlog' = backlog \ {c}
    /\ Emplace(c)
    /\ ctx' = [d \in Conn |->
        IF d = c THEN [handleNewContext(ctx[c], f) EXCEPT !.thrown = FALSE]
        ELSE IF d \in Occupants(pool) \ Occupants(pool') THEN Blank ELSE ctx[d]]
    /\ UNCHANGED pending

\* One round of handleEvents
HandleEvent(e, f) ==
    /\ phase = "events" /\ e \in pending /\ pending' = pending \ {e}
    /\ Set(e[1], handleEvent(ctx[e[1]], e[2], f))
    /\ closed' = Closed
    /\ UNCHANGED <<pool, guarded, backlog, phase>>

\* Looper::loop: the polls of shutdown() that are in it
Loop ==
    /\ phase = "events" /\ pending = {} /\ phase' = "user"
    /\ ctx' = [c \in Conn |-> IF ctx[c].posted THEN pollShutdown(ctx[c]) ELSE ctx[c]]
    /\ UNCHANGED <<poolVars, backlog, pending>>

\* Futures of the program in the looper: they may send or shut down a connection
\* that is not closed, and hold its lifecycle.  An exception would end run().
User(c, f) ==
    /\ phase = "user" /\ c \in Talker /\ c \in Occupants(pool) \ closed
    /\ ctx[c].peer # "reset" /\ ~f.throw
    /\ Set(c, Call(ctx[c], f))
    /\ UNCHANGED <<poolVars, backlog, phase, pending>>

Hold(c) ==
    /\ phase = "user" /\ c \in Talker
    /\ Guard(c) \/ Unguard(c)
    /\ UNCHANGED <<ctx, backlog, phase, pending>>

EndBatch ==
    /\ phase = "user" /\ phase' = "poll"
    /\ UNCHANGED <<poolVars, ctx, backlog, pending>>

Server ==
    \/ Poll \/ AcceptNone \/ Loop \/ EndBatch
    \/ \E c \in Conn : \E f \in Callbacks(c) : Accept(c, f)
    \/ \E e \in pending : \E f \in Callbacks(e[1]) : HandleEvent(e, f)
-----------------------------------------------------------------------------
(* The peers *)

PeerStep(c, r) ==
    /\ ctx' = [ctx EXCEPT ![c] = r]
    /\ UNCHANGED <<poolVars, phase, pending>>

Connect(c) ==
    /\ ctx[c].peer = "none"
    /\ PeerStep(c, [Blank EXCEPT !.peer = "open"])
    /\ backlog' = backlog \cup {c}

PeerSend(c) ==
    /\ c \in Talker /\ ctx[c].peer = "open" /\ ctx[c].inbox = 0
    /\ PeerStep(c, [ctx[c] EXCEPT !.inbox = 1])
    /\ UNCHANGED backlog

PeerRead(c) ==
    /\ ctx[c].peer \in {"open", "fin"} /\ ctx[c].room < SNDBUF
    /\ PeerStep(c, [ctx[c] EXCEPT !.room = SNDBUF])
    /\ UNCHANGED backlog

PeerClose(c) ==
    /\ ctx[c].peer = "open"
    /\ PeerStep(c, [ctx[c] EXCEPT !.peer = "fin"])
    /\ UNCHANGED backlog

PeerReset(c) ==
    /\ c \in Talker /\ ctx[c].peer \in {"open", "fin"}
    /\ PeerStep(c, [ctx[c] EXCEPT !.peer = "reset", !.err = TRUE])
    /\ UNCHANGED backlog

Peers(c) == Connect(c) \/ PeerSend(c) \/ PeerClose(c) \/ PeerReset(c)

Next ==
    \/ Server
    \/ \E c \in Conn : Peers(c) \/ PeerRead(c) \/ Hold(c) \/ \E f \in Callbacks(c) : User(c, f)

-----------------------------------------------------------------------------
\* Two benches: the pool on its own, with more connections than a server can be explored
\* with, and the server.
BenchInit == Init /\ bench \in {"pool", "server"}

Pooling ==
    /\ bench = "pool" /\ PoolNext
    /\ UNCHANGED <<ctx, backlog, phase, pending, bench>>

Serving(A) ==
    /\ bench = "server" /\ A
    /\ UNCHANGED bench

BenchNext == Pooling \/ Serving(Next /\ backlog' \subseteq Served)

\* run() never stops calling batch(), and a peer reads what it was sent.
Spec ==
    /\ BenchInit /\ [][BenchNext]_all
    /\ WF_all(Serving(Server))
    /\ \A c \in Talker : WF_all(Serving(PeerRead(c)))
-----------------------------------------------------------------------------
\* No event that waits to be handled, and no future of shutdown() in the looper,
\* refers to a Context that the Pool destroys: bundles are raw pointers.
LiveBundles ==
    [][\A c \in Occupants(pool) \ Occupants(pool') :
        ~ctx[c].posted /\ \A e \in pending : e[1] # c]_vars

\* A Completion polls true exactly when no byte of its send waits in output.
Completions ==
    \A c \in Conn : \A t \in FAST_COMPLETE + 1 .. ctx[c].sendCurrentIndex - 1 :
        ctx[c].sendCompletedIndex > t <=> \A i \in DOMAIN ctx[c].output : ctx[c].output[i] # t

\* FIN comes last: it is not sent while bytes wait in output, and no byte is
\* written after it.
FinLast ==
    [][\A c \in Conn :
        /\ ctx'[c].fin /\ ~ctx[c].fin => ctx'[c].output = <<>>
        /\ ctx[c].fin => ctx'[c].room >= ctx[c].room]_vars

Open(c) == ctx[c].nState \in {"CONNECTED", "DISCONNECTING"} /\ ctx[c].peer # "reset"

\* Bytes in output are written as long as the connection is open and its peer
\* reads, although EVENT_WRITE asks epoll for something else.
OutputDrains ==
    \A c \in Talker : ctx[c].output # <<>> ~> (ctx[c].output = <<>> \/ ~Open(c))

\* A peer that closes is noticed: the connection becomes DISCONNECTED.
CloseSeen ==
    \A c \in Conn : (Open(c) /\ ctx[c].peer = "fin") ~> ~Open(c)

\* What was sent leaves the output buffer while the peer reads, and a connection whose
\* peer has closed is closed here too.
PeersServed == OutputDrains /\ CloseSeen

\* "A call shutdown and set DISCONNECTING ---> send FIN"
FinSent ==
    \A c \in Conn : ctx[c].nState = "DISCONNECTING" ~> (ctx[c].fin \/ ~Open(c))
=============================================================================
