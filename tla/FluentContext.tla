--------------------------- MODULE FluentContext ---------------------------
(***************************************************************************)
(* What the operations of a Context and the handlers of fluent do to one   *)
(* connection (net/fluent/include/network/Context.h, handler/, policy/).   *)
(* A connection is a record: the fields of the Context, and below it the   *)
(* socket and its registration in epoll, which are external.               *)
(*                                                                         *)
(* A byte is a token of the send it belongs to; only the bytes that wait   *)
(* in output are kept.  An exception ends the handler: field thrown.       *)
(***************************************************************************)
EXTENDS Integers, Sequences

CONSTANTS
    SNDBUF,     \* bytes the kernel takes before the peer reads
    MAX_LEN,    \* bytes of a send
    MAX_CALLS   \* bound on the calls of the program that do something with a connection

ASSUME ContextAssumption == SNDBUF \in Nat /\ MAX_LEN \in Nat

Absent == {"absent"}  \* not registered in epoll

FAST_COMPLETE == 1

Blank ==
    [nState |-> "CONNECTING", events |-> {}, eState |-> "NEW",
     output |-> <<>>, sendProvider |-> <<>>,
     sendCurrentIndex |-> FAST_COMPLETE + 1, sendCompletedIndex |-> FAST_COMPLETE + 1,
     posted |-> FALSE,      \* the looper holds the poll of shutdown()
     thrown |-> FALSE, calls |-> 0,
     peer |-> "none",       \* then "open", "fin" or "reset"
     err |-> FALSE,         \* the socket has an error that nobody has fetched
     inbox |-> 0, room |-> SNDBUF,
     fin |-> FALSE,         \* SHUT_WR was called
     interest |-> Absent]
-----------------------------------------------------------------------------
(* MultiplexerPolicy and Multiplexer::update *)

\* EVENT_READ is POLL_IN | POLL_PRI and EVENT_WRITE is POLL_OUT: codes of
\* siginfo_t, 1 | 5 and 2, which epoll reads as EPOLLIN | EPOLLOUT and EPOLLPRI.
EpollBitsOut(events) == \* mutant: writability is part of EVENT_WRITE only by name
    (IF "READ" \in events THEN {"IN"} ELSE {}) \cup (IF "WRITE" \in events THEN {"PRI"} ELSE {})
EpollBits(events) ==
    (IF "READ" \in events THEN {"IN", "OUT"} ELSE {}) \cup (IF "WRITE" \in events THEN {"PRI"} ELSE {})

\* mutant: the last event is removed by a modification
UpdateKeep(r) ==
    IF r.eState # "ADDED"
    THEN [r EXCEPT !.eState = "ADDED", !.interest = EpollBits(r.events)]
    ELSE [r EXCEPT !.interest = EpollBits(r.events)]

\* updateEventState, and epoll_ctl with the operation it returns
Update(r) ==
    IF r.eState # "ADDED"
    THEN [r EXCEPT !.eState = "ADDED", !.interest = EpollBits(r.events)]
    ELSE IF r.events = {}
    THEN [r EXCEPT !.eState = "DELETED", !.interest = Absent]
    ELSE [r EXCEPT !.interest = EpollBits(r.events)]

Throw(r) == [r EXCEPT !.thrown = TRUE]
-----------------------------------------------------------------------------
(* Context *)

\* Context::send.  Its bytes go to the socket even if others wait in output.
send(r, n) ==
    LET ret == IF n <= r.room THEN n ELSE r.room
        wrote == [r EXCEPT !.room = @ - ret]
        queued == [wrote EXCEPT
            !.output = @ \o [i \in 1 .. n - ret |-> r.sendCurrentIndex],
            !.sendProvider = Append(@, n - ret),
            !.sendCurrentIndex = @ + 1]
    IN  IF r.nState \in {"DISCONNECTING", "DISCONNECTED"} THEN r
        ELSE IF r.peer = "reset" THEN Throw([r EXCEPT !.err = FALSE])
        ELSE IF ret = n THEN wrote
        ELSE IF "WRITE" \in r.events THEN queued
        ELSE Update([queued EXCEPT !.events = @ \cup {"WRITE"}])

\* mutant: bytes that wait in output are not looked at
shutdownNow(r) ==
    IF r.nState # "CONNECTED" THEN r ELSE [r EXCEPT !.nState = "DISCONNECTING", !.fin = TRUE]

\* Context::shutdown: FIN at once, or a poll in the looper if bytes wait.
shutdown(r) ==
    IF r.nState # "CONNECTED" THEN r
    ELSE IF "WRITE" \in r.events
    THEN [r EXCEPT !.nState = "DISCONNECTING", !.posted = TRUE]
    ELSE [r EXCEPT !.nState = "DISCONNECTING", !.fin = TRUE]

\* The callback of that poll.  When it returns true the poll is over.
pollShutdown(r) ==
    IF r.nState # "CONNECTED" THEN [r EXCEPT !.posted = FALSE]
    ELSE IF "WRITE" \notin r.events THEN [r EXCEPT !.posted = FALSE, !.fin = TRUE]
    ELSE r
-----------------------------------------------------------------------------
(* Handler.  The user's callback: it may send, shut down, and throw. *)

Callback == [send : 0 .. MAX_LEN, shutdown : BOOLEAN, throw : BOOLEAN]
Silence == [send |-> 0, shutdown |-> FALSE, throw |-> FALSE]

Call(r, f) ==
    LET called == [r EXCEPT !.calls = @ + 1]
        sent == IF f.send > 0 THEN send(called, f.send) ELSE called
        shut == IF f.shutdown THEN shutdown(sent) ELSE sent
    IN  IF f = Silence \/ r.calls = MAX_CALLS THEN r
        ELSE IF sent.thrown THEN sent ELSE IF f.throw THEN Throw(shut) ELSE shut

\* handleNewContext
handleNewContext(r, f) ==
    Call(Update([r EXCEPT !.nState = "CONNECTED", !.events = {"READ"}]), f)

\* handleClose; its callback finds the connection DISCONNECTED
handleClose(r, f) ==
    IF r.nState \notin {"CONNECTED", "DISCONNECTING"} THEN r
    ELSE Call([Update([shutdown(r) EXCEPT !.events = {}]) EXCEPT !.nState = "DISCONNECTED"], f)

\* handleRead: readv, and what follows from its result
handleRead(r, f) ==
    IF r.inbox > 0 THEN Call([r EXCEPT !.inbox = 0], f)
    ELSE IF r.err THEN Throw([r EXCEPT !.err = FALSE])
    ELSE IF r.peer # "open" THEN handleClose(r, f)
    ELSE r

\* mutant: a send counts as completed with its first bytes
handleWriteCompleteEarly(r, n) ==
    IF n = 0 THEN r
    ELSE [r EXCEPT !.sendProvider = <<>>, !.sendCompletedIndex = r.sendCurrentIndex]

\* The sends that the first n waiting bytes complete leave the provider.
handleWriteComplete(r, n) ==
    LET Sum[k \in 0 .. Len(r.sendProvider)] == IF k = 0 THEN 0 ELSE Sum[k - 1] + r.sendProvider[k]
        done == CHOOSE k \in 0 .. Len(r.sendProvider) :
            Sum[k] <= n /\ (k < Len(r.sendProvider) => n < Sum[k + 1])
        rest == SubSeq(r.sendProvider, done + 1, Len(r.sendProvider))
    IN  [r EXCEPT !.sendProvider = IF rest = <<>> THEN <<>> ELSE [rest EXCEPT ![1] = @ - (n - Sum[done])],
                  !.sendCompletedIndex = @ + done]

\* handleWrite, with Buffer::writeTo
handleWrite(r) ==
    LET n == IF Len(r.output) <= r.room THEN Len(r.output) ELSE r.room
        wrote == handleWriteComplete(
            [r EXCEPT !.output = SubSeq(@, n + 1, Len(@)), !.room = @ - n], n)
    IN  IF "WRITE" \notin r.events THEN r
        ELSE IF r.peer = "reset" THEN Throw([r EXCEPT !.err = FALSE])
        ELSE IF n > 0 /\ wrote.output = <<>>
        THEN Update([wrote EXCEPT !.events = @ \ {"WRITE"}])
        ELSE wrote

\* HandlerBase::handleEvent; handleError throws
handleEvent(r, revents, f) ==
    LET hung == IF "HUP" \in revents /\ "IN" \notin revents THEN handleClose(r, f) ELSE r
        read == IF "IN" \in revents THEN handleRead(hung, f) ELSE hung
    IN  IF hung.thrown THEN hung
        ELSE IF "ERR" \in revents THEN Throw(hung)
        ELSE IF "OUT" \in revents /\ ~read.thrown THEN handleWrite(read)
        ELSE read
-----------------------------------------------------------------------------
(* What epoll_wait reports for a connection; external. *)

Readable(r) == r.inbox > 0 \/ r.peer # "open"
Writable(r) == r.room > 0 \/ r.fin \/ r.peer = "reset"

Revents(r) ==
    (r.interest \cap ((IF Readable(r) THEN {"IN"} ELSE {}) \cup (IF Writable(r) THEN {"OUT"} ELSE {})))
        \cup (IF r.err THEN {"ERR"} ELSE {})
        \cup (IF r.peer = "reset" \/ (r.fin /\ r.peer = "fin") THEN {"HUP"} ELSE {})
=============================================================================
