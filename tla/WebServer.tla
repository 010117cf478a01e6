----------------------------- MODULE WebServer -----------------------------
(***************************************************************************)
(* net/in_kernel_web_server: the epoll loop of one server thread, written  *)
(* once as a kernel module and once for user space with the same control   *)
(* flow, except where a connection gets no descriptor and that only the    *)
(* module is ever stopped.  Clients pipeline requests in arbitrary pieces, *)
(* half-close and reset; the kernel side (sockets, epoll) is external.     *)
(***************************************************************************)
EXTENDS Integers, FiniteSets, FiniteSetsExt

CONSTANTS Conns,          \* client connections
          Fds,            \* descriptors the server can get, a set of numbers
          PerRequest,     \* line-break chars per request: 6 in the code
          READ_BUFFER,    \* 4096 in the code
          MAX_RESPONSES,  \* 32 in the code
          Requests,       \* requests a client pipelines at most
          LateReset,      \* may a half-closed connection still be reset
          Interrupts      \* may sendmsg return EINTR

VARIABLES net,       \* by connection: [st, left, buf, fin, rst, read, sent], the client and the kernel
          fdOf,      \* by descriptor: its connection, or "none"
          interest,  \* by descriptor: the events asked of epoll
          sockets,   \* by descriptor: struct socket_context [socket, _r_n, responses]
          batch,     \* what epoll_wait returned and the loop has still to handle
          stopped,   \* the thread has left its loop
          module     \* this is server_kernel.c, otherwise server_user.c

webVars == <<net, fdOf, interest, sockets, batch, stopped, module>>

NoContext == [socket |-> FALSE, _r_n |-> 0, responses |-> 0]
Init ==
    /\ net = [c \in Conns |-> [st |-> "idle", left |-> Requests * PerRequest, buf |-> 0,
                               fin |-> FALSE, rst |-> FALSE, read |-> 0, sent |-> 0]]
    /\ fdOf = [f \in Fds |-> "none"] /\ interest = [f \in Fds |-> {}]
    /\ sockets = [f \in Fds |-> NoContext]
    /\ batch = {} /\ stopped = FALSE /\ module \in BOOLEAN

(* Clients *)
Connect(c) == net[c].st = "idle" /\ net' = [net EXCEPT ![c].st = "queued"]
Send(c) ==
    /\ net[c].st \in {"queued", "open"} /\ ~net[c].fin /\ ~net[c].rst
    /\ \E n \in 1 .. net[c].left : net' = [net EXCEPT ![c].left = @ - n, ![c].buf = @ + n]
Fin(c) == net[c].st \in {"queued", "open"} /\ ~net[c].fin /\ ~net[c].rst /\ net' = [net EXCEPT ![c].fin = TRUE]
Rst(c) ==
    /\ net[c].st = "open" /\ ~net[c].rst /\ (net[c].fin => LateReset)
    /\ net' = [net EXCEPT ![c].rst = TRUE]
Client(c) == (Connect(c) \/ Send(c) \/ Fin(c) \/ Rst(c)) /\ ~stopped
             /\ UNCHANGED <<fdOf, interest, sockets, batch, stopped, module>>

(* epoll: HUP (with ERR) is reported whether asked for or not *)
Ready(c) == (IF net[c].buf > 0 \/ net[c].fin \/ net[c].rst THEN {"IN"} ELSE {}) \cup {"OUT"}
Reported(f) == LET c == fdOf[f] IN (Ready(c) \cap interest[f]) \cup (IF net[c].rst THEN {"HUP"} ELSE {})
Queued == {c \in Conns : net[c].st = "queued"}
epoll_wait ==
    /\ ~stopped /\ batch = {}
    /\ batch' = {[fd |-> f, events |-> Reported(f)] : f \in {f \in Fds : fdOf[f] # "none" /\ Reported(f) # {}}}
                \cup (IF Queued # {} THEN {[fd |-> 0, events |-> {"IN"}]} ELSE {})
    /\ batch' # {}
    /\ UNCHANGED <<net, fdOf, interest, sockets, stopped, module>>

Free == {f \in Fds : fdOf[f] = "none"}
\* accept and update_event(EPOLL_CTL_ADD)
Accepted ==
    /\ Free # {}
    /\ \E c \in Queued : net' = [net EXCEPT ![c].st = "open"] /\ fdOf' = [fdOf EXCEPT ![Min(Free)] = c]
    /\ interest' = [interest EXCEPT ![Min(Free)] = {"IN", "HUP"}]
    /\ sockets' = [sockets EXCEPT ![Min(Free)].socket = TRUE]
\* No descriptor is left.  The module has the connection already when make_fd_and_file looks
\* for one, and fput drops it; in user space it is accept that fails, and the connection
\* stays in the queue.
Refused ==
    /\ Free = {}
    /\ IF module THEN \E c \in Queued : net' = [net EXCEPT ![c].st = "dropped"] ELSE UNCHANGED net
    /\ UNCHANGED <<fdOf, interest, sockets>>
Accept(e) == e.fd = 0 /\ (Accepted \/ Refused)

\* recvmsg: data first; after a FIN no error is reported any more
Recv(c) == CASE net[c].buf > 0 -> Min({net[c].buf, READ_BUFFER})
             [] net[c].buf = 0 /\ net[c].fin -> 0
             [] OTHER -> -1
wrk_parse(s, n) == [s EXCEPT !._r_n = (@ + n) % PerRequest, !.responses = @ + (s._r_n + n) \div PerRequest]

Gone(r, ev) == r < 0 \/ (r = 0 /\ ev = {"IN"})
\* The EPOLLIN part of the loop: [events, next, ctx, n], n the bytes taken
In(c, s, ev) ==
    LET r == Recv(c)
        p == wrk_parse(s, r)
    IN  CASE "IN" \notin ev -> [events |-> ev, next |-> ev, ctx |-> s, n |-> 0]
          [] "IN" \in ev /\ Gone(r, ev) ->
                [events |-> {"HUP"}, next |-> ev, ctx |-> s, n |-> 0]
          [] OTHER -> [events |-> ev, ctx |-> p, n |-> r,
                       next |-> (IF p.responses > s.responses THEN ev \ {"IN"} ELSE ev)
                                \cup (IF p.responses # 0 THEN {"OUT"} ELSE {})]
Disarmed(responses, next) == IF responses = 0 THEN next \ {"OUT"} ELSE next
\* The EPOLLOUT part: responses are taken off before sendmsg and put back by nobody
Out(i, result) ==
    LET m == IF i.ctx.responses >= MAX_RESPONSES THEN MAX_RESPONSES - 1 ELSE i.ctx.responses
        ctx == [i.ctx EXCEPT !.responses = @ - m]
    IN  CASE "OUT" \notin i.events -> [events |-> i.events, next |-> i.next, ctx |-> i.ctx, m |-> 0]
          [] "OUT" \in i.events /\ result = "eintr" -> [events |-> i.events, next |-> i.next, ctx |-> ctx, m |-> 0]
          [] "OUT" \in i.events /\ result = "error" -> [events |-> {"HUP"}, next |-> i.next, ctx |-> ctx, m |-> 0]
          [] OTHER -> [events |-> i.events, ctx |-> ctx, m |-> m,
                       next |-> Disarmed(ctx.responses, i.next) \cup {"IN"}]
SendResults(c) == IF net[c].rst THEN {"error"} ELSE {"sent"} \cup (IF Interrupts THEN {"eintr"} ELSE {})

Handle(e) ==
    /\ e.fd # 0
    /\ LET c == fdOf[e.fd]
           i == In(c, sockets[e.fd], e.events)
       IN  \E result \in SendResults(c) :
             LET o == Out(i, result)
                 close == "HUP" \in o.events /\ "IN" \notin o.events
             IN  /\ net' = [net EXCEPT ![c].buf = @ - i.n, ![c].read = @ + i.n, ![c].sent = @ + o.m,
                                       ![c].st = IF close THEN "closed" ELSE @]
                 /\ fdOf' = IF close THEN [fdOf EXCEPT ![e.fd] = "none"] ELSE fdOf
                 /\ sockets' = [sockets EXCEPT ![e.fd] = IF close THEN NoContext ELSE o.ctx]
                 /\ interest' = [interest EXCEPT ![e.fd] = IF close THEN {}
                                    ELSE IF o.events # {"HUP"} /\ o.next # e.events THEN o.next ELSE @]
event_loop == ~stopped /\ \E e \in batch : /\ Accept(e) \/ Handle(e)
                                           /\ batch' = batch \ {e} /\ UNCHANGED <<stopped, module>>

\* The kernel module: SIGTERM ends do_epoll_wait; what the context table holds is closed
Exit ==
    /\ module /\ ~stopped /\ batch = {} /\ stopped' = TRUE
    /\ net' = [c \in Conns |-> IF \E f \in Fds : fdOf[f] = c /\ sockets[f].socket
                               THEN [net[c] EXCEPT !.st = "closed"] ELSE net[c]]
    /\ fdOf' = [f \in Fds |-> IF sockets[f].socket THEN "none" ELSE fdOf[f]]
    /\ interest' = [f \in Fds |-> {}] /\ sockets' = [f \in Fds |-> NoContext] /\ UNCHANGED <<batch, module>>

Server == epoll_wait \/ event_loop
Next == (\E c \in Conns : Client(c)) \/ Server \/ Exit
Spec == Init /\ [][Next]_webVars /\ WF_webVars(Server)

\* assert(client_context->responses != 0) in the EPOLLOUT branch: writability is only ever
\* asked for, and only ever handled, while a response is owed.
OutMeansPending == \A e \in batch : "OUT" \in e.events => sockets[e.fd].responses # 0

\* "1:1 response to request": on an open connection the responses sent and still owed are
\* the complete requests read so far, however the requests were cut into reads and
\* whoever had the descriptor before; only the module drops a connection, before it has
\* read anything from it; after the thread's exit no descriptor is left.
OneToOne ==
    /\ \A f \in Fds : fdOf[f] # "none" => LET c == net[fdOf[f]] IN
          /\ c.sent + sockets[f].responses = c.read \div PerRequest
          /\ sockets[f]._r_n = c.read % PerRequest
    /\ \A c \in Conns : net[c].st = "dropped" => module /\ net[c].read = 0
    /\ stopped => \A f \in Fds : fdOf[f] = "none"

\* Owed to a connection that its client half-closed: to be answered as far as it was
\* asked and then closed; to one that was reset: to be closed; unless the thread exits.
\* Nothing is owed to one that the module has dropped.
Owed == ~stopped /\ \E c \in Conns :
       \/ net[c].st = "open" /\ (net[c].fin \/ net[c].rst)
       \/ /\ net[c].st = "closed" /\ ~net[c].rst
          /\ net[c].buf > 0 \/ net[c].sent # net[c].read \div PerRequest
=============================================================================
