----------------------------- MODULE UringEcho -----------------------------
(***************************************************************************)
(* The callback echo server of liburing/echo.cpp: one thread turns each     *)
(* completion into the next operation, with one buffer per descriptor in    *)
(* buf_map.  Descriptors are reused as soon as the kernel has closed them,  *)
(* completions arrive in any order, reads return any non-empty prefix of    *)
(* what has arrived.  A failed accept, read or write ends the process.      *)
(***************************************************************************)
EXTENDS Naturals, Sequences, FiniteSets, Functions

CONSTANTS
    Conns,   \* the clients
    Fds,     \* the descriptors accept can return
    Texts,   \* what a client may send: a sequence of "t" and "Zz-"
    Failures \* may an accept fail, and a client reset its connection?

VARIABLES
    text,    \* text[c]: what c sends in all
    sent,    \* sent[c]: how much of it has arrived in the socket
    taken,   \* taken[c]: how much the server has read
    echoed,  \* echoed[c]: what came back
    state,   \* state[c]: "new", "backlog", "open", "eof", "reset", "closed"
    fd,      \* fd[c]: its descriptor, 0 for none
    ops,     \* operations in the kernel: <<op, fd>>
    cq,      \* completions: [op, fd, res], res = 0 end of file, 1 data, 2 failure
    buf,     \* buf_map: descriptor -> the text in its buffer
    up       \* is the process running?

vars == <<text, sent, taken, echoed, state, fd, ops, cq, buf, up>>
net == <<text, sent, taken, echoed, state, fd>>

Accept == <<"ACCEPT", 0>>
Owner(f) == CHOOSE c \in Conns : fd[c] = f

Init ==
    /\ text \in [Conns -> Texts]
    /\ sent = [c \in Conns |-> 0] /\ taken = sent
    /\ echoed = [c \in Conns |-> <<>>]
    /\ state = [c \in Conns |-> "new"]
    /\ fd = [c \in Conns |-> 0]
    /\ ops = {Accept} /\ cq = <<>> /\ buf = <<>> /\ up = TRUE

-----------------------------------------------------------------------------
(* The clients and the kernel.                                              *)

Connect(c) ==
    /\ state[c] = "new"
    /\ state' = [state EXCEPT ![c] = "backlog"]
    /\ UNCHANGED <<text, sent, taken, echoed, fd, ops, cq, buf, up>>

Send(c) ==
    /\ state[c] = "open" /\ sent[c] < Len(text[c])
    /\ sent' = [sent EXCEPT ![c] = @ + 1]
    /\ UNCHANGED <<text, taken, echoed, state, fd, ops, cq, buf, up>>

Finish(c) ==
    /\ state[c] = "open"
    /\ state' = [state EXCEPT ![c] = IF sent[c] = Len(text[c]) THEN "eof" ELSE "reset"]
    /\ sent[c] < Len(text[c]) => Failures
    /\ UNCHANGED <<text, sent, taken, echoed, fd, ops, cq, buf, up>>

Complete(o, res) ==
    /\ up /\ o \in ops
    /\ ops' = ops \ {o}
    /\ cq' = Append(cq, [op |-> o[1], fd |-> o[2], res |-> res])

Free == {f \in Fds : \A c \in Conns : fd[c] # f}

DoAccept(c, f) ==
    /\ up /\ Accept \in ops
    /\ state[c] = "backlog" /\ f \in Free /\ \A g \in Free : f <= g
    /\ ops' = ops \ {Accept}
    /\ cq' = Append(cq, [op |-> "ACCEPT", fd |-> f, res |-> 1])
    /\ fd' = [fd EXCEPT ![c] = f]
    /\ state' = [state EXCEPT ![c] = "open"]
    /\ UNCHANGED <<text, sent, taken, echoed, buf, up>>

\* ECONNABORTED, EMFILE ...
RefuseAccept(c) ==
    /\ Failures /\ state[c] = "backlog" /\ Complete(Accept, 2)
    /\ UNCHANGED <<text, sent, taken, echoed, state, fd, buf, up>>

DoRead(f) ==
    /\ <<"READ", f>> \in ops
    /\ LET c == Owner(f) IN
       \/ \E n \in (taken[c] + 1)..sent[c] :
            /\ state[c] # "reset"
            /\ buf' = [buf EXCEPT ![f] = SubSeq(text[c], taken[c] + 1, n)]
            /\ taken' = [taken EXCEPT ![c] = n]
            /\ Complete(<<"READ", f>>, 1)
       \/ /\ state[c] = "eof" /\ taken[c] = sent[c]
          /\ Complete(<<"READ", f>>, 0)
          /\ UNCHANGED <<buf, taken>>
       \/ /\ state[c] = "reset"
          /\ Complete(<<"READ", f>>, 2)
          /\ UNCHANGED <<buf, taken>>
    /\ UNCHANGED <<text, sent, echoed, state, fd, up>>

\* A write of n = 0 bytes is the answer to the end of file.
DoWrite(f, n) ==
    /\ <<"WRITE", f, n>> \in ops
    /\ LET c == Owner(f) IN
       IF state[c] = "reset"
       THEN Complete(<<"WRITE", f, n>>, 2) /\ echoed' = echoed
       ELSE /\ Complete(<<"WRITE", f, n>>, n)
            /\ echoed' = [echoed EXCEPT ![c] = IF n = 0 THEN @ ELSE @ \o buf[f]]
    /\ UNCHANGED <<text, sent, taken, state, fd, buf, up>>

DoClose(f) ==
    /\ Complete(<<"CLOSE", f>>, 0)
    /\ fd' = [fd EXCEPT ![Owner(f)] = 0]
    /\ state' = [state EXCEPT ![Owner(f)] = "closed"]
    /\ UNCHANGED <<text, sent, taken, echoed, buf, up>>

-----------------------------------------------------------------------------
(* main's loop: the handler of the oldest completion.                       *)

Handler(op) == up /\ cq # <<>> /\ Head(cq).op = op
Seen == cq' = Tail(cq) /\ UNCHANGED net
Erase(f) == [g \in DOMAIN buf \ {f} |-> buf[g]]
With(f, b) == [g \in DOMAIN buf \cup {f} |-> IF g = f THEN b ELSE buf[g]]

\* nofail calls std::terminate.
Failed == Head(cq).res = 2
Terminate ==
    /\ up /\ cq # <<>> /\ Failed
    /\ up' = FALSE /\ Seen
    /\ UNCHANGED <<ops, buf>>

Reaccept == {Accept}

OnAccept ==
    /\ Handler("ACCEPT") /\ ~Failed /\ Seen
    /\ LET f == Head(cq).fd IN
       /\ buf' = IF f \in DOMAIN buf THEN buf ELSE With(f, <<>>)
       /\ ops' = ops \cup {<<"READ", f>>} \cup Reaccept
    /\ UNCHANGED up

\* mutant: the next read is issued together with the write
ReadIssues_early(f, n) == {<<"WRITE", f, n>>, <<"READ", f>>}
ReadIssues(f, n) == {<<"WRITE", f, n>>}

OnRead ==
    /\ Handler("READ") /\ ~Failed /\ Seen
    /\ ops' = ops \cup ReadIssues(Head(cq).fd, Head(cq).res)
    /\ UNCHANGED <<buf, up>>

\* close_reactive: nothing written; close_proactive: the buffer begins "Zz".
OnWrite ==
    /\ Handler("WRITE") /\ ~Failed /\ Seen
    /\ LET f == Head(cq).fd
           close == Head(cq).res = 0 \/ buf[f][1] = "Zz-"
       IN  /\ ops' = ops \cup {<<IF close THEN "CLOSE" ELSE "READ", f>>}
           /\ buf' = IF close THEN Erase(f) ELSE buf
    /\ UNCHANGED up

\* handlers[OP_CLOSE] is empty: the completion is only marked seen.
OnClose ==
    /\ Handler("CLOSE") /\ Seen
    /\ UNCHANGED <<ops, buf, up>>

\* What the kernel does for descriptor f and for a waiting client, and what a
\* connected client does.
Operate(f) == DoRead(f) \/ DoClose(f) \/ DoWrite(f, 0) \/ DoWrite(f, 1)
Accepted(c) == RefuseAccept(c) \/ \E f \in Fds : DoAccept(c, f)
GoOn(c) == Send(c) \/ Finish(c)
Loop == Terminate \/ OnAccept \/ OnRead \/ OnWrite \/ OnClose
Next == Loop \/ (\E f \in Fds : Operate(f)) \/ \E c \in Conns : Connect(c) \/ Accepted(c) \/ GoOn(c)

\* The kernel completes what can complete and accepts who waits, the loop takes what has
\* completed, and a client that is connected goes on to send and to finish.
Spec ==
    /\ Init /\ [][Next]_vars
    /\ WF_vars(Loop) /\ \A f \in Fds : WF_vars(Operate(f))
    /\ \A c \in Conns : WF_vars(GoOn(c)) /\ SF_vars(Accepted(c))

-----------------------------------------------------------------------------
Busy(f) == {o \in ops : o[2] = f}
Done(f) == SelectSeq(cq, LAMBDA e : e.fd = f /\ e.op # "CLOSE")

\* Every client gets back a prefix of what it sent, in order and from its own
\* buffer, although descriptors and buf_map entries are reused; while a read or
\* write is in flight on a buffer it is the only operation on its descriptor
\* and the buffer is still in buf_map; one accept is outstanding at any time.
EchoExact ==
    /\ \A c \in Conns : /\ Len(echoed[c]) <= Len(text[c])
                         /\ echoed[c] = SubSeq(text[c], 1, Len(echoed[c]))
    /\ up => \A f \in Fds :
         /\ Cardinality(Busy(f)) + Len(Done(f)) <= 1
         /\ \A o \in Busy(f) : o[1] \in {"READ", "WRITE"} => f \in DOMAIN buf
    /\ up => Cardinality({o \in ops : o = Accept})
             + Len(SelectSeq(cq, LAMBDA e : e.op = "ACCEPT")) = 1

\* Owed to a client that connected: it is accepted, served to its end and closed,
\* with all it sent echoed unless it said "Zz-", or else the server goes down.
Owed == up /\ \E c \in Conns :
    /\ state[c] # "new"
    /\ state[c] = "closed" => echoed[c] # text[c] /\ "Zz-" \notin Range(text[c])
============================================================================
