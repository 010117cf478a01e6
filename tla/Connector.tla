----------------------------- MODULE Connector -----------------------------
(***************************************************************************)
(* Connector::connect (net/fluent/include/network/Connector.h) and the     *)
(* continuation Client::connect hangs on it: a chain poll, cancelIf, then, *)
(* then of the client's looper that retries a non-blocking connect(2)      *)
(* until it succeeds or fails for good.  The kernel side (one socket, its  *)
(* handshake, what connect and getpeername answer) is the environment.     *)
(***************************************************************************)
EXTENDS Naturals

CONSTANTS Faults,   \* bound: failures of the network in one behaviour
          Hard      \* whether connect(2) may fail with an error that is not retried

VARIABLES sock,     \* the kernel's socket: "idle", "syn", "est" or a pending error
          err, reconnect, nextInstance,     \* the captured tuple
          stage,    \* the continuation of the chain whose event is next
          faults,   \* failures so far
          seen      \* history: sock when poll's functor answered true, and the hard error

connectorVars == <<sock, err, reconnect, nextInstance, stage, faults, seen>>

Retried == {"EINTR", "ENETUNREACH", "ETIMEDOUT"}
Pending == {"EINPROGRESS", "EISCONN", "EALREADY", "ECONNREFUSED"}
IsHard(e) == e \notin Retried \cup Pending \cup {"0"}

\* connect(2) on socket state s: the possible (error, new state) pairs.
ConnectCall(s) ==
    CASE s = "idle" -> {[e |-> "EINPROGRESS", s |-> "syn"]}
                       \cup (IF faults < Faults THEN {[e |-> "ENETUNREACH", s |-> "idle"]} ELSE {})
                       \cup (IF Hard THEN {[e |-> "EACCES", s |-> "idle"]} ELSE {})
      [] s = "syn"  -> {[e |-> "EALREADY", s |-> "syn"]}
      [] s = "est"  -> {[e |-> "0", s |-> "est"], [e |-> "EISCONN", s |-> "est"]}
      [] OTHER      -> {[e |-> s, s |-> "idle"]}

\* testFailed: getpeername(2)
TestFailed == IF sock = "est" THEN "0" ELSE "ENOTCONN"

----------------------------------------------------------------------------
\* The first connect, before the chain is built.
Init ==
    /\ faults = 0
    /\ \E r \in ConnectCall("idle") :
        /\ sock = r.s /\ err = r.e
        /\ seen = [sock |-> "none", hard |-> IsHard(r.e)]
    /\ reconnect = FALSE /\ nextInstance = FALSE
    /\ stage = "poll"

\* poll, reconnect set: a fresh socket if asked for, then connect again.
Again ==
    /\ stage = "poll" /\ reconnect
    /\ \E r \in ConnectCall(IF nextInstance THEN "idle" ELSE sock) :
        /\ sock' = r.s /\ err' = r.e
        /\ faults' = IF r.e = "ENETUNREACH" THEN faults + 1 ELSE faults
        /\ stage' = IF r.e = "0" THEN "cancelIf" ELSE "poll"
        /\ seen' = [sock |-> IF r.e = "0" THEN r.s ELSE seen.sock,
                    hard |-> seen.hard \/ IsHard(r.e)]
    /\ reconnect' = FALSE /\ nextInstance' = FALSE

\* poll, otherwise: switch(err)
Probe ==
    /\ stage = "poll" /\ ~reconnect
    /\ \/ /\ err \in Retried
          /\ nextInstance' = TRUE /\ reconnect' = TRUE
          /\ UNCHANGED <<err, stage, seen>>
       \/ /\ err \in Pending
          /\ err' = TestFailed
          /\ reconnect' = (TestFailed # "0")
          /\ stage' = IF TestFailed = "0" THEN "cancelIf" ELSE "poll"
          /\ seen' = IF TestFailed = "0" THEN [seen EXCEPT !.sock = sock] ELSE seen
          /\ UNCHANGED nextInstance
       \/ /\ err \notin Retried \cup Pending
          /\ stage' = "cancelIf" /\ seen' = [seen EXCEPT !.sock = sock]
          /\ UNCHANGED <<err, reconnect, nextInstance>>
    /\ UNCHANGED <<sock, faults>>

\* cancelIf: an error ends the chain, nothing after it runs.
CancelIf ==
    /\ stage = "cancelIf"
    /\ stage' = IF err = "0" THEN "pair" ELSE "cancelled"
    /\ UNCHANGED <<sock, err, reconnect, nextInstance, faults, seen>>

\* then: hand the socket over; Client's then: make the context.
MakePair ==
    /\ stage = "pair" /\ stage' = "client"
    /\ UNCHANGED <<sock, err, reconnect, nextInstance, faults, seen>>
ClientContext ==
    /\ stage = "client" /\ stage' = "context"
    /\ UNCHANGED <<sock, err, reconnect, nextInstance, faults, seen>>

\* The network: the handshake completes or fails.
Established ==
    /\ sock = "syn" /\ sock' = "est"
    /\ UNCHANGED <<err, reconnect, nextInstance, stage, faults, seen>>
Fails ==
    /\ sock \in {"syn", "est"} /\ faults < Faults
    /\ \E e \in {"ECONNREFUSED", "ETIMEDOUT", "ECONNRESET"} :
        sock' = e /\ (e = "ECONNRESET" <=> sock = "est")
    /\ faults' = faults + 1
    /\ UNCHANGED <<err, reconnect, nextInstance, stage, seen>>

Looper == Again \/ Probe \/ CancelIf \/ MakePair \/ ClientContext
Next == Looper \/ Established \/ Fails
Fairness == WF_connectorVars(Looper) /\ WF_connectorVars(Established)
Spec == Init /\ [][Next]_connectorVars /\ Fairness

\* A context is made only for a socket that was connected when the poll
\* settled, and the chain is cancelled only after connect(2) gave an error that is not
\* retried: a refusal, a timeout or an unreachable network never ends it.
ContextConnected ==
    /\ stage \in {"pair", "client", "context"} => seen.sock = "est"
    /\ stage = "cancelled" => seen.hard

\* Owed once the network stops failing: that connect() ends, with a context or
\* cancelled.
Owed == stage \notin {"context", "cancelled"}
=============================================================================
