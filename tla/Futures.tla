------------------------------ MODULE Futures ------------------------------
(***************************************************************************)
(* Promises and futures of fluent, net/fluent/include/future: control      *)
(* blocks, the continuations then / poll / cancelIf / wait hang on them,   *)
(* whenAll and whenN built from those, and the Looper that runs posted     *)
(* continuations.  Everything happens on one thread, but in any order: the *)
(* program attaches, sets and cancels between two events and, from inside  *)
(* a callback, in the middle of one.                                       *)
(*                                                                         *)
(* Values are symbolic: [by, at, of] says which step produced a value,     *)
(* for which block, from which values.  A moved-from object is Moved.      *)
(***************************************************************************)
EXTENDS Naturals, Sequences, FiniteSets, SequencesExt

CONSTANTS Blocks,   \* bound: control blocks ever made
          Single,   \* bound: control blocks up to which they are made one at a time
          Roots,    \* bound: promises made by the program itself
          Takes,    \* how functors take their argument: "ref" (T&), "value" (T), "rvalue" (T&&)
          Counts,   \* counts given to poll(count, f) and wait(count, ...)
          Early     \* bound: rounds a wait may find its duration not yet over

VARIABLES blk,      \* the control blocks, in order of creation
          mq,       \* Looper::_mq, the block whose continuation each event runs
          last,     \* the block of Looper::_lastEvent while it runs, 0 between events
          n         \* events left in this Looper::loop()

vars == <<blk, mq, last, n>>

None == [op |-> "none"]
Val(by, at, of) == [by |-> by, at |-> at, of |-> of]
Moved == Val("moved", 0, <<>>)

\* ControlBlock<T>; from, calls and count are history: how the block came about
\* and how often the functor of the continuation hung on it has been called.
Block(state, value, from) ==
    [state |-> state, value |-> value, then |-> None, from |-> from, calls |-> 0]
From(op, src, count) == [op |-> op, src |-> src, count |-> count]
Root == From("root", <<>>, 0)

\* The closure a combinator stores in _then: what it does, the promise it owns,
\* how it takes the value, and its mutable captures.
Then(op, to, takes, left, q) ==
    [op |-> op, to |-> to, takes |-> takes, left |-> left, age |-> 0, q |-> q]

HasValue(B, b) == B[b].state \in {"READY", "POSTED", "DONE"}

----------------------------------------------------------------------------
\* Promise::setValue and Promise::postRequest on block d: the new blocks.
SetValue(B, d, v) ==
    IF B[d].state = "NEW"
    THEN [B EXCEPT ![d].value = v,
                   ![d].state = IF B[d].then = None THEN "READY" ELSE "POSTED"]
    ELSE B

\* The event setValue posts: only a NEW block with a continuation posts one.
PostedBy(B, d) ==
    IF B[d].state = "NEW" /\ B[d].then # None THEN <<d>> ELSE <<>>

\* then(), poll(), cancelIf(): the promise for the result is block Len(B)+1.
\* A continuation hung on a READY block is posted at once; on a cancelled one
\* the new promise is cancelled; otherwise the promise is dropped unset.
Attach(B, b, op, takes, left, q, from) ==
    LET d == Len(B) + 1
        B1 == Append(B, Block(IF B[b].state = "CANCEL" THEN "CANCEL" ELSE "NEW", Moved, from))
    IN  CASE B[b].state = "NEW" ->
                 [B1 EXCEPT ![b].then = Then(op, d, takes, left, q)]
          [] B[b].state = "READY" ->
                 [B1 EXCEPT ![b].then = Then(op, d, takes, left, q), ![b].state = "POSTED"]
          [] OTHER -> B1

AttachPosts(B, b) == IF B[b].state = "READY" THEN <<b>> ELSE <<>>

----------------------------------------------------------------------------
\* Each operator below is the event of block b: what the closure in _then does
\* once its functor has answered, and `_state = DONE` after it.  Its result is
\* the new blocks and the events posted.
Called(B, b) ==     \* f(std::forward<ForwardType>(value)): only T& leaves the value alone
    [B EXCEPT ![b].calls = @ + 1, ![b].value = IF B[b].then.takes = "ref" THEN @ ELSE Moved]
Settle(B, b, v) ==
    LET d == B[b].then.to
    IN  [blk |-> [SetValue(B, d, v) EXCEPT ![b].state = "DONE"], post |-> PostedBy(B, d)]
Yield(B, b) == [blk |-> [B EXCEPT ![b].state = "DONE"], post |-> <<b>>]

ThenRuns(B, b) == Settle(Called(B, b), b, Val("then", B[b].then.to, <<B[b].value>>))

PollRuns(B, b, yes) ==
    LET X == Called(B, b)
    IN  CASE B[b].then.left = 0 -> Settle(B, b, B[b].value)
          [] B[b].then.left > 0 /\ yes -> Settle(X, b, X[b].value)
          [] OTHER -> Yield([X EXCEPT ![b].then.left = @ - 1], b)

CancelIfRuns(B, b, yes) ==
    LET X == Called(B, b)
    IN  IF yes THEN [blk |-> [X EXCEPT ![B[b].then.to].state = "CANCEL", ![b].state = "DONE"],
                     post |-> <<>>]
               ELSE Settle(X, b, X[b].value)

\* wait(count, duration, f): f runs each time the duration has elapsed.
\* mutant: the count is tested before it is counted down
WaitRunsOnceMore(B, b, due) ==
    LET left == B[b].then.left
    IN  CASE left = 0 /\ due -> Settle(Called(B, b), b, B[b].value)
          [] left > 0 /\ due -> Yield([Called(B, b) EXCEPT ![b].then.left = @ - 1, ![b].then.age = 0], b)
          [] OTHER -> Yield([B EXCEPT ![b].then.age = @ + 1], b)
WaitRuns(B, b, due) ==
    LET left == B[b].then.left
    IN  CASE left = 0 -> Settle(B, b, B[b].value)
          [] left = 1 /\ due -> Settle(Called(B, b), b, B[b].value)
          [] left > 1 /\ due -> Yield([Called(B, b) EXCEPT ![b].then.left = @ - 1, ![b].then.age = 0], b)
          [] OTHER -> Yield([B EXCEPT ![b].then.age = @ + 1], b)

\* whenAllTemplate: once every input has a value, copy the values; the
\* continuation moves the copies out.
AllRuns(B, b) ==
    LET q == B[b].then.q
        w == Val("bind", 0, [i \in 1..Len(q) |-> B[q[i]].value])
    IN  IF \A i \in 1..Len(q) : HasValue(B, q[i]) THEN Settle([B EXCEPT ![b].value = w], b, w)
                                                  ELSE Yield(B, b)
TakeRuns(B, b) == Settle(Called(B, b), b, Val("all", 0, B[b].value.of))

\* whenNTemplate: from the back, take inputs that have a value until none
\* remains to be taken; the others stay for the next round, reversed.
TakeReady(B, c) ==
    FoldRight(LAMBDA x, acc :
                CASE acc.left = 0 -> acc
                  [] acc.left > 0 /\ HasValue(B, x.b) ->
                        [acc EXCEPT !.left = @ - 1, !.res = Append(@, Val("at", x.i, <<B[x.b].value>>))]
                  [] OTHER -> [acc EXCEPT !.rest = Append(@, x)],
              c.q, [left |-> c.left, res |-> <<>>, rest |-> <<>>])
NRuns(B, b) ==
    LET t == TakeReady(B, B[b].then)
        w == Val("bind", 0, B[b].value.of \o t.res)
        X == [B EXCEPT ![b].value = w, ![b].then.left = t.left, ![b].then.q = t.rest]
    IN  IF t.left = 0 THEN Settle(X, b, w) ELSE Yield(X, b)
SortByIndex(res) == SortSeq(res, LAMBDA x, y : x.at < y.at)
SortRuns(B, b) == Settle(Called(B, b), b, Val("all", 0, SortByIndex(B[b].value.of)))

----------------------------------------------------------------------------
Init == blk = <<>> /\ mq = <<>> /\ last = 0 /\ n = 0

\* A future with no continuation yet.  The program hangs at most one on each.
Free(b) == blk[b].then = None /\ blk[b].state # "DEAD"

\* Promise<T> promise(looper)
NewPromise ==
    /\ Len(blk) < Single
    /\ Cardinality({b \in 1..Len(blk) : blk[b].from.op = "root"}) < Roots
    /\ blk' = Append(blk, Block("NEW", Moved, Root))
    /\ UNCHANGED <<mq, last, n>>

\* The program keeps a promise's promise to be set once.
ProgramSets(b) ==
    /\ blk[b].from.op = "root" /\ blk[b].state \in {"NEW", "CANCEL"}
    /\ blk' = SetValue(blk, b, Val("set", b, <<>>))
    /\ mq' = mq \o PostedBy(blk, b)
    /\ UNCHANGED <<last, n>>

ProgramCancels(b) ==
    /\ blk[b].from.op = "root" /\ blk[b].state # "CANCEL"
    /\ blk' = [blk EXCEPT ![b].state = "CANCEL"]
    /\ UNCHANGED <<mq, last, n>>

\* Future::get() of a future that hasResult() and nobody else waits for.
Get(b) ==
    /\ blk[b].state = "READY" /\ blk[b].then = None
    /\ \A d \in 1..Len(blk) : b \notin Range(blk[d].from.src)
    /\ blk' = [blk EXCEPT ![b].value = Moved, ![b].state = "DEAD"]
    /\ UNCHANGED <<mq, last, n>>

Chain(b, op, takes, count) ==
    /\ Len(blk) < Single /\ Free(b)
    /\ blk' = Attach(blk, b, op, takes, count, <<>>, From(op, <<b>>, count))
    /\ mq' = mq \o AttachPosts(blk, b)
    /\ UNCHANGED <<last, n>>

\* whenAll / whenN: makeTupleFuture(...).poll(...).then(...)
Join(op, ins, count) ==
    LET t == Len(blk) + 1
        q == IF op = "n" THEN [i \in 1..Len(ins) |-> [i |-> i, b |-> ins[i]]] ELSE ins
        B1 == Append(blk, Block("READY", Val("bind", 0, <<>>), From("tuple", <<>>, 0)))
        B2 == Attach(B1, t, op, "ref", count, q, From("bind", <<>>, 0))
        B3 == Attach(B2, t + 1, IF op = "n" THEN "sort" ELSE "take", "rvalue", 0, <<>>,
                     From(op, ins, count))
    IN  /\ Len(blk) + 3 <= Blocks
        /\ blk' = B3
        /\ mq' = Append(mq, t)
        /\ UNCHANGED <<last, n>>

\* Looper::loop: exactly the events that are in the queue now.
Loop ==
    /\ last = 0 /\ n = 0 /\ mq # <<>>
    /\ n' = Len(mq)
    /\ UNCHANGED <<blk, mq, last>>

\* loopOnceUnchecked: take the front event; its functor starts ...
Begin ==
    /\ last = 0 /\ n > 0
    /\ last' = Head(mq) /\ mq' = Tail(mq)
    /\ UNCHANGED <<blk, n>>

\* ... and ends, the program having done anything in between.
Finish ==
    /\ last # 0
    /\ LET op == blk[last].then.op
           may == CASE op = "then" -> {ThenRuns(blk, last)}
                [] op = "poll" -> {PollRuns(blk, last, yes) : yes \in BOOLEAN}
                [] op = "cancelIf" -> {CancelIfRuns(blk, last, yes) : yes \in BOOLEAN}
                [] op = "wait" -> {WaitRuns(blk, last, due) : due \in {blk[last].then.age = Early, TRUE}}
                [] op = "all" -> {AllRuns(blk, last)}
                [] op = "take" -> {TakeRuns(blk, last)}
                [] op = "n" -> {NRuns(blk, last)}
                [] op = "sort" -> {SortRuns(blk, last)}
       IN  \E r \in may : blk' = r.blk /\ mq' = mq \o r.post
    /\ last' = 0 /\ n' = n - 1

\* User code runs in a callback or outside loop(), never between two events of
\* one loop().
Program ==
    /\ last # 0 \/ n = 0
    /\ \/ NewPromise
       \/ \E b \in 1..Len(blk) :
            \/ ProgramSets(b)
            \/ ProgramCancels(b)
            \/ Get(b)
            \/ \E t \in Takes : Chain(b, "then", t, 0) \/ Chain(b, "cancelIf", t, 0)
            \/ \E t \in Takes, k \in Counts : Chain(b, "poll", t, k)
            \/ \E k \in Counts : Chain(b, "wait", "ref", k)
       \/ \E a, b \in 1..Len(blk) :
            /\ a < b /\ {blk[a].state, blk[b].state} \cap {"DEAD"} = {}
            /\ {blk[a].from.op, blk[b].from.op} \cap {"tuple", "bind"} = {}
            /\ Join("all", <<a, b>>, 0) \/ \E k \in 1..2 : Join("n", <<a, b>>, k)

Looper == Loop \/ Begin \/ Finish
Next == Program \/ Looper
Spec == Init /\ [][Next]_vars /\ WF_vars(Looper)

----------------------------------------------------------------------------
\* The value block b stands for, by the expression it was built from.
Denote[b \in 1..Blocks] ==
    LET f == blk[b].from
    IN  CASE f.op = "root" -> Val("set", b, <<>>)
          [] f.op = "then" -> Val("then", b, <<Denote[f.src[1]]>>)
          [] f.op \in {"poll", "cancelIf", "wait"} -> Denote[f.src[1]]
          [] f.op = "all" -> Val("all", 0, [i \in 1..Len(f.src) |-> Denote[f.src[i]]])
          [] OTHER -> Moved

\* A whenN result: n inputs, each at its own index, in index order.
NResult(b) ==
    LET f == blk[b].from
        r == blk[b].value.of
    IN  /\ Len(r) = f.count
        /\ \A i \in 1..Len(r) : r[i].of = <<Denote[f.src[r[i].at]]>>
        /\ \A i, j \in 1..Len(r) : i < j => r[i].at < r[j].at

\* In whatever order continuations are attached, values set, promises
\* cancelled and events run, a future that has a value holds the value of the
\* expression it was built from; a wait has called its functor exactly count
\* times by then and a poll at most count times; and no continuation finds
\* its promise already set (setValue would throw).
FutureValues ==
    /\ \A b \in 1..Len(blk) :
        HasValue(blk, b) /\ blk[b].from.op \notin {"tuple", "bind"} =>
            /\ IF blk[b].from.op = "n" THEN NResult(b) ELSE blk[b].value = Denote[b]
            /\ blk[b].from.op = "wait" => blk[blk[b].from.src[1]].calls = blk[b].from.count
            /\ blk[b].from.op = "poll" => blk[blk[b].from.src[1]].calls <= blk[b].from.count
    /\ last # 0 => blk[blk[last].then.to].state \in {"NEW", "CANCEL"}

\* Nothing that was hung on a future is forgotten or run twice: from the moment
\* a future with a continuation has its value until that continuation has
\* settled its own promise, exactly one event for it is queued or running,
\* however often polls yield; before and after there is none.
ContinuationQueued ==
    \A b \in 1..Len(blk) :
        LET events == Cardinality({i \in 1..Len(mq) : mq[i] = b}) + (IF last = b THEN 1 ELSE 0)
        IN  IF blk[b].then = None THEN events = 0
            ELSE /\ events <= 1
                 /\ blk[b].state = "NEW" => events = 0
                 /\ HasValue(blk, b) => (events = 1 <=> blk[blk[b].then.to].state = "NEW")

=============================================================================
