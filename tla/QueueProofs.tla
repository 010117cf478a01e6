----------------------------- MODULE QueueProofs -----------------------------
(***************************************************************************)
(* Proofs about the queues of Concurrency/: Queue loses no wakeup and      *)
(* keeps its order; Fifo is a queue of capacity SIZE - 1 without a data    *)
(* race; Queue_v2 is a queue, and its two mutexes protect separate nodes.  *)
(* The logger of net/fluent writes what was applied, in order.  They hold  *)
(* for any number of threads and elements, any ring and any buffers.       *)
(***************************************************************************)
EXTENDS Queues, TLAPS

USE SMTT(30)

\* What the proofs need to know about finite sets and about sequences of different
\* numbers; the library's theorems are brought in where this is shown (Counted), at
\* the end.
Counting ==
    /\ \A S : IsFiniteSet(S) => Cardinality(S) \in Nat
    /\ \A S : \A T \in SUBSET S : IsFiniteSet(S) => IsFiniteSet(T)
    /\ \A S, x : IsFiniteSet(S) /\ x \notin S => Cardinality(S \cup {x}) = Cardinality(S) + 1
    /\ \A S, x : IsFiniteSet(S) /\ x \in S => Cardinality(S \ {x}) = Cardinality(S) - 1
    /\ \A s : \A k, top \in Nat :
        (\A i \in 1 .. k : s[i] \in 0 .. top) /\ (\A i, j \in 1 .. k : s[i] = s[j] => i = j)
            => k <= top + 1

\* A sequence is the function of its elements.
LEMMA SeqIsFunction == ASSUME NEW S, NEW s \in Seq(S) PROVE s = [i \in 1 .. Len(s) |-> s[i]]
OBVIOUS

LEMMA SeqElements == ASSUME NEW S, NEW s \in Seq(S) PROVE Len(s) \in Nat /\ \A i \in 1 .. Len(s) : s[i] \in S
OBVIOUS

-----------------------------------------------------------------------------
(***************************************************************************)
(* Queue_v2.  Who is inside a mutex follows from the places of the         *)
(* threads; a node belongs to the chain or to one thread, which is about   *)
(* to append it or has detached it; the list differs from what a queue     *)
(* should be only in the dummy, which a push fills before it appends.      *)
(***************************************************************************)
AtTail == {"push_data", "push_next", "push_tail"}
AtHead == {"pop_tail", "pop_compare", "pop_move"}
Apart == {"push_lock", "push_data", "push_next", "push_tail", "pop_data"}

V2Types ==
    /\ v2Pushes \in 0 .. V2_PUSHES
    /\ data \in [0 .. V2_PUSHES -> Int] /\ next \in [0 .. V2_PUSHES -> Int]
    /\ pc \in [Thread -> {"idle", "push_lock", "push_data", "push_next", "push_tail",
                          "pop_lock", "pop_tail", "pop_compare", "pop_move", "pop_data"}]
    /\ node \in [Thread -> Int] /\ copy \in [Thread -> Int]
    /\ chain \in Seq(0 .. V2_PUSHES)

Mutexes ==
    \A t \in Thread : (pc[t] \in AtTail <=> tailMutex = t) /\ (pc[t] \in AtHead <=> headMutex = t)

\* The nodes of the chain were made, and all but the dummy have an element.
Filled ==
    /\ \A i \in 1 .. Len(chain) : chain[i] <= v2Pushes
    /\ \A i \in 1 .. Len(chain) - 1 : data[chain[i]] \in 1 .. V2_PUSHES

\* A thread that appends or has detached a node has it for itself.
OwnNodes ==
    \A t \in Thread : pc[t] \in Apart =>
        /\ node[t] \in 0 .. v2Pushes
        /\ \A i \in 1 .. Len(chain) : chain[i] # node[t]
        /\ \A u \in Thread : u # t /\ pc[u] \in Apart => node[u] # node[t]

\* How far a push has come.
PushDone ==
    \A t \in Thread :
        /\ pc[t] \in AtTail \cup {"push_lock"} => node[t] > 0
        /\ pc[t] \in {"push_next", "push_tail"} => data[tail] = node[t]
        /\ pc[t] = "push_tail" => next[tail] = node[t]

\* What a pop knows: its copy of _tail is in the chain, so a different _head is not the
\* dummy.
PopKnows ==
    \A t \in Thread :
        /\ pc[t] = "pop_compare" => \E i \in 1 .. Len(chain) : copy[t] = chain[i]
        /\ pc[t] = "pop_move" => node[t] = head /\ Len(chain) > 1

V2Inv == V2Types /\ Mutexes /\ V2!ChainLinked /\ Filled /\ OwnNodes /\ PushDone /\ PopKnows

\* What appending and taking the first element do to a sequence.
LEMMA AppendIs ==
    ASSUME NEW S, NEW s \in Seq(S), NEW x \in S
    PROVE  /\ Append(s, x) \in Seq(S) /\ Len(Append(s, x)) = Len(s) + 1
           /\ \A i \in 1 .. Len(s) + 1 : Append(s, x)[i] = IF i <= Len(s) THEN s[i] ELSE x
OBVIOUS

LEMMA TailIs ==
    ASSUME NEW S, NEW s \in Seq(S), s # <<>>
    PROVE  /\ Tail(s) \in Seq(S) /\ Len(Tail(s)) = Len(s) - 1
           /\ \A i \in 1 .. Len(s) - 1 : Tail(s)[i] = s[i + 1]
OBVIOUS

LEMMA ExceptIs == ASSUME NEW S, NEW T, NEW f \in [S -> T], NEW x, NEW y \in T PROVE [f EXCEPT ![x] = y] \in [S -> T]
BY ZenonT(30)

\* What everybody needs to know about the chain.
LEMMA ChainFacts ==
    ASSUME V2Inv
    PROVE  /\ Len(chain) \in Nat /\ Len(chain) >= 1
           /\ \A i \in 1 .. Len(chain) : chain[i] \in 0 .. V2_PUSHES
           /\ head = chain[1] /\ tail = chain[Len(chain)]
           /\ head \in 0 .. V2_PUSHES /\ tail \in 0 .. V2_PUSHES
           /\ \A i, j \in 1 .. Len(chain) : chain[i] = chain[j] => i = j
<1>1. chain \in Seq(0 .. V2_PUSHES) /\ chain # <<>>
  BY DEF V2Inv, V2Types, V2!ChainLinked
<1>3. Len(chain) \in Nat /\ \A i \in 1 .. Len(chain) : chain[i] \in 0 .. V2_PUSHES
  BY <1>1, SeqElements, ZenonT(30)
<1>4. Len(chain) # 0
  BY <1>1
<1>2. Len(chain) \in Nat /\ Len(chain) >= 1 /\ \A i \in 1 .. Len(chain) : chain[i] \in 0 .. V2_PUSHES
  BY <1>3, <1>4
<1> QED
  BY <1>2 DEF V2Inv, V2!ChainLinked

LEMMA V2Init == ASSUME V2!Init PROVE V2Inv /\ V2!Contents = <<>>
<1>1. Len(chain) = 1 /\ chain[1] = 0 /\ chain # <<>> /\ chain \in Seq(0 .. V2_PUSHES)
  BY V2Assumption DEF V2!Init
<1>2. V2Types
  BY <1>1, V2Assumption DEF V2Types, V2!Init, V2!Node, V2!Null, AtTail, AtHead
<1>3. Mutexes
  BY V2Assumption DEF Mutexes, V2!Init, AtTail, AtHead
<1>4. V2!ChainLinked /\ Filled
  BY <1>1 DEF V2!ChainLinked, Filled, V2!Init
<1>5. OwnNodes /\ PushDone /\ PopKnows
  BY DEF OwnNodes, PushDone, PopKnows, V2!Init, Apart, AtTail
<1>6. V2!Contents = <<>>
  BY <1>1 DEF V2!Contents
<1> QED
  BY <1>2, <1>3, <1>4, <1>5, <1>6 DEF V2Inv

\* Steps that move only the thread itself.
LEMMA V2Waits ==
    ASSUME V2Inv, NEW t \in Thread, V2!PushLock(t) \/ V2!TryPop(t) \/ V2!PopLock(t)
    PROVE  V2Inv' /\ UNCHANGED V2!Contents
<1>0. /\ head' = head /\ tail' = tail /\ data' = data /\ next' = next /\ node' = node /\ copy' = copy
      /\ v2Pushes' = v2Pushes /\ chain' = chain
  BY DEF V2!PushLock, V2!TryPop, V2!PopLock
<1>1. V2!ChainLinked' /\ Filled' /\ UNCHANGED V2!Contents
  BY <1>0 DEF V2Inv, V2!ChainLinked, Filled, V2!Contents
<1>2. PICK l \in {"push_data", "pop_lock", "pop_tail"} :
        pc' = [pc EXCEPT ![t] = l] /\ \/ pc[t] = "push_lock" /\ l = "push_data"
                                      \/ pc[t] = "idle" /\ l = "pop_lock"
                                      \/ pc[t] = "pop_lock" /\ l = "pop_tail"
  BY DEF V2!PushLock, V2!TryPop, V2!PopLock, V2!Goto
<1>3. V2Types'
  BY <1>0, <1>2 DEF V2Inv, V2Types, AtTail, AtHead
<1>4. Mutexes'
  BY <1>2, V2Assumption
     DEF V2Inv, V2Types, Mutexes, AtTail, AtHead, V2!PushLock, V2!TryPop, V2!PopLock, V2!locks
<1>5. OwnNodes'
  BY <1>0, <1>2 DEF V2Inv, V2Types, OwnNodes, Apart
<1>6. PushDone' /\ PopKnows'
  BY <1>0, <1>2 DEF V2Inv, V2Types, PushDone, PopKnows, AtTail
<1> QED
  BY <1>1, <1>3, <1>4, <1>5, <1>6 DEF V2Inv

\* The new node has a number of its own.
LEMMA V2Allocates ==
    ASSUME V2Inv, NEW t \in Thread, V2!PushAllocate(t)
    PROVE  V2Inv' /\ UNCHANGED V2!Contents
<1>0. /\ head' = head /\ tail' = tail /\ data' = data /\ next' = next /\ copy' = copy /\ chain' = chain
      /\ v2Pushes' = v2Pushes + 1 /\ node' = [node EXCEPT ![t] = v2Pushes + 1]
      /\ pc' = [pc EXCEPT ![t] = "push_lock"] /\ pc[t] = "idle" /\ v2Pushes < V2_PUSHES
      /\ headMutex' = headMutex /\ tailMutex' = tailMutex
  BY DEF V2!PushAllocate, V2!Goto, V2!locks
<1>1. V2!ChainLinked' /\ UNCHANGED V2!Contents
  BY <1>0 DEF V2Inv, V2!ChainLinked, V2!Contents
<1>2. v2Pushes \in Nat /\ v2Pushes + 1 \in 0 .. V2_PUSHES
  BY <1>0, V2Assumption DEF V2Inv, V2Types
<1>3. Filled'
  BY <1>0, <1>2, ChainFacts DEF V2Inv, Filled
<1>4. V2Types'
  BY <1>0, <1>2 DEF V2Inv, V2Types
<1>5. Mutexes'
  BY <1>0 DEF V2Inv, V2Types, Mutexes, AtTail, AtHead
<1>6. OwnNodes'
  <2>1. \A i \in 1 .. Len(chain) : chain[i] # v2Pushes + 1
    BY <1>2, ChainFacts DEF V2Inv, Filled
  <2>2. \A u \in Thread : u # t => pc'[u] = pc[u] /\ node'[u] = node[u]
    BY <1>0 DEF V2Inv, V2Types
  <2>3. pc'[t] = "push_lock" /\ node'[t] = v2Pushes + 1
    BY <1>0 DEF V2Inv, V2Types
  <2>4. \A u \in Thread : u # t /\ pc[u] \in Apart => node[u] \in 0 .. v2Pushes + 1 /\ node[u] # v2Pushes + 1
    BY <1>2 DEF V2Inv, OwnNodes
  <2> QED
    BY <1>0, <1>2, <2>1, <2>2, <2>3, <2>4 DEF V2Inv, OwnNodes
<1>7. PushDone' /\ PopKnows'
  BY <1>0, <1>2 DEF V2Inv, V2Types, PushDone, PopKnows, AtTail
<1> QED
  BY <1>1, <1>3, <1>4, <1>5, <1>6, <1>7 DEF V2Inv

\* The writes of a push go to the dummy, whose fields are not part of the queue.
LEMMA V2Fills ==
    ASSUME V2Inv, NEW t \in Thread, V2!PushData(t) \/ V2!PushNext(t)
    PROVE  V2Inv' /\ UNCHANGED V2!Contents
<1>0. /\ head' = head /\ tail' = tail /\ copy' = copy /\ chain' = chain /\ node' = node
      /\ v2Pushes' = v2Pushes /\ headMutex' = headMutex /\ tailMutex' = tailMutex
  BY DEF V2!PushData, V2!PushNext, V2!locks
<1>1. tail \in 0 .. V2_PUSHES /\ \A i \in 1 .. Len(chain) - 1 : chain[i] # tail /\ chain[i] \in 0 .. V2_PUSHES
  BY ChainFacts
<1>2. \A n \in 0 .. V2_PUSHES : n # tail => data'[n] = data[n] /\ next'[n] = next[n]
  BY ZenonT(30) DEF V2!PushData, V2!PushNext, V2Inv, V2Types
<1>3. V2!ChainLinked'
  BY <1>0, <1>1, <1>2 DEF V2Inv, V2!ChainLinked
<1>4. Filled'
  BY <1>0, <1>1, <1>2 DEF V2Inv, Filled
<1>5. UNCHANGED V2!Contents
  BY <1>0, <1>1, <1>2 DEF V2!Contents
<1>6. PICK l \in {"push_next", "push_tail"} :
        pc' = [pc EXCEPT ![t] = l] /\ \/ pc[t] = "push_data" /\ l = "push_next"
                                      \/ pc[t] = "push_next" /\ l = "push_tail"
  BY DEF V2!PushData, V2!PushNext, V2!Goto
<1>7. V2Types'
  BY <1>0, <1>6 DEF V2Inv, V2Types, AtTail, V2!PushData, V2!PushNext
<1>8. Mutexes'
  BY <1>0, <1>6 DEF V2Inv, V2Types, Mutexes, AtTail, AtHead
<1>9. OwnNodes'
  BY <1>0, <1>6 DEF V2Inv, V2Types, OwnNodes, Apart
<1>10. PushDone'
  <2>1. \A u \in Thread : u # t => pc'[u] = pc[u] /\ pc[u] \notin AtTail
    BY <1>6 DEF V2Inv, V2Types, Mutexes, AtTail
  <2>2. CASE V2!PushData(t)
    BY <1>0, <1>1, <2>1, <2>2 DEF V2Inv, V2Types, PushDone, AtTail, V2!PushData, V2!Goto
  <2>3. CASE V2!PushNext(t)
    BY <1>0, <1>1, <2>1, <2>3 DEF V2Inv, V2Types, PushDone, AtTail, V2!PushNext, V2!Goto
  <2> QED
    BY <2>2, <2>3
<1>11. PopKnows'
  BY <1>0, <1>6 DEF V2Inv, V2Types, PopKnows
<1> QED
  BY <1>3, <1>4, <1>5, <1>7, <1>8, <1>9, <1>10, <1>11 DEF V2Inv

\* A pop that looks: at _tail, then at _head; and one that empties its detached node.
LEMMA V2Looks ==
    ASSUME V2Inv, NEW t \in Thread, V2!GetTailCopy(t) \/ V2!PopCompare(t)
    PROVE  V2Inv' /\ UNCHANGED V2!Contents
<1>0. /\ head' = head /\ tail' = tail /\ data' = data /\ next' = next
      /\ v2Pushes' = v2Pushes /\ chain' = chain /\ tailMutex' = tailMutex
  BY DEF V2!GetTailCopy, V2!PopCompare, V2!locks
<1>1. V2!ChainLinked' /\ Filled' /\ UNCHANGED V2!Contents
  BY <1>0 DEF V2Inv, V2!ChainLinked, Filled, V2!Contents
<1>2. PICK l \in {"pop_compare", "idle", "pop_move"} :
        pc' = [pc EXCEPT ![t] = l] /\ \/ pc[t] = "pop_tail" /\ l = "pop_compare"
                                      \/ pc[t] = "pop_compare" /\ l # "pop_compare"
  BY DEF V2!GetTailCopy, V2!PopCompare, V2!Goto
<1>3. \A u \in Thread : u # t => pc'[u] = pc[u] /\ node'[u] = node[u] /\ copy'[u] = copy[u] /\ pc[u] \notin AtHead
  BY <1>2 DEF V2Inv, V2Types, Mutexes, AtHead, V2!GetTailCopy, V2!PopCompare
<1>4. V2Types'
  <2>1. node' \in [Thread -> Int] /\ copy' \in [Thread -> Int]
    BY ChainFacts DEF V2Inv, V2Types, V2!GetTailCopy, V2!PopCompare
  <2> QED
    BY ZenonT(30), <1>0, <1>2, <2>1 DEF V2Inv, V2Types, AtHead
<1>5. Mutexes'
  BY <1>0, <1>2, V2Assumption
     DEF V2Inv, V2Types, Mutexes, AtTail, AtHead, V2!GetTailCopy, V2!PopCompare, V2!locks, V2!Goto
<1>6. OwnNodes'
  <2>1. pc'[t] \notin Apart
    BY <1>2 DEF V2Inv, V2Types, Apart
  <2> QED
    BY ZenonT(30), <1>0, <1>3, <2>1 DEF V2Inv, OwnNodes
<1>7. PushDone'
  BY <1>0, <1>2, <1>3 DEF V2Inv, V2Types, PushDone, AtTail
<1>8. PopKnows'
  <2>1. CASE V2!GetTailCopy(t)
    BY <1>0, <1>3, <2>1, ChainFacts DEF V2Inv, V2Types, PopKnows, AtHead, V2!GetTailCopy, V2!Goto
  <2>2. CASE V2!PopCompare(t)
    <3>1. head # copy[t] => Len(chain) > 1
      <4>1. PICK i \in 1 .. Len(chain) : copy[t] = chain[i]
        BY ZenonT(30), <2>2 DEF V2Inv, PopKnows, V2!PopCompare
      <4>2. head = chain[1] /\ Len(chain) \in Nat
        BY ZenonT(30), ChainFacts
      <4>3. \A n \in Nat : \A j \in 1 .. n : n > 1 \/ j = 1
        OBVIOUS
      <4> QED
        BY ZenonT(30), <4>1, <4>2, <4>3
    <3> QED
      BY <1>0, <1>3, <2>2, <3>1 DEF V2Inv, V2Types, PopKnows, AtHead, V2!PopCompare, V2!Goto
  <2> QED
    BY <2>1, <2>2
<1> QED
  BY <1>1, <1>4, <1>5, <1>6, <1>7, <1>8 DEF V2Inv

\* A pop empties the node it has detached.
LEMMA V2Empties ==
    ASSUME V2Inv, NEW t \in Thread, V2!PopData(t)
    PROVE  V2Inv' /\ UNCHANGED V2!Contents
<1>0. /\ head' = head /\ tail' = tail /\ copy' = copy /\ chain' = chain /\ node' = node /\ next' = next
      /\ v2Pushes' = v2Pushes /\ headMutex' = headMutex /\ tailMutex' = tailMutex
      /\ pc[t] = "pop_data" /\ pc' = [pc EXCEPT ![t] = "idle"] /\ data' = [data EXCEPT ![node[t]] = 0]
  BY DEF V2!PopData, V2!locks, V2!Goto
<1>1. \A i \in 1 .. Len(chain) : chain[i] # node[t] /\ chain[i] \in 0 .. V2_PUSHES
  BY <1>0, ChainFacts DEF V2Inv, OwnNodes, Apart
<1>2. \A i \in 1 .. Len(chain) : data'[chain[i]] = data[chain[i]]
  BY <1>0, <1>1 DEF V2Inv, V2Types
<1>3. V2!ChainLinked' /\ Filled'
  BY <1>0, <1>2, ChainFacts DEF V2Inv, V2!ChainLinked, Filled
<1>4. UNCHANGED V2!Contents
  BY <1>0, <1>2, ChainFacts DEF V2!Contents
<1>5. V2Types'
  <2>1. data' \in [0 .. V2_PUSHES -> Int]
    <3>1. data \in [0 .. V2_PUSHES -> Int] /\ 0 \in Int
      BY DEF V2Inv, V2Types
    <3> QED
      BY <1>0, <3>1, ExceptIs, ZenonT(30)
  <2>2. pc' \in [Thread -> {"idle", "push_lock", "push_data", "push_next", "push_tail",
                          "pop_lock", "pop_tail", "pop_compare", "pop_move", "pop_data"}]
    BY <1>0 DEF V2Inv, V2Types
  <2> QED
    BY <1>0, <2>1, <2>2 DEF V2Inv, V2Types
<1>6. Mutexes'
  BY <1>0 DEF V2Inv, V2Types, Mutexes, AtTail, AtHead
<1>7. OwnNodes'
  BY <1>0 DEF V2Inv, V2Types, OwnNodes, Apart
<1>8. PushDone'
  <2>1. data'[tail] = data[tail]
    BY <1>2, ChainFacts
  <2> QED
    BY <1>0, <2>1 DEF V2Inv, V2Types, PushDone, AtTail
<1>9. PopKnows'
  BY <1>0 DEF V2Inv, V2Types, PopKnows
<1> QED
  BY <1>3, <1>4, <1>5, <1>6, <1>7, <1>8, <1>9 DEF V2Inv

\* A push appends its node: the dummy it has filled becomes the last element.
LEMMA V2Appends ==
    ASSUME Counting, V2Inv, NEW t \in Thread, V2!PushTail(t)
    PROVE  V2Inv' /\ \E v \in 1 .. V2_PUSHES : V2!Queue!Enqueue(v)
<1> DEFINE m == Len(chain)
<1>0. /\ head' = head /\ copy' = copy /\ node' = node /\ next' = next /\ data' = data
      /\ v2Pushes' = v2Pushes /\ headMutex' = headMutex /\ tailMutex' = "free"
      /\ pc[t] = "push_tail" /\ pc' = [pc EXCEPT ![t] = "idle"]
      /\ tail' = next[tail] /\ chain' = Append(chain, next[tail])
  BY DEF V2!PushTail, V2!Goto
<1>1. /\ m \in Nat /\ m >= 1 /\ tail = chain[m] /\ head = chain[1]
      /\ \A i \in 1 .. m : chain[i] \in 0 .. V2_PUSHES
      /\ \A i, j \in 1 .. m : chain[i] = chain[j] => i = j
  BY ChainFacts
<1>2. /\ next[tail] = node[t] /\ data[tail] = node[t]
      /\ node[t] \in 0 .. v2Pushes /\ node[t] > 0 /\ \A i \in 1 .. m : chain[i] # node[t]
  BY <1>0 DEF V2Inv, PushDone, OwnNodes, Apart, AtTail
<1>3. node[t] \in 0 .. V2_PUSHES /\ node[t] \in 1 .. V2_PUSHES
  BY <1>2, V2Assumption DEF V2Inv, V2Types
<1>4. /\ chain' \in Seq(0 .. V2_PUSHES) /\ Len(chain') = m + 1
      /\ \A i \in 1 .. m + 1 : chain'[i] = IF i <= m THEN chain[i] ELSE node[t]
  <2>1. chain \in Seq(0 .. V2_PUSHES) /\ chain' = Append(chain, node[t])
    BY <1>0, <1>2 DEF V2Inv, V2Types
  <2> QED
    BY <2>1, <1>3, AppendIs
<1>5. V2!ChainLinked'
  <2>1. chain' # <<>> /\ chain'[1] = head /\ chain'[m + 1] = next[tail]
    BY <1>1, <1>2, <1>4
  <2>2. \A i \in 1 .. m : next[chain'[i]] = chain'[i + 1]
    BY <1>1, <1>2, <1>4 DEF V2Inv, V2!ChainLinked
  <2>3. \A i, j \in 1 .. m + 1 : chain'[i] = chain'[j] => i = j
    BY <1>1, <1>2, <1>4
  <2>4. /\ head' = head /\ tail' = next[tail] /\ next' = next /\ Len(chain') = m + 1
        /\ Len(chain') - 1 = m
    BY <1>0, <1>1, <1>4
  <2> QED
    BY <2>1, <2>2, <2>3, <2>4 DEF V2!ChainLinked
<1>6. Filled'
  <2>1. \A i \in 1 .. m + 1 : chain'[i] <= v2Pushes
    BY <1>1, <1>2, <1>4 DEF V2Inv, Filled
  <2>2. \A i \in 1 .. m : data[chain'[i]] \in 1 .. V2_PUSHES
    BY <1>1, <1>2, <1>3, <1>4 DEF V2Inv, Filled
  <2> QED
    BY <1>0, <1>1, <1>4, <2>1, <2>2 DEF Filled
<1>7. V2Types'
  BY <1>0, <1>4 DEF V2Inv, V2Types
<1>8. Mutexes'
  BY <1>0, V2Assumption DEF V2Inv, V2Types, Mutexes, AtTail, AtHead
<1>9. \A u \in Thread : u # t => pc'[u] = pc[u] /\ pc[u] \notin AtTail
  BY <1>0 DEF V2Inv, V2Types, Mutexes, AtTail
<1>10. pc'[t] = "idle"
  BY <1>0 DEF V2Inv, V2Types
<1>11. OwnNodes'
  <2>1. \A u \in Thread : u # t /\ pc[u] \in Apart => node[u] # node[t]
    BY <1>0 DEF V2Inv, OwnNodes, Apart
  <2>2. ASSUME NEW u \in Thread, u # t, pc[u] \in Apart, NEW i \in 1 .. m + 1 PROVE chain'[i] # node[u]
    BY <1>4, <2>1, <2>2 DEF V2Inv, OwnNodes
  <2> QED
    BY <1>0, <1>4, <1>9, <1>10, <2>2 DEF V2Inv, OwnNodes, Apart
<1>12. PushDone'
  BY <1>0, <1>9, <1>10 DEF V2Inv, PushDone, AtTail
<1>13. PopKnows'
  <2>1. \A u \in Thread : pc'[u] = "pop_compare" => \E i \in 1 .. m + 1 : copy[u] = chain'[i]
    <3> SUFFICES ASSUME NEW u \in Thread, pc'[u] = "pop_compare" PROVE \E i \in 1 .. m + 1 : copy[u] = chain'[i]
      OBVIOUS
    <3>0. pc[u] = "pop_compare"
      BY <1>9, <1>10
    <3>1. PICK i \in 1 .. m : copy[u] = chain[i]
      BY ZenonT(30), <3>0 DEF V2Inv, PopKnows
    <3> QED
      BY <1>1, <1>4, <3>1
  <2>2. \A u \in Thread : pc'[u] = "pop_move" => node[u] = head /\ m + 1 > 1
    BY <1>1, <1>9, <1>10 DEF V2Inv, PopKnows
  <2> QED
    BY <1>0, <1>4, <2>1, <2>2 DEF PopKnows
<1>14. m - 1 < V2_PUSHES
  <2>1. \A i \in 1 .. m + 1 : chain'[i] \in 0 .. V2_PUSHES
    BY <1>4, SeqElements, ZenonT(30)
  <2>2. \A i, j \in 1 .. m + 1 : chain'[i] = chain'[j] => i = j
    BY <1>4, <1>5 DEF V2!ChainLinked
  <2>3. m + 1 <= V2_PUSHES + 1
    <3>1. m + 1 \in Nat /\ V2_PUSHES \in Nat
      BY <1>1, V2Assumption
    <3> HIDE DEF m
    <3> QED
      BY ZenonT(30), <2>1, <2>2, <3>1 DEF Counting
  <2> QED
    BY <1>1, <2>3, V2Assumption
<1>15. V2!Contents' = Append(V2!Contents, node[t]) /\ Len(V2!Contents) = m - 1
  <2>1. V2!Contents = [k \in 1 .. m - 1 |-> data[chain[k]]]
    BY DEF V2!Contents
  <2>2. V2!Contents' = [k \in 1 .. m |-> data[chain'[k]]]
    BY <1>0, <1>1, <1>4 DEF V2!Contents
  <2>3. \A k \in 1 .. m - 1 : data[chain[k]] \in Int
    BY <1>1 DEF V2Inv, V2Types
  <2>4. V2!Contents \in Seq(Int) /\ Len(V2!Contents) = m - 1
    BY <1>1, <2>1, <2>3
  <2>5. \A k \in 1 .. m : data[chain'[k]] = IF k = m THEN node[t] ELSE V2!Contents[k]
    BY <1>1, <1>2, <1>4, <2>1
  <2>6. Append(V2!Contents, node[t]) = [k \in 1 .. m |-> IF k = m THEN node[t] ELSE V2!Contents[k]]
    BY <1>1, <2>4
  <2> QED
    BY <2>2, <2>4, <2>5, <2>6
<1>16. V2!Queue!Enqueue(node[t])
  BY <1>14, <1>15 DEF V2!Queue!Enqueue
<1>17. V2Inv'
  BY <1>5, <1>6, <1>7, <1>8, <1>11, <1>12, <1>13 DEF V2Inv
<1> QED
  BY <1>3, <1>16, <1>17

\* A pop detaches the first node, which is not the dummy.
LEMMA V2Detaches ==
    ASSUME V2Inv, NEW t \in Thread, V2!PopMove(t)
    PROVE  V2Inv' /\ V2!Queue!Dequeue
<1> DEFINE m == Len(chain)
<1>0. /\ tail' = tail /\ copy' = copy /\ node' = node /\ data' = data
      /\ v2Pushes' = v2Pushes /\ headMutex' = "free" /\ tailMutex' = tailMutex
      /\ pc[t] = "pop_move" /\ pc' = [pc EXCEPT ![t] = "pop_data"]
      /\ head' = next[node[t]] /\ chain' = Tail(chain) /\ next' = [next EXCEPT ![node[t]] = -1]
  BY DEF V2!PopMove, V2!Goto, V2!Null
<1>1. /\ m \in Nat /\ tail = chain[m] /\ head = chain[1]
      /\ \A i \in 1 .. m : chain[i] \in 0 .. V2_PUSHES
      /\ \A i, j \in 1 .. m : chain[i] = chain[j] => i = j
  BY ChainFacts
<1>2. node[t] = chain[1] /\ m > 1
  BY <1>0, <1>1 DEF V2Inv, PopKnows
<1>3. /\ chain' \in Seq(0 .. V2_PUSHES) /\ Len(chain') = m - 1
      /\ \A i \in 1 .. m - 1 : chain'[i] = chain[i + 1]
  <2>1. chain \in Seq(0 .. V2_PUSHES) /\ chain # <<>>
    BY <1>2 DEF V2Inv, V2Types, V2!ChainLinked
  <2> QED
    BY <1>0, <2>1, TailIs
<1>4. \A i \in 2 .. m : next'[chain[i]] = next[chain[i]] /\ chain[i] # node[t]
  BY <1>0, <1>1, <1>2 DEF V2Inv, V2Types
<1>5. V2!ChainLinked'
  <2>1. chain' # <<>> /\ chain'[m - 1] = tail
    BY <1>1, <1>2, <1>3
  <2>2. \A i \in 1 .. m - 1 : next[chain[i]] = chain[i + 1]
    BY DEF V2Inv, V2!ChainLinked
  <2>3. chain'[1] = next[node[t]]
    BY <1>1, <1>2, <1>3, <2>2
  <2>4. \A i \in 1 .. m - 2 : next'[chain'[i]] = chain'[i + 1]
    BY <1>1, <1>2, <1>3, <1>4, <2>2
  <2>5. \A i, j \in 1 .. m - 1 : chain'[i] = chain'[j] => i = j
    BY <1>1, <1>2, <1>3
  <2> QED
    BY <1>0, <1>1, <1>3, <2>1, <2>3, <2>4, <2>5 DEF V2!ChainLinked
<1>6. Filled'
  <2>1. \A i \in 1 .. m - 1 : chain'[i] <= v2Pushes
    BY <1>1, <1>2, <1>3 DEF V2Inv, Filled
  <2>2. \A i \in 1 .. m - 2 : data[chain'[i]] \in 1 .. V2_PUSHES
    BY <1>1, <1>2, <1>3 DEF V2Inv, Filled
  <2> QED
    BY <1>0, <1>1, <1>3, <2>1, <2>2 DEF Filled
<1>7. V2Types'
  <2>1. next' \in [0 .. V2_PUSHES -> Int]
    <3>1. next \in [0 .. V2_PUSHES -> Int] /\ -1 \in Int
      BY DEF V2Inv, V2Types
    <3> QED
      BY <1>0, <3>1, ExceptIs, ZenonT(30)
  <2> QED
    BY <1>0, <1>3, <2>1 DEF V2Inv, V2Types
<1>8. Mutexes'
  BY ZenonT(30), <1>0, V2Assumption DEF V2Inv, V2Types, Mutexes, AtTail, AtHead
<1>9. \A u \in Thread : u # t => pc'[u] = pc[u] /\ pc[u] \notin AtHead
  BY <1>0 DEF V2Inv, V2Types, Mutexes, AtHead
<1>10. pc'[t] = "pop_data"
  BY <1>0 DEF V2Inv, V2Types
<1>11. OwnNodes'
  <2>0. \A u \in Thread : pc[u] \in Apart => node[u] # node[t]
    <3>1. 1 \in 1 .. Len(chain)
      BY <1>1, <1>2
    <3> QED
      BY ZenonT(30), <1>2, <3>1 DEF V2Inv, OwnNodes
  <2>1. \A u \in Thread : pc[u] \in Apart => node[u] # node[t] /\ node[u] \in 0 .. v2Pushes
    BY ZenonT(30), <2>0 DEF V2Inv, OwnNodes
  <2>2. node[t] \in 0 .. v2Pushes
    BY <1>1, <1>2 DEF V2Inv, Filled, V2Types
  <2>3. \A i \in 1 .. m - 1 : chain'[i] # node[t]
    BY <1>1, <1>2, <1>3
  <2>4. \A u \in Thread : pc[u] \in Apart => \A i \in 1 .. m - 1 : chain'[i] # node[u]
    BY <1>1, <1>3 DEF V2Inv, OwnNodes
  <2>5. \A u, w \in Thread : u # w /\ pc[u] \in Apart /\ pc[w] \in Apart => node[u] # node[w]
    BY ZenonT(30) DEF V2Inv, OwnNodes
  <2> QED
    BY <1>0, <1>3, <1>9, <1>10, <2>1, <2>2, <2>3, <2>4, <2>5 DEF OwnNodes
<1>12. PushDone'
  <2>1. next'[tail] = next[tail]
    BY <1>1, <1>2, <1>4
  <2> QED
    BY <1>0, <1>9, <1>10, <2>1 DEF V2Inv, PushDone, AtTail
<1>13. PopKnows'
  BY <1>9, <1>10 DEF PopKnows, AtHead
<1>14. V2!Contents # <<>> /\ V2!Contents' = Tail(V2!Contents)
  <2>1. V2!Contents = [k \in 1 .. m - 1 |-> data[chain[k]]]
    BY DEF V2!Contents
  <2>2. V2!Contents' = [k \in 1 .. m - 2 |-> data[chain'[k]]]
    BY <1>0, <1>1, <1>3 DEF V2!Contents
  <2>3. \A k \in 1 .. m - 1 : data[chain[k]] \in Int
    BY <1>1 DEF V2Inv, V2Types
  <2>4. V2!Contents \in Seq(Int) /\ Len(V2!Contents) = m - 1
    BY <1>1, <1>2, <2>1, <2>3
  <2>5. V2!Contents # <<>>
    BY <1>1, <1>2, <2>4
  <2>6. Tail(V2!Contents) = [k \in 1 .. m - 2 |-> Tail(V2!Contents)[k]]
    <3>1. Tail(V2!Contents) \in Seq(Int) /\ Len(Tail(V2!Contents)) = m - 2
      BY <1>1, <1>2, <2>4, <2>5
    <3> QED
      BY ZenonT(30), <3>1, SeqIsFunction
  <2>7. \A k \in 1 .. m - 2 : Tail(V2!Contents)[k] = data[chain'[k]]
    BY <1>1, <1>2, <1>3, <2>1, <2>4, <2>5
  <2> QED
    BY ZenonT(30), <2>2, <2>5, <2>6, <2>7
<1> QED
  BY <1>5, <1>6, <1>7, <1>8, <1>11, <1>12, <1>13, <1>14 DEF V2Inv, V2!Queue!Dequeue

\* Every step keeps the invariant and is a step of the queue, or is not seen by it.
LEMMA V2Kept ==
    ASSUME Counting, V2Inv, [V2!Next]_(V2!vars)
    PROVE  V2Inv' /\ [V2!Queue!Dequeue \/ \E v \in 1 .. V2_PUSHES : V2!Queue!Enqueue(v)]_(V2!Contents)
<1>1. CASE UNCHANGED V2!vars
  BY <1>1 DEF V2!vars, V2!locks, V2Inv, V2Types, Mutexes, V2!ChainLinked, Filled, OwnNodes, PushDone, PopKnows, V2!Contents
<1>2. CASE V2!Next
  BY <1>2, V2Waits, V2Allocates, V2Fills, V2Looks, V2Empties, V2Appends, V2Detaches DEF V2!Next, V2!Step
<1> QED
  BY <1>1, <1>2

\* The two mutexes protect separate nodes.
LEMMA V2Apart == ASSUME V2Inv PROVE V2!NoRace /\ V2!SeparateNodes
<1>1. \A u \in Thread : pc[u] = "pop_move" => node[u] = chain[1] /\ tail # node[u]
  BY ChainFacts DEF V2Inv, PopKnows
<1>2. \A u \in Thread : pc[u] = "pop_data" => tail # node[u] /\ chain[1] # node[u]
  BY ChainFacts DEF V2Inv, OwnNodes, Apart
<1>3. V2!NoRace
  BY <1>1, <1>2 DEF V2!NoRace, V2!Popping
<1>4. \A t, u \in Thread : pc[t] = "pop_move" /\ pc[u] = "pop_move" => t = u
  BY DEF V2Inv, Mutexes, AtHead
<1>5. \A t, u \in Thread : pc[t] = "pop_data" /\ pc[u] = "pop_data" /\ t # u => node[t] # node[u]
  BY DEF V2Inv, OwnNodes, Apart
<1> QED
  BY <1>1, <1>2, <1>3, <1>4, <1>5 DEF V2!SeparateNodes, V2!Popping

-----------------------------------------------------------------------------
\* The logger: who holds rmtx is in apply(), a client that has asked for a swap finds
\* the new buffer empty, a record that was copied and not yet counted stands behind the
\* cursor, and the batch that is being written fits into the file.  This lasts until a
\* record is copied in the middle of a swap.
LogTypes ==
    /\ buf \in [{0, 1} -> [1 .. BUFSIZE -> Nat]]
    /\ ridx \in {0, 1} /\ idx = 1 - ridx
    /\ rcur \in 0 .. BUFSIZE /\ cur \in 0 .. BUFSIZE /\ done \in 0 .. cur
    /\ logPc \in [Client -> {"out", "lock", "ask", "spin", "put", "advance", "lost"}]
    /\ need \in [Client -> 0 .. BUFSIZE]
    /\ writer \in {"loop", "wait", "swapping", "roll", "append", "ended"}
    /\ applied \in Nat /\ written \in Nat
    /\ file \in Seq(Nat)
    /\ sflag \in BOOLEAN

LogCalls ==
    /\ \A c \in Client : logPc[c] \in {"ask", "spin", "put", "advance", "lost"} <=> rmtx = c
    /\ writer = "swapping" => sflag /\ early
    /\ ~sflag => rmtx \in Client /\ logPc[rmtx] = "spin"
    /\ writer = "swapping" => rmtx \in Client /\ logPc[rmtx] \in {"spin", "put"}
    /\ \A c \in Client : logPc[c] = "spin" /\ sflag /\ writer # "swapping" => rcur = 0
    /\ \A c \in Client : logPc[c] \in {"put", "advance"} /\ writer # "swapping" => rcur + need[c] <= BUFSIZE
    /\ \A c \in Client : logPc[c] = "advance" =>
        \A j \in 1 .. need[c] : buf[ridx][rcur + j] = applied + j

LogWrites ==
    /\ writer \notin {"roll", "append"} => cur = 0
    /\ writer # "append" => done = 0
    /\ writer = "append" => written + cur < fileMaxSize \/ written = 0
    /\ Log!FileSize

LogInv == LogTypes /\ LogCalls /\ LogWrites /\ Log!AllThere

LEMMA LogStart == ASSUME Log!Init PROVE LogInv /\ early \in BOOLEAN /\ stray = FALSE
<1> USE LoggerAssumption
<1>1. LogTypes
  BY DEF Log!Init, LogTypes
<1>2. LogCalls
  BY DEF Log!Init, LogCalls
<1>3. LogWrites
  BY DEF Log!Init, LogWrites, Log!FileSize
<1>4. Log!AllThere
  BY DEF Log!Init, Log!AllThere, Log!InFlight
<1>5. early \in BOOLEAN /\ stray = FALSE
  BY DEF Log!Init
<1> QED BY <1>1, <1>2, <1>3, <1>4, <1>5 DEF LogInv

\* Steps of apply() that copy nothing.
LEMMA LogWaits ==
    ASSUME LogInv, NEW c \in Client,
           Log!Lock(c) \/ Log!Ask(c) \/ Log!Spin(c) \/ \E space \in Space : Log!Log(c, space)
    PROVE  LogInv'
<1> USE LoggerAssumption
<1>0. UNCHANGED <<buf, ridx, rcur, applied, Log!backend>>
  BY DEF Log!Lock, Log!Ask, Log!Spin, Log!Log, Log!shared
<1>1. LogTypes'
  <2>1. logPc' \in [Client -> {"out", "lock", "ask", "spin", "put", "advance", "lost"}]
    <3>1. \E label \in {"lock", "ask", "spin", "put"} : logPc' = [logPc EXCEPT ![c] = label]
      BY DEF Log!Lock, Log!Ask, Log!Spin, Log!Log, Log!Goto
    <3> QED BY <3>1 DEF LogInv, LogTypes
  <2>2. need' \in [Client -> 0 .. BUFSIZE]
    BY DEF LogInv, LogTypes, Log!Lock, Log!Ask, Log!Spin, Log!Log
  <2>3. sflag' \in BOOLEAN
    BY ZenonT(30) DEF LogInv, LogTypes, Log!Lock, Log!Ask, Log!Spin, Log!Log, Log!shared
  <2> QED BY <1>0, <2>1, <2>2, <2>3 DEF LogInv, LogTypes, Log!backend
<1>2. LogCalls'
  <2> USE DEF LogInv, LogTypes, LogCalls
  <2>1. CASE \E space \in Space : Log!Log(c, space)
    BY <2>1, <1>0 DEF Log!Log, Log!Goto, Log!backend, Log!shared
  <2>2. CASE Log!Lock(c)
    BY <2>2, <1>0 DEF Log!Lock, Log!Goto, Log!backend, Log!shared
  <2>3. CASE Log!Ask(c)
    BY <2>3, <1>0 DEF Log!Ask, Log!Goto, Log!backend
  <2>4. CASE Log!Spin(c)
    BY <2>4, <1>0 DEF Log!Spin, Log!Goto, Log!backend, Log!shared
  <2> QED BY ZenonT(30), <2>1, <2>2, <2>3, <2>4
<1>3. LogWrites'
  BY <1>0 DEF LogInv, LogWrites, Log!FileSize, Log!backend
<1>4. Log!AllThere'
  BY <1>0 DEF LogInv, Log!AllThere, Log!InFlight, Log!backend
<1> QED BY <1>1, <1>2, <1>3, <1>4 DEF LogInv

LEMMA LogPuts == ASSUME LogInv, NEW c \in Client, Log!Put(c), writer # "swapping" PROVE LogInv'
<1> USE LoggerAssumption
<1>0. /\ UNCHANGED <<ridx, rcur, sflag, rmtx, need, applied, Log!backend>>
      /\ logPc[c] = "put" /\ logPc' = [logPc EXCEPT ![c] = "advance"] /\ rmtx = c
      /\ rcur \in Nat /\ need[c] \in Nat /\ rcur + need[c] <= BUFSIZE
  <2>1. logPc[c] = "put" /\ UNCHANGED <<ridx, rcur, sflag, rmtx, need, applied, Log!backend>>
    BY DEF Log!Put
  <2>2. rmtx = c /\ rcur \in Nat /\ need[c] \in Nat /\ rcur + need[c] <= BUFSIZE
    BY <2>1 DEF LogInv, LogCalls, LogTypes
  <2>3. ~(ridx = 1 /\ rcur + need[c] > BUFSIZE)
    BY <2>2
  <2>4. logPc' = [logPc EXCEPT ![c] = IF ridx = 1 /\ rcur + need[c] > BUFSIZE THEN "lost" ELSE "advance"]
    BY ZenonT(30) DEF Log!Put, Log!Goto
  <2>5. (IF ridx = 1 /\ rcur + need[c] > BUFSIZE THEN "lost" ELSE "advance") = "advance"
    BY <2>3
  <2>6. logPc' = [logPc EXCEPT ![c] = "advance"]
    BY ZenonT(30), <2>4, <2>5
  <2> QED BY <2>1, <2>2, <2>6
<1>1. buf'[ridx] = [j \in 1 .. BUFSIZE |->
        IF rcur < j /\ j <= rcur + need[c] THEN applied + j - rcur ELSE buf[ridx][j]]
      /\ buf'[1 - ridx] = buf[1 - ridx]
  <2>1. /\ buf \in [{0, 1} -> [1 .. BUFSIZE -> Nat]] /\ BUFSIZE \in Nat /\ applied \in Nat
        /\ buf' = [i \in {0, 1} |-> [j \in 1 .. BUFSIZE |->
              IF Log!Lands(i, j) \in 1 .. need[c] THEN applied + Log!Lands(i, j) ELSE buf[i][j]]]
        /\ ridx \in {0, 1} /\ 1 - ridx \in {0, 1} /\ 1 - ridx # ridx
    BY DEF Log!Put, LogInv, LogTypes
  <2>2. \A j \in 1 .. BUFSIZE : Log!Lands(ridx, j) = j - rcur /\ Log!Lands(1 - ridx, j) \notin 1 .. need[c]
    BY <1>0, <2>1 DEF Log!Lands
  <2>3. buf'[ridx] = [j \in 1 .. BUFSIZE |->
          IF j - rcur \in 1 .. need[c] THEN applied + (j - rcur) ELSE buf[ridx][j]]
    BY <2>1, <2>2
  <2>4. buf'[1 - ridx] = [j \in 1 .. BUFSIZE |-> buf[1 - ridx][j]]
    BY <2>1, <2>2
  <2>5. buf[1 - ridx] \in [1 .. BUFSIZE -> Nat]
    BY ZenonT(30), <2>1
  <2> QED BY <1>0, <2>1, <2>3, <2>4, <2>5
<1>2. buf' \in [{0, 1} -> [1 .. BUFSIZE -> Nat]]
  <2>1. \A j \in 1 .. BUFSIZE : (IF rcur < j /\ j <= rcur + need[c] THEN applied + j - rcur ELSE buf[ridx][j]) \in Nat
    <3> TAKE j \in 1 .. BUFSIZE
    <3>0. buf[ridx] \in [1 .. BUFSIZE -> Nat]
      BY ZenonT(30) DEF LogInv, LogTypes
    <3>1. applied \in Nat /\ j \in Nat /\ buf[ridx][j] \in Nat
      BY <3>0 DEF LogInv, LogTypes
    <3> QED BY <1>0, <3>1
  <2>2. buf'[ridx] \in [1 .. BUFSIZE -> Nat]
    BY <1>1, <2>1
  <2>3. buf'[1 - ridx] \in [1 .. BUFSIZE -> Nat]
    <3>1. 1 - ridx \in {0, 1} /\ buf \in [{0, 1} -> [1 .. BUFSIZE -> Nat]]
      BY DEF LogInv, LogTypes
    <3> QED BY ZenonT(30), <1>1, <3>1
  <2>4. \A i \in {0, 1} : buf'[i] \in [1 .. BUFSIZE -> Nat]
    BY <2>2, <2>3 DEF LogInv, LogTypes
  <2>5. buf' = [i \in {0, 1} |-> buf'[i]]
    BY DEF Log!Put
  <2> QED BY ZenonT(30), <2>4, <2>5
<1>3. LogTypes'
  BY <1>0, <1>2 DEF LogInv, LogTypes, Log!backend
<1>4. LogCalls'
  BY <1>0, <1>1 DEF LogInv, LogTypes, LogCalls, Log!backend
<1>5. LogWrites'
  BY <1>0 DEF LogInv, LogWrites, Log!FileSize, Log!backend
<1>6. Log!AllThere'
  <2>1. buf'[idx] = buf[idx] /\ \A j \in 1 .. rcur : buf'[ridx][j] = buf[ridx][j]
    BY <1>0, <1>1 DEF LogInv, LogTypes
  <2>2. Log!InFlight' = Log!InFlight
    BY <1>0 DEF Log!InFlight, Log!backend
  <2> QED BY <1>0, <2>1, <2>2 DEF LogInv, Log!AllThere, Log!backend
<1> QED BY <1>3, <1>4, <1>5, <1>6 DEF LogInv

LEMMA LogAdvances == ASSUME LogInv, NEW c \in Client, Log!Advance(c) PROVE LogInv'
<1> USE LoggerAssumption
<1>0. /\ UNCHANGED <<buf, ridx, sflag, Log!backend>>
      /\ logPc[c] = "advance" /\ logPc' = [logPc EXCEPT ![c] = "out"] /\ rmtx = c /\ rmtx' = "nobody"
      /\ rcur \in Nat /\ need[c] \in Nat /\ rcur + need[c] <= BUFSIZE
      /\ rcur' = rcur + need[c] /\ applied' = applied + need[c]
      /\ need' = [need EXCEPT ![c] = 0]
  BY DEF Log!Advance, Log!Goto, LogInv, LogCalls, LogTypes
<1>3. LogTypes'
  BY <1>0 DEF LogInv, LogTypes, Log!backend
<1>4. LogCalls'
  BY <1>0 DEF LogInv, LogTypes, LogCalls, Log!backend
<1>5. LogWrites'
  BY <1>0 DEF LogInv, LogWrites, Log!FileSize, Log!backend
<1>6. Log!AllThere'
  <2>1. Len(file) \in Nat /\ Log!InFlight \in Nat /\ Log!InFlight' = Log!InFlight
    BY <1>0 DEF LogInv, LogTypes, Log!InFlight, Log!backend
  <2>2. \A j \in 1 .. rcur' : buf[ridx][j] = Len(file) + Log!InFlight + j
    <3> TAKE j \in 1 .. rcur'
    <3>1. CASE j <= rcur
      BY <1>0, <3>1 DEF LogInv, Log!AllThere
    <3>2. CASE j > rcur
      <4>1. j - rcur \in 1 .. need[c] /\ j = rcur + (j - rcur)
        BY <1>0, <3>2
      <4>2. buf[ridx][j] = applied + (j - rcur)
        BY <1>0, <4>1 DEF LogInv, LogCalls
      <4>3. applied = Len(file) + Log!InFlight + rcur
        BY <2>1, <1>0 DEF LogInv, LogTypes, Log!AllThere
      <4> QED BY <4>1, <4>2, <4>3, <2>1, <1>0
    <3> QED BY <3>1, <3>2, <1>0
  <2> QED BY <1>0, <2>1, <2>2 DEF LogInv, LogTypes, Log!AllThere, Log!backend
<1> QED BY <1>3, <1>4, <1>5, <1>6 DEF LogInv

\* swap(), with rmtx free or its holder waiting
LEMMA LogSwaps == ASSUME LogInv, Log!Requested \/ Log!Swapped \/ Log!Timeout PROVE LogInv'
<1> USE LoggerAssumption
<1>0. UNCHANGED <<buf, rmtx, logPc, need, applied, early, kflag, done, file, written>>
      /\ writer \in {"wait", "swapping"} /\ cur = 0
  BY DEF Log!Requested, Log!Swapped, Log!Timeout, Log!frontend, LogInv, LogWrites
<1>1. \/ Log!swap
      \/ writer' \in {"swapping", "loop"} /\ UNCHANGED <<ridx, rcur, cur, idx>>
  BY DEF Log!Requested, Log!Swapped, Log!Timeout
<1>2. sflag'
  BY ZenonT(30) DEF Log!Requested, Log!Swapped, Log!Timeout, LogInv, LogCalls
<1>3. LogTypes'
  <2>1. sflag' \in BOOLEAN
    BY ZenonT(30) DEF LogInv, LogTypes, Log!Requested, Log!Swapped, Log!Timeout
  <2> QED BY <1>0, <1>1, <2>1 DEF LogInv, LogTypes, Log!swap
<1>4. LogCalls'
  <2>1. CASE Log!Requested
    <3>1. rmtx \in Client /\ logPc[rmtx] = "spin"
      BY <2>1 DEF LogInv, LogCalls, Log!Requested
    <3>2. CASE Log!swap
      BY <1>0, <1>2, <3>1, <3>2 DEF LogInv, LogTypes, LogCalls, Log!swap
    <3>3. CASE early /\ writer' = "swapping" /\ UNCHANGED <<ridx, rcur, cur, idx>>
      BY <1>0, <1>2, <3>1, <3>3 DEF LogInv, LogTypes, LogCalls
    <3> QED BY ZenonT(30), <2>1, <3>2, <3>3 DEF Log!Requested
  <2>2. CASE Log!Swapped
    BY <1>0, <1>1, <1>2, <2>2 DEF LogInv, LogTypes, LogCalls, Log!swap, Log!Swapped
  <2>3. CASE Log!Timeout
    BY <1>0, <1>1, <1>2, <2>3 DEF LogInv, LogTypes, LogCalls, Log!swap, Log!Timeout
  <2> QED BY <2>1, <2>2, <2>3
<1>5. LogWrites'
  BY <1>0, <1>1 DEF LogInv, LogWrites, Log!FileSize, Log!swap
<1>6. Log!AllThere'
  BY <1>0, <1>1 DEF LogInv, LogTypes, Log!AllThere, Log!InFlight, Log!swap
<1> QED BY <1>3, <1>4, <1>5, <1>6 DEF LogInv

LEMMA LogRolls == ASSUME LogInv, Log!Loop \/ Log!Roll \/ Log!kill PROVE LogInv'
<1> USE LoggerAssumption
<1>0. UNCHANGED <<Log!shared, rmtx, logPc, need, applied, early, cur, idx, done, file>>
  BY DEF Log!Loop, Log!Roll, Log!kill, Log!frontend, LogInv, LogWrites
<1>3. LogTypes'
  BY <1>0 DEF LogInv, LogTypes, Log!shared, Log!Loop, Log!Roll, Log!kill
<1>4. LogCalls'
  BY <1>0 DEF LogInv, LogTypes, LogCalls, Log!shared, Log!Loop, Log!Roll, Log!kill
<1>5. LogWrites'
  BY <1>0 DEF LogInv, LogTypes, LogWrites, Log!FileSize, Log!Loop, Log!Roll, Log!kill
<1>6. Log!AllThere'
  <2>1. Len(file) \in Nat /\ Log!InFlight \in Nat /\ Log!InFlight' = Log!InFlight
    BY <1>0 DEF LogInv, LogTypes, LogWrites, Log!InFlight, Log!Loop, Log!Roll, Log!kill
  <2>2. writer' = "append" => \A j \in done + 1 .. cur : buf[idx][j] = Len(file) - done + j
    <3>1. CASE writer = "append"
      BY <3>1 DEF LogInv, Log!AllThere
    <3>2. CASE writer = "roll"
      <4>1. done = 0 /\ \A j \in 1 .. cur : buf[idx][j] = Len(file) + j
        BY <3>2 DEF LogInv, LogWrites, Log!AllThere
      <4> QED BY <2>1, <4>1
    <3> QED BY <3>1, <3>2 DEF Log!Loop, Log!Roll, Log!kill
  <2>3. writer' = "roll" => writer = "roll"
    BY DEF Log!Loop, Log!Roll, Log!kill
  <2> QED BY <1>0, <2>1, <2>2, <2>3 DEF LogInv, Log!AllThere, Log!shared
<1> QED BY <1>3, <1>4, <1>5, <1>6 DEF LogInv

LEMMA LogAppends == ASSUME LogInv, Log!Write \/ Log!Appended PROVE LogInv'
<1> USE LoggerAssumption
<1>0. UNCHANGED <<Log!shared, rmtx, logPc, need, applied, early, idx>> /\ writer = "append"
  BY DEF Log!Write, Log!Appended, Log!frontend
<1>1. CASE Log!Appended
  <2>3. LogTypes'
    BY <1>0, <1>1 DEF LogInv, LogTypes, Log!shared, Log!Appended
  <2>4. LogCalls'
    BY <1>0, <1>1 DEF LogInv, LogTypes, LogCalls, Log!shared, Log!Appended
  <2>5. LogWrites'
    BY <1>0, <1>1 DEF LogInv, LogTypes, LogWrites, Log!FileSize, Log!Appended
  <2>6. Log!AllThere'
    BY <1>0, <1>1 DEF LogInv, LogTypes, Log!AllThere, Log!InFlight, Log!shared, Log!Appended
  <2> QED BY <2>3, <2>4, <2>5, <2>6 DEF LogInv
<1>2. CASE Log!Write
  <2>1. PICK k \in done + 1 .. cur :
          file' = file \o [j \in 1 .. k - done |-> Log!Byte(done + j)] /\ done' = k
    BY ZenonT(30), <1>2 DEF Log!Write
  <2> DEFINE more == [j \in 1 .. k - done |-> Log!Byte(done + j)]
  <2>2. UNCHANGED <<cur, writer, written, kflag>> /\ k \in Nat /\ done \in Nat /\ cur \in Nat /\ k <= cur
        /\ cur <= BUFSIZE
    BY <1>2 DEF Log!Write, LogInv, LogTypes
  <2>3. \A j \in 1 .. k - done : Log!Byte(done + j) = Len(file) + j
    <3> TAKE j \in 1 .. k - done
    <3>1. done + j \in done + 1 .. cur
      BY <2>2
    <3>2. buf[idx][done + j] = Len(file) + j /\ done + j <= BUFSIZE
      BY <3>1, <1>0, <2>2 DEF LogInv, LogTypes, Log!AllThere
    <3> QED BY <3>2 DEF Log!Byte
  <2>4. more \in Seq(Nat) /\ Len(more) = k - done /\ \A j \in 1 .. k - done : more[j] = Len(file) + j
    <3>1. k - done \in Nat /\ Len(file) \in Nat
      BY <2>1, <2>2 DEF LogInv, LogTypes
    <3>2. \A j \in 1 .. k - done : Log!Byte(done + j) \in Nat
      BY <2>3, <3>1
    <3>3. more \in [1 .. k - done -> Nat] /\ Len(more) = k - done
      BY <3>1, <3>2
    <3>4. more \in Seq(Nat)
      BY <3>1, <3>3
    <3> QED BY ZenonT(30), <2>3, <3>3, <3>4
  <2> HIDE DEF more
  <2>5. file \in Seq(Nat) /\ Len(file) \in Nat /\ \A i \in 1 .. Len(file) : file[i] = i
    BY DEF LogInv, LogTypes, Log!AllThere
  <2>6. /\ file' \in Seq(Nat)
        /\ Len(file') = Len(file) + (k - done)
        /\ \A i \in 1 .. Len(file') : file'[i] = i
    <3>1. file' = file \o more /\ k - done \in Nat
      BY <2>1, <2>2 DEF more
    <3>2. file' \in Seq(Nat) /\ Len(file') = Len(file) + (k - done)
      BY <2>4, <2>5, <3>1
    <3>3. \A i \in 1 .. Len(file') : file'[i] = IF i <= Len(file) THEN file[i] ELSE more[i - Len(file)]
      BY <2>4, <2>5, <3>1
    <3> QED BY <2>4, <2>5, <3>1, <3>2, <3>3
  <2>7. file' = [i \in 1 .. Len(file') |-> i]
    BY <2>6
  <2>8. LogTypes'
    BY <1>0, <2>1, <2>2, <2>6 DEF LogInv, LogTypes, Log!shared
  <2>9. LogCalls'
    BY <1>0, <2>2 DEF LogInv, LogCalls, Log!shared
  <2>10. LogWrites'
    BY <1>0, <2>2 DEF LogInv, LogWrites, Log!FileSize
  <2>11. Log!AllThere'
    <3>1. Log!InFlight = cur - done /\ Log!InFlight' = cur - k /\ Len(file') = Len(file) + (k - done)
      BY <1>0, <2>1, <2>2, <2>6 DEF Log!InFlight
    <3>2. Len(file') + Log!InFlight' = Len(file) + Log!InFlight
      BY <2>2, <2>5, <3>1
    <3>3. Len(file') - k = Len(file) - done
      BY <2>2, <2>5, <3>1
    <3>4. \A j \in k + 1 .. cur : buf[idx][j] = Len(file') - k + j
      <4> TAKE j \in k + 1 .. cur
      <4>1. j \in done + 1 .. cur
        BY <2>1, <2>2
      <4> QED BY <1>0, <4>1, <3>3 DEF LogInv, Log!AllThere
    <3>5. /\ Len(file') + Log!InFlight' + rcur = applied
          /\ \A j \in 1 .. rcur : buf[ridx][j] = Len(file') + Log!InFlight' + j
      BY <3>2 DEF LogInv, Log!AllThere
    <3>6. writer' = "append" /\ done' = k
      BY <1>0, <2>1, <2>2
    <3>7. UNCHANGED <<buf, ridx, rcur, applied, idx, cur>>
      BY <1>0, <2>2 DEF Log!shared
    <3> QED BY <2>7, <3>4, <3>5, <3>6, <3>7 DEF Log!AllThere
  <2> QED BY <2>8, <2>9, <2>10, <2>11 DEF LogInv
<1> QED BY <1>1, <1>2

LEMMA LogSteps ==
    ASSUME LogInv, [Log!Next]_(Log!vars), \A c \in Client : Log!Put(c) => writer # "swapping"
    PROVE  LogInv'
<1>1. CASE Log!Next
  BY <1>1, LogWaits, LogPuts, LogAdvances, LogSwaps, LogRolls, LogAppends DEF Log!Next, Log!Apply, Log!Wthread
<1>2. CASE UNCHANGED Log!vars
  BY <1>2 DEF Log!vars, LogInv, LogTypes, LogCalls, LogWrites, Log!AllThere, Log!InFlight, Log!FileSize
<1> QED BY <1>1, <1>2

\* A record that is copied in the middle of a swap ends LogInv, and only a build that
\* stores sflag first has such a middle.
LogCase == stray \in BOOLEAN /\ early \in BOOLEAN /\ (stray => early) /\ (~stray => LogInv)

LEMMA LogKept == ASSUME LogCase, [Log!Next]_(Log!vars) PROVE LogCase'
<1>1. early' = early
  <2>1. ASSUME NEW c \in Client, NEW space \in Space, Log!Log(c, space) PROVE early' = early
    BY <2>1 DEF Log!Log, Log!backend
  <2>2. ASSUME NEW c \in Client, Log!Apply(c) PROVE early' = early
    <3>1. CASE Log!Lock(c) \/ Log!Ask(c) \/ Log!Spin(c)
      BY <3>1 DEF Log!Lock, Log!Ask, Log!Spin, Log!backend
    <3>2. CASE Log!Put(c)
      BY ZenonT(30), <3>2 DEF Log!Put, Log!backend
    <3>3. CASE Log!Advance(c)
      BY <3>3 DEF Log!Advance, Log!backend
    <3> QED BY <2>2, <3>1, <3>2, <3>3 DEF Log!Apply
  <2>3. CASE Log!kill \/ Log!Loop \/ Log!Roll \/ Log!Appended
    BY <2>3 DEF Log!kill, Log!Loop, Log!Roll, Log!Appended, Log!frontend
  <2>4. CASE Log!Requested \/ Log!Swapped \/ Log!Timeout
    BY <2>4 DEF Log!Requested, Log!Swapped, Log!Timeout, Log!frontend
  <2>5. CASE Log!Write
    BY ZenonT(30), <2>5 DEF Log!Write, Log!frontend
  <2>6. CASE UNCHANGED Log!vars
    BY <2>6 DEF Log!vars
  <2> QED BY <2>1, <2>2, <2>3, <2>4, <2>5, <2>6 DEF Log!Next, Log!Wthread
<1>2. CASE \E c \in Client : Log!Put(c) /\ writer = "swapping"
  <2>1. stray' = TRUE
    BY ZenonT(30), <1>2 DEF Log!Put
  <2>2. stray \/ early
    BY <1>2 DEF LogCase, LogInv, LogCalls
  <2> QED BY <1>1, <2>1, <2>2 DEF LogCase
<1>3. CASE \A c \in Client : Log!Put(c) => writer # "swapping"
  <2>1. stray' = stray
    <3>1. ASSUME NEW c \in Client, Log!Put(c) PROVE stray' = stray
      <4>1. stray' = (stray \/ writer = "swapping") /\ writer # "swapping"
        BY ZenonT(30), <1>3, <3>1 DEF Log!Put
      <4> QED BY ZenonT(30), <4>1 DEF LogCase
    <3>2. CASE \A c \in Client : ~Log!Put(c)
      <4>1. ASSUME NEW c \in Client, NEW space \in Space, Log!Log(c, space) PROVE stray' = stray
        BY <4>1 DEF Log!Log
      <4>2. ASSUME NEW c \in Client, Log!Apply(c) PROVE stray' = stray
        BY <3>2, <4>2 DEF Log!Apply, Log!Lock, Log!Ask, Log!Spin, Log!Advance
      <4>3. CASE Log!kill \/ Log!Loop \/ Log!Roll \/ Log!Appended
        BY <4>3 DEF Log!kill, Log!Loop, Log!Roll, Log!Appended, Log!frontend
      <4>4. CASE Log!Requested \/ Log!Swapped \/ Log!Timeout
        BY <4>4 DEF Log!Requested, Log!Swapped, Log!Timeout, Log!frontend
      <4>5. CASE Log!Write
        BY ZenonT(30), <4>5 DEF Log!Write, Log!frontend
      <4>6. CASE UNCHANGED Log!vars
        BY <4>6 DEF Log!vars
      <4> QED BY <4>1, <4>2, <4>3, <4>4, <4>5, <4>6 DEF Log!Next, Log!Wthread
    <3> QED BY <3>1, <3>2
  <2>2. ~stray => LogInv'
    BY <1>3, LogSteps DEF LogCase
  <2> QED BY <1>1, <2>1, <2>2 DEF LogCase
<1> QED BY <1>2, <1>3

LEMMA LogRoom == ASSUME LogCase PROVE Log!InOrder /\ Log!NoRace
<1>1. LogInv => Log!AllThere /\ Log!FileSize
  BY DEF LogInv, LogWrites
<1>2. LogInv => Log!Apart
  BY DEF LogInv, LogTypes, LogCalls, Log!Apart
<1> QED BY <1>1, <1>2 DEF LogCase, Log!InOrder, Log!NoRace
-----------------------------------------------------------------------------
(***************************************************************************)
(* Fifo, for a ring of any size and any count of main().                   *)
(***************************************************************************)
\* The index arithmetic: Ring!MASK brings sums and differences of indices back.
LEMMA MaskIs ==
    ASSUME SIZE \in Nat \ {0}, NEW x \in Int
    PROVE  /\ x \in 0 .. SIZE - 1 => Ring!MASK(x) = x
           /\ x \in SIZE .. 2 * SIZE - 1 => Ring!MASK(x) = x - SIZE
           /\ x \in 1 - SIZE .. -1 => Ring!MASK(x) = x + SIZE
BY DEF Ring!MASK

\* How many elements the ring holds.
Held == Ring!MASK(in - out)

\* The indices are indices, and the elements numbers.
RingTypes ==
    /\ in \in 0 .. SIZE - 1 /\ out \in 0 .. SIZE - 1
    /\ buffer \in [0 .. SIZE - 1 -> Int]
    /\ prod \in [pc : {"idle", "write", "store"}, elem : Int]
    /\ cons \in [pc : {"idle", "read", "store"}, elem : Int]
    /\ sent \in Seq(Int) /\ ringGot \in Seq(Int)
    /\ prev \in Int /\ g_value \in Int /\ failed \in BOOLEAN

\* The producer: from the check to the store the ring is not full, its number is the
\* next one, and after the write that number is in its slot.
Producing ==
    /\ Len(sent) <= COUNT
    /\ prod.pc # "idle" => Len(sent) < COUNT /\ Ring!MASK(in + 1) # out /\ prod.elem = Len(sent) + 1
    /\ prod.pc = "store" => buffer[in] = prod.elem

\* The consumer: from the check to the store the ring is not empty.
Consuming ==
    /\ cons.pc # "idle" => in # out
    /\ cons.pc = "store" => cons.elem = Len(ringGot) + 1
    /\ prev = Len(ringGot) /\ 2 * g_value = prev * (prev + 1) /\ ~failed

\* Between the two ends are the numbers sent and not yet got, in order.
Holding ==
    /\ Len(sent) = Len(ringGot) + Held
    /\ \A i \in 1 .. Held : buffer[Ring!MASK(out + i - 1)] = Len(ringGot) + i

RingInv == RingTypes /\ Producing /\ Consuming /\ Holding

\* How many elements there are decides empty and full, and which slot is the producer's.
LEMMA HeldIs ==
    ASSUME RingTypes
    PROVE  /\ Held = IF out <= in THEN in - out ELSE in - out + SIZE
           /\ Held \in 0 .. SIZE - 1
           /\ (in = out <=> Held = 0)
           /\ (Ring!MASK(in + 1) = out <=> Held = SIZE - 1)
           /\ Ring!MASK(in + 1) = (IF in + 1 = SIZE THEN 0 ELSE in + 1)
           /\ Ring!MASK(out + 1) = (IF out + 1 = SIZE THEN 0 ELSE out + 1)
           /\ \A i \in 1 .. SIZE : /\ Ring!MASK(out + i - 1) \in 0 .. SIZE - 1
                                   /\ (Ring!MASK(out + i - 1) = in <=> i = Held + 1)
<1>1. /\ in \in Int /\ out \in Int
      /\ SIZE \in Nat \ {0} /\ in \in 0 .. SIZE - 1 /\ out \in 0 .. SIZE - 1
  BY RingAssumption DEF RingTypes
<1>2. Held = IF out <= in THEN in - out ELSE in - out + SIZE
  BY <1>1, MaskIs DEF Held
<1>3. Ring!MASK(in + 1) = IF in + 1 = SIZE THEN 0 ELSE in + 1
  BY <1>1, MaskIs
<1>5. Ring!MASK(out + 1) = IF out + 1 = SIZE THEN 0 ELSE out + 1
  BY <1>1, MaskIs
<1>6. Held \in 0 .. SIZE - 1 /\ (in = out <=> Held = 0) /\ (Ring!MASK(in + 1) = out <=> Held = SIZE - 1)
  BY <1>1, <1>2, <1>3
<1>4. \A i \in 1 .. SIZE : Ring!MASK(out + i - 1) = IF out + i - 1 < SIZE THEN out + i - 1 ELSE out + i - 1 - SIZE
  BY <1>1, MaskIs
<1>7. ASSUME NEW i \in 1 .. SIZE
      PROVE  Ring!MASK(out + i - 1) \in 0 .. SIZE - 1 /\ (Ring!MASK(out + i - 1) = in <=> i = Held + 1)
  <2>1. Ring!MASK(out + i - 1) = IF out + i - 1 < SIZE THEN out + i - 1 ELSE out + i - 1 - SIZE
    BY <1>4
  <2> HIDE DEF Held
  <2> QED
    BY <2>1, <1>1, <1>2
<1> QED
  BY <1>2, <1>3, <1>5, <1>6, <1>7

\* The invariant holds at first.
LEMMA RingInit == ASSUME Ring!Init PROVE RingInv
<1>1. RingTypes
  BY RingAssumption DEF Ring!Init, RingTypes
<1>2. Held = 0
  BY <1>1, HeldIs DEF Ring!Init
<1> QED
  BY <1>1, <1>2, RingAssumption DEF Ring!Init, RingInv, Producing, Consuming, Holding

\* The steps of push keep it; only the store is seen by the abstract queue.
LEMMA RingCheckStep ==
    ASSUME RingInv, Ring!PushCheck(Len(sent) + 1), UNCHANGED <<prev, g_value, failed>>
    PROVE  RingInv' /\ UNCHANGED Ring!Contents
<1>1. RingTypes' /\ Held' = Held
  BY RingAssumption DEF RingInv, RingTypes, Ring!PushCheck, Held
<1>2. Producing' /\ Consuming'
  BY RingAssumption DEF RingInv, RingTypes, Ring!PushCheck, Producing, Consuming, Ring!Full
<1>3. Holding' /\ UNCHANGED Ring!Contents
  BY <1>1, RingAssumption DEF RingInv, RingTypes, Ring!PushCheck, Holding, Ring!Contents
<1> QED
  BY <1>1, <1>2, <1>3 DEF RingInv

LEMMA RingWriteStep ==
    ASSUME RingInv, Ring!PushWrite, UNCHANGED <<prev, g_value, failed>>
    PROVE  RingInv' /\ UNCHANGED Ring!Contents
<1>1. RingTypes' /\ Held' = Held
  BY ZenonT(30), RingAssumption DEF RingInv, RingTypes, Ring!PushWrite, Held
<1>2. Producing' /\ Consuming'
  BY RingAssumption DEF RingInv, RingTypes, Ring!PushWrite, Producing, Consuming
<1>3. \A i \in 1 .. Held : Ring!MASK(out + i - 1) \in 0 .. SIZE - 1 /\ Ring!MASK(out + i - 1) # in
  <2>1. RingTypes /\ SIZE \in Nat
    BY RingAssumption DEF RingInv
  <2>2. Held \in 0 .. SIZE - 1
    BY <2>1, HeldIs
  <2> QED
    BY <2>1, <2>2, HeldIs
<1>4. \A i \in 1 .. Held : buffer'[Ring!MASK(out + i - 1)] = buffer[Ring!MASK(out + i - 1)]
  BY <1>3 DEF RingInv, RingTypes, Ring!PushWrite
<1>5. Holding' /\ UNCHANGED Ring!Contents
  BY ZenonT(30), <1>1, <1>4 DEF RingInv, RingTypes, Ring!PushWrite, Holding, Ring!Contents, Held
<1> QED
  BY <1>1, <1>2, <1>5 DEF RingInv

LEMMA RingStoreStep ==
    ASSUME RingInv, Ring!PushStore, UNCHANGED <<prev, g_value, failed>>
    PROVE  RingInv' /\ Ring!Queue!Enqueue(prod.elem) /\ prod.elem \in Number
<1>0. RingTypes /\ SIZE \in Nat /\ SIZE > 1
  BY RingAssumption DEF RingInv
<1>1. in' = (IF in + 1 = SIZE THEN 0 ELSE in + 1) /\ out' = out /\ buffer' = buffer
  BY <1>0, HeldIs DEF Ring!PushStore
<1>2. RingTypes'
  <2>1. in' \in 0 .. SIZE - 1
    BY <1>0, <1>1 DEF RingTypes
  <2>2. prod' \in [pc : {"idle", "write", "store"}, elem : Int]
    BY ZenonT(30), <1>0 DEF RingTypes, Ring!PushStore
  <2>3. sent' \in Seq(Int)
    <3>1. prod.elem \in Int /\ sent \in Seq(Int)
      BY <1>0 DEF RingTypes
    <3> QED
      BY <3>1 DEF Ring!PushStore
  <2> QED
    BY <1>0, <1>1, <2>1, <2>2, <2>3 DEF RingTypes, Ring!PushStore
<1>3. Held # SIZE - 1 /\ Held \in 0 .. SIZE - 1
  BY <1>0, HeldIs DEF RingInv, Producing, Ring!PushStore
<1>4. Held' = Held + 1
  <2>1. Held = IF out <= in THEN in - out ELSE in - out + SIZE
    BY <1>0, HeldIs
  <2>2. Held' = IF out' <= in' THEN in' - out' ELSE in' - out' + SIZE
    <3>1. /\ in' \in Int /\ out' \in Int
          /\ in' - out' \in Int /\ in' \in 0 .. SIZE - 1 /\ out' \in 0 .. SIZE - 1
      BY <1>0, <1>2 DEF RingTypes
    <3> QED
      BY <1>0, <3>1, MaskIs DEF Held
  <2>3. in \in 0 .. SIZE - 1 /\ out \in 0 .. SIZE - 1
    BY <1>0 DEF RingTypes
  <2> HIDE DEF Held
  <2> QED
    BY <1>0, <1>1, <1>3, <2>1, <2>2, <2>3
<1>5. prod.elem = Len(sent) + 1 /\ Len(sent) < COUNT /\ buffer[in] = prod.elem
  BY DEF RingInv, Producing, Ring!PushStore
<1>6. Ring!MASK(out + (Held + 1) - 1) = in
  BY <1>0, <1>3, HeldIs
<1>7. prod.elem \in Number
  BY <1>5, <1>0, RingAssumption DEF RingTypes
<1>8. Producing'
  BY <1>0, <1>5, RingAssumption DEF RingInv, RingTypes, Ring!PushStore, Producing
<1>9. Consuming'
  BY DEF RingInv, Ring!PushStore, Producing, Consuming
<1>10. Holding'
  <2>1. Len(sent') = Len(sent) + 1 /\ ringGot' = ringGot
    BY <1>0 DEF RingTypes, Ring!PushStore
  <2>2. Len(sent) = Len(ringGot) + Held /\ Len(ringGot) \in Nat
    BY <1>0 DEF RingInv, Holding, RingTypes
  <2>3. \A i \in 1 .. Held + 1 : buffer[Ring!MASK(out + i - 1)] = Len(ringGot) + i
    BY <1>3, <1>5, <1>6, <2>2 DEF RingInv, Holding
  <2> QED
    BY <1>1, <1>3, <1>4, <2>1, <2>2, <2>3 DEF Holding
<1>11. Ring!Contents' = Append(Ring!Contents, prod.elem) /\ Len(Ring!Contents) < SIZE - 1
  <2>1. Ring!Contents = [i \in 1 .. Held |-> buffer[Ring!MASK(out + i - 1)]]
    BY DEF Ring!Contents, Held
  <2>2. Ring!Contents' = [i \in 1 .. Held + 1 |-> buffer[Ring!MASK(out + i - 1)]]
    BY <1>1, <1>4 DEF Ring!Contents, Held
  <2>3. \A i \in 1 .. Held : buffer[Ring!MASK(out + i - 1)] \in Int
    <3>1. \A i \in 1 .. Held : Ring!MASK(out + i - 1) \in 0 .. SIZE - 1
      BY <1>0, <1>3, HeldIs
    <3> QED
      BY <1>0, <3>1 DEF RingTypes
  <2>4. Ring!Contents \in Seq(Int) /\ Len(Ring!Contents) = Held
    BY <1>3, <2>1, <2>3
  <2>5. Append(Ring!Contents, prod.elem) = [i \in 1 .. Held + 1 |-> IF i = Held + 1 THEN prod.elem ELSE Ring!Contents[i]]
    BY <1>3, <2>4
  <2>6. \A i \in 1 .. Held + 1 : buffer[Ring!MASK(out + i - 1)] = IF i = Held + 1 THEN prod.elem ELSE Ring!Contents[i]
    <3> SUFFICES ASSUME NEW i \in 1 .. Held + 1
                 PROVE  buffer[Ring!MASK(out + i - 1)] = IF i = Held + 1 THEN prod.elem ELSE Ring!Contents[i]
      OBVIOUS
    <3>1. CASE i = Held + 1
      BY <3>1, <1>5, <1>6
    <3>2. CASE i # Held + 1
      <4>1. i \in 1 .. Held
        BY <3>2, <1>3
      <4> QED
        BY <3>2, <4>1, <2>1
    <3> QED
      BY <3>1, <3>2
  <2>7. Ring!Contents' = Append(Ring!Contents, prod.elem)
    BY <2>2, <2>5, <2>6
  <2> QED
    BY <1>0, <1>3, <2>4, <2>7
<1> QED
  BY <1>2, <1>7, <1>8, <1>9, <1>10, <1>11 DEF RingInv, Ring!Queue!Enqueue

\* The steps of pop keep it; only the store is seen by the abstract queue.
LEMMA RingPopCheckStep ==
    ASSUME RingInv, Ring!PopCheck, UNCHANGED <<prev, g_value, failed>>
    PROVE  RingInv' /\ UNCHANGED Ring!Contents
<1>1. RingTypes' /\ Held' = Held
  BY ZenonT(30) DEF RingInv, RingTypes, Ring!PopCheck, Held
<1>2. Producing' /\ Consuming'
  BY DEF RingInv, RingTypes, Ring!PopCheck, Producing, Consuming
<1>3. Holding' /\ UNCHANGED Ring!Contents
  BY <1>1 DEF RingInv, Ring!PopCheck, Holding, Ring!Contents
<1> QED
  BY <1>1, <1>2, <1>3 DEF RingInv

LEMMA RingPopReadStep ==
    ASSUME RingInv, Ring!PopRead, UNCHANGED <<prev, g_value, failed>>
    PROVE  RingInv' /\ UNCHANGED Ring!Contents
<1>1. RingTypes' /\ Held' = Held
  BY SMTT(30) DEF RingInv, RingTypes, Ring!PopRead, Held
<1>2. Producing'
  BY DEF RingInv, Ring!PopRead, Producing
<1>3. buffer[out] = Len(ringGot) + 1
  <2>1. RingTypes /\ SIZE \in Nat /\ SIZE > 1
    BY RingAssumption DEF RingInv
  <2>2. Held # 0 /\ Held \in 0 .. SIZE - 1
    BY <2>1, HeldIs DEF RingInv, Consuming, Ring!PopRead
  <2>3. Ring!MASK(out + 1 - 1) = out
    BY <2>1, MaskIs DEF RingTypes
  <2> QED
    BY <2>1, <2>2, <2>3 DEF RingInv, Holding
<1>4. Consuming'
  BY <1>3 DEF RingInv, RingTypes, Ring!PopRead, Consuming
<1>5. Holding' /\ UNCHANGED Ring!Contents
  BY <1>1 DEF RingInv, Ring!PopRead, Holding, Ring!Contents
<1> QED
  BY <1>1, <1>2, <1>4, <1>5 DEF RingInv

LEMMA RingPopStoreStep ==
    ASSUME RingInv, Ring!PopStore,
           failed' = (failed \/ prev + 1 # cons.elem), prev' = cons.elem, g_value' = g_value + cons.elem
    PROVE  RingInv' /\ Ring!Queue!Dequeue
<1>0. RingTypes /\ SIZE \in Nat /\ SIZE > 1
  BY RingAssumption DEF RingInv
<1>1. out' = (IF out + 1 = SIZE THEN 0 ELSE out + 1) /\ in' = in /\ buffer' = buffer
  BY <1>0, HeldIs DEF Ring!PopStore
<1>2. cons.elem = Len(ringGot) + 1 /\ cons.elem \in Int /\ Len(ringGot) \in Nat /\ prev = Len(ringGot)
  BY <1>0 DEF RingInv, Consuming, Ring!PopStore, RingTypes
<1>3. RingTypes' /\ Len(ringGot') = Len(ringGot) + 1
  <2>1. out' \in 0 .. SIZE - 1
    BY <1>0, <1>1 DEF RingTypes
  <2>2. cons' \in [pc : {"idle", "read", "store"}, elem : Int]
    BY ZenonT(30), <1>0 DEF RingTypes, Ring!PopStore
  <2>3. ringGot' \in Seq(Int) /\ Len(ringGot') = Len(ringGot) + 1
    <3>1. ringGot \in Seq(Int)
      BY <1>0 DEF RingTypes
    <3> QED
      BY <3>1, <1>2 DEF Ring!PopStore
  <2>4. prev' \in Int /\ g_value' \in Int /\ failed' \in BOOLEAN
    BY <1>0, <1>2 DEF RingTypes
  <2> QED
    BY <1>0, <1>1, <2>1, <2>2, <2>3, <2>4 DEF RingTypes, Ring!PopStore
<1>4. Held # 0 /\ Held \in 0 .. SIZE - 1
  BY <1>0, HeldIs DEF RingInv, Consuming, Ring!PopStore
<1>5. Held' = Held - 1
  <2>1. Held = IF out <= in THEN in - out ELSE in - out + SIZE
    BY <1>0, HeldIs
  <2>2. Held' = IF out' <= in' THEN in' - out' ELSE in' - out' + SIZE
    <3>1. /\ in' \in Int /\ out' \in Int
          /\ in' - out' \in Int /\ in' \in 0 .. SIZE - 1 /\ out' \in 0 .. SIZE - 1
      BY <1>0, <1>3 DEF RingTypes
    <3> QED
      BY <1>0, <3>1, MaskIs DEF Held
  <2>3. in \in 0 .. SIZE - 1 /\ out \in 0 .. SIZE - 1
    BY <1>0 DEF RingTypes
  <2> QED
    BY <1>0, <1>1, <1>4, <2>1, <2>2, <2>3
<1>6. ASSUME NEW i \in 1 .. Held - 1
      PROVE  Ring!MASK(out' + i - 1) = Ring!MASK(out + (i + 1) - 1)
  <2>1. out \in 0 .. SIZE - 1 /\ out \in Int /\ i \in Int /\ i >= 1 /\ i + 1 <= SIZE - 1
    BY <1>0, <1>4 DEF RingTypes
  <2>2. Ring!MASK(out' + i - 1) = IF out' + i - 1 < SIZE THEN out' + i - 1 ELSE out' + i - 1 - SIZE
    BY <1>0, <1>1, <2>1, MaskIs
  <2>3. Ring!MASK(out + (i + 1) - 1) = IF out + i < SIZE THEN out + i ELSE out + i - SIZE
    BY <1>0, <2>1, MaskIs
  <2> QED
    BY <1>0, <1>1, <2>1, <2>2, <2>3
<1>7. Producing'
  <2>1. prod.pc # "idle" => Ring!MASK(in + 1) # out'
    <3>1. Ring!MASK(in + 1) = (IF in + 1 = SIZE THEN 0 ELSE in + 1) /\ in # out
      BY <1>0, HeldIs DEF RingInv, Consuming, Ring!PopStore
    <3> QED
      BY SMTT(30), <1>0, <1>1, <3>1 DEF RingTypes
  <2> QED
    BY <1>1, <2>1 DEF RingInv, Producing, Ring!PopStore
<1>8. Consuming'
  <2>1. 2 * (g_value + cons.elem) = cons.elem * (cons.elem + 1)
    <3>1. g_value \in Int /\ 2 * g_value = prev * (prev + 1)
      BY <1>0 DEF RingInv, Consuming, RingTypes
    <3> QED
      BY <1>2, <3>1
  <2>2. cons'.pc = "idle"
    BY <1>0 DEF Ring!PopStore, RingTypes
  <2> QED
    BY ZenonT(30), <1>2, <1>3, <2>1, <2>2 DEF RingInv, Consuming, Ring!PopStore
<1>9. Holding'
  <2>1. Len(sent) = Len(ringGot) + Held
    BY DEF RingInv, Holding
  <2>2. \A i \in 1 .. Held - 1 : buffer[Ring!MASK(out + (i + 1) - 1)] = Len(ringGot) + (i + 1)
    <3>1. \A k \in 1 .. Held : buffer[Ring!MASK(out + k - 1)] = Len(ringGot) + k
      BY DEF RingInv, Holding
    <3>2. \A i \in 1 .. Held - 1 : i + 1 \in 1 .. Held
      BY <1>4
    <3> QED
      BY <3>1, <3>2
  <2>3. \A i \in 1 .. Held - 1 : buffer'[Ring!MASK(out' + i - 1)] = Len(ringGot') + i
    BY <1>1, <1>2, <1>3, <1>6, <2>2
  <2>4. sent' = sent
    BY DEF Ring!PopStore
  <2> QED
    BY <1>2, <1>3, <1>4, <1>5, <2>1, <2>3, <2>4 DEF Holding
<1>10. Ring!Contents # <<>> /\ Ring!Contents' = Tail(Ring!Contents)
  <2>1. Ring!Contents = [i \in 1 .. Held |-> buffer[Ring!MASK(out + i - 1)]]
    BY DEF Ring!Contents, Held
  <2>2. Ring!Contents' = [i \in 1 .. Held - 1 |-> buffer[Ring!MASK(out' + i - 1)]]
    BY <1>1, <1>5 DEF Ring!Contents, Held
  <2>3. \A i \in 1 .. Held : buffer[Ring!MASK(out + i - 1)] \in Int
    <3>1. \A i \in 1 .. Held : Ring!MASK(out + i - 1) \in 0 .. SIZE - 1
      BY <1>0, <1>4, HeldIs
    <3> QED
      BY <1>0, <3>1 DEF RingTypes
  <2>4. Ring!Contents \in Seq(Int) /\ Len(Ring!Contents) = Held
    BY <1>4, <2>1, <2>3
  <2>5. Tail(Ring!Contents) = [i \in 1 .. Held - 1 |-> Ring!Contents[i + 1]]
    <3>1. Ring!Contents # <<>>
      BY <1>4, <2>4
    <3>2. Tail(Ring!Contents) \in Seq(Int) /\ Len(Tail(Ring!Contents)) = Held - 1
      BY <1>4, <2>4, <3>1
    <3>3. \A i \in 1 .. Held - 1 : Tail(Ring!Contents)[i] = Ring!Contents[i + 1]
      BY <1>4, <2>4, <3>1
    <3>4. Tail(Ring!Contents) = [i \in 1 .. Held - 1 |-> Tail(Ring!Contents)[i]]
      BY ZenonT(30), <3>2, SeqIsFunction
    <3> QED
      BY ZenonT(30), <3>3, <3>4
  <2>6. \A i \in 1 .. Held - 1 : Ring!Contents[i + 1] = buffer[Ring!MASK(out' + i - 1)]
    BY <1>4, <1>6, <2>1
  <2> QED
    BY <1>4, <2>2, <2>4, <2>5, <2>6
<1> QED
  BY <1>3, <1>7, <1>8, <1>9, <1>10 DEF RingInv, Ring!Queue!Dequeue

\* Every step keeps the invariant and is a step of the queue, or is not seen by it.
LEMMA RingStep ==
    ASSUME RingInv, [Ring!Next]_(Ring!vars)
    PROVE  RingInv' /\ [Ring!Queue!Dequeue \/ \E v \in Number : Ring!Queue!Enqueue(v)]_(Ring!Contents)
<1>1. CASE Ring!produce
  BY <1>1, RingCheckStep, RingWriteStep, RingStoreStep DEF Ring!produce
<1>2. CASE Ring!consume
  <2>1. CASE Ring!PopCheck
    BY <1>2, <2>1, RingPopCheckStep DEF Ring!consume, Ring!PopCheck
  <2>2. CASE Ring!PopRead
    BY <1>2, <2>2, RingPopReadStep DEF Ring!consume, Ring!PopRead
  <2>3. CASE Ring!PopStore
    BY <1>2, <2>3, RingPopStoreStep DEF Ring!consume, Ring!PopStore
  <2> QED
    BY <1>2, <2>1, <2>2, <2>3 DEF Ring!consume
<1>3. CASE UNCHANGED Ring!vars
  <2>1. RingInv' /\ Ring!Contents' = Ring!Contents
    BY <1>3 DEF Ring!vars, RingInv, RingTypes, Producing, Consuming, Holding, Held, Ring!Contents
  <2> QED
    BY <2>1
<1> QED
  BY <1>1, <1>2, <1>3 DEF Ring!Next

-----------------------------------------------------------------------------
(***************************************************************************)
(* Queue.  TypeOK says all that is needed besides the property itself: a   *)
(* consumer goes to sleep only when the container is empty, and from then  *)
(* on every element comes with a producer that notifies.                   *)
(***************************************************************************)
WakeInv == TypeOK /\ NoLostWakeup

\* The sets that are counted are finite.
LEMMA Finite ==
    ASSUME Counting, TypeOK
    PROVE  /\ IsFiniteSet(notifying) /\ Cardinality(notifying) \in Nat
           /\ IsFiniteSet(awake) /\ Cardinality(awake) \in Nat
<1>1. /\ IsFiniteSet(Producer) /\ notifying \in SUBSET Producer
      /\ IsFiniteSet(Consumer) /\ awake \in SUBSET Consumer
  BY ZenonT(30), MonitorQueueAssumption DEF TypeOK
<1> QED
  BY ZenonT(30), <1>1 DEF Counting

\* The part of the type that Take changes.
LEMMA TakeType ==
    ASSUME TypeOK, Take
    PROVE  container' \in Seq(Nat) /\ got' \in Seq(Nat) /\ Len(container') = Len(container) - 1
<1>1. Head(container) \in Nat /\ Tail(container) \in Seq(Nat)
        /\ Len(Tail(container)) = Len(container) - 1
  BY DEF TypeOK, Take
<1> QED
  BY <1>1 DEF TypeOK, Take

LEMMA PushKeeps == ASSUME Counting, WakeInv, NEW p \in Producer, Push(p) PROVE WakeInv'
<1> USE DEF WakeInv, Push
<1>1. TypeOK'
  BY MonitorQueueAssumption DEF TypeOK
<1>2. Len(container') = Len(container) + 1 /\ Len(container) \in Nat
  BY DEF TypeOK
<1>3. Cardinality(notifying') = Cardinality(notifying) + 1
  BY ZenonT(30), Finite DEF Counting
<1>4. NoLostWakeup'
  BY <1>2, <1>3, Finite DEF NoLostWakeup
<1> QED
  BY <1>1, <1>4

LEMMA NotifyKeeps == ASSUME Counting, WakeInv, NEW p \in Producer, Notify(p) PROVE WakeInv'
<1> USE DEF WakeInv
<1>1. Cardinality(notifying') = Cardinality(notifying) - 1
  BY ZenonT(30), Finite DEF Counting, Notify
<1>2. CASE asleep = {}
  BY <1>2 DEF Notify, TypeOK, NoLostWakeup
<1>3. CASE asleep # {}
  <2>1. PICK c \in asleep : asleep' = asleep \ {c} /\ awake' = awake \cup {c}
    BY <1>3 DEF Notify
  <2>2. Cardinality(awake') = Cardinality(awake) + 1
    BY ZenonT(30), <2>1, Finite DEF Counting, TypeOK
  <2>3. TypeOK'
    BY <2>1 DEF TypeOK, Notify
  <2>4. Len(container) \in Nat /\ container' = container
    BY DEF TypeOK, Notify
  <2>5. NoLostWakeup'
    BY <1>1, <1>3, <2>2, <2>4, Finite DEF NoLostWakeup
  <2> QED
    BY <2>3, <2>5
<1> QED
  BY <1>2, <1>3

LEMMA TryPopKeeps == ASSUME Counting, WakeInv, NEW c \in Consumer, TryPop(c) PROVE WakeInv'
<1> USE DEF WakeInv, TryPop
<1>1. TypeOK'
  BY TakeType DEF TypeOK
<1>2. Len(container') <= Len(container) /\ Len(container) \in Nat /\ Len(container') \in Nat
  BY TakeType DEF TypeOK
<1>3. NoLostWakeup'
  BY <1>2, Finite DEF NoLostWakeup
<1> QED
  BY <1>1, <1>3

LEMMA WaitAndPopKeeps == ASSUME Counting, WakeInv, NEW c \in Consumer, WaitAndPop(c) PROVE WakeInv'
<1> USE DEF WakeInv, WaitAndPop
<1>0. Cardinality(awake') >= Cardinality(awake) - 1 /\ Cardinality(awake') \in Nat
  <2>1. CASE c \in awake
    <3>1. awake' = awake \ {c} /\ Cardinality(awake \ {c}) = Cardinality(awake) - 1
      BY ZenonT(30), <2>1, Finite DEF Counting
    <3>2. awake \ {c} \in SUBSET awake
      OBVIOUS
    <3>3. Cardinality(awake \ {c}) \in Nat
      BY ZenonT(30), <3>2, Finite DEF Counting
    <3>4. Cardinality(awake') = Cardinality(awake \ {c})
      BY ZenonT(30), <3>1
    <3>5. Cardinality(awake) \in Nat
      BY Finite
    <3> HIDE DEF WaitAndPop
    <3> QED
      BY <3>1, <3>3, <3>4, <3>5
  <2>2. CASE c \notin awake
    <3>1. awake' = awake
      BY <2>2
    <3>2. Cardinality(awake) \in Nat
      BY Finite
    <3>3. Cardinality(awake') = Cardinality(awake)
      BY ZenonT(30), <3>1
    <3> HIDE DEF WaitAndPop
    <3> QED
      BY <3>2, <3>3
  <2> QED
    BY <2>1, <2>2
<1>1. CASE Take /\ UNCHANGED asleep
  <2>1. TypeOK'
    BY <1>1, TakeType DEF TypeOK
  <2>2. Len(container') = Len(container) - 1 /\ Len(container) \in Nat
    BY <1>1, TakeType DEF TypeOK
  <2>3. NoLostWakeup'
    BY <1>0, <1>1, <2>2, Finite DEF NoLostWakeup
  <2> QED
    BY <2>1, <2>3
<1>2. CASE container = <<>> /\ asleep' = asleep \cup {c} /\ UNCHANGED <<container, got>>
  <2>1. TypeOK'
    BY <1>2 DEF TypeOK
  <2>2. NoLostWakeup'
    BY <1>0, <1>2, Finite DEF NoLostWakeup
  <2> QED
    BY <2>1, <2>2
<1> QED
  BY <1>1, <1>2

LEMMA SpuriousWakeupKeeps == ASSUME Counting, WakeInv, NEW c \in Consumer, SpuriousWakeup(c) PROVE WakeInv'
<1> USE DEF WakeInv, SpuriousWakeup
<1>1. TypeOK'
  BY DEF TypeOK
<1>2. Cardinality(awake') = Cardinality(awake) + 1
  BY ZenonT(30), Finite DEF Counting, TypeOK
<1>3. Len(container) \in Nat
  BY DEF TypeOK
<1>4. NoLostWakeup'
  BY <1>2, <1>3, Finite DEF NoLostWakeup
<1> QED
  BY <1>1, <1>4

\* The order, element by element: what was taken are the first numbers, what is left
\* are those that follow.
OrderInv ==
    /\ TypeOK
    /\ Len(got) + Len(container) = pushes
    /\ \A i \in 1 .. Len(got) : got[i] = i
    /\ \A i \in 1 .. Len(container) : container[i] = Len(got) + i

\* A push adds the next number, a pop moves the first of the rest.
LEMMA OrderKept == ASSUME OrderInv, TypeOK', [Next]_vars PROVE OrderInv'
<1>0. container \in Seq(Nat) /\ got \in Seq(Nat) /\ pushes \in Nat /\ Len(container) \in Nat /\ Len(got) \in Nat
  BY MonitorQueueAssumption DEF OrderInv, TypeOK
<1>1. ASSUME NEW p \in Producer, Push(p) PROVE OrderInv'
  <2>1. container' = Append(container, pushes + 1) /\ pushes' = pushes + 1 /\ got' = got
    BY <1>1 DEF Push
  <2>2. Len(container') = Len(container) + 1
    BY <1>0, <2>1
  <2>3. \A i \in 1 .. Len(container) + 1 :
           container'[i] = IF i <= Len(container) THEN container[i] ELSE pushes + 1
    BY <1>0, <2>1
  <2>4. Len(got) + Len(container) = pushes
    BY DEF OrderInv
  <2>5. \A i \in 1 .. Len(container) + 1 : container'[i] = Len(got) + i
    BY <1>0, <2>3, <2>4 DEF OrderInv
  <2>6. Len(got) + Len(container') = pushes + 1
    BY <1>0, <2>2, <2>4
  <2> QED
    BY <2>1, <2>2, <2>5, <2>6 DEF OrderInv
<1>2. ASSUME Take, pushes' = pushes PROVE OrderInv'
  <2>1. container # <<>> /\ got' = Append(got, Head(container)) /\ container' = Tail(container)
    BY <1>2 DEF Take
  <2>2. Len(container') = Len(container) - 1 /\ Len(got') = Len(got) + 1 /\ Len(container) >= 1
    BY <1>0, <2>1
  <2>3. \A i \in 1 .. Len(container) - 1 : container'[i] = container[i + 1]
    BY <1>0, <2>1
  <2>4. \A i \in 1 .. Len(got) + 1 : got'[i] = IF i <= Len(got) THEN got[i] ELSE container[1]
    BY <1>0, <2>1
  <2>5. container[1] = Len(got) + 1
    BY <1>0, <2>2 DEF OrderInv
  <2>6. \A i \in 1 .. Len(got) + 1 : got'[i] = i
    <3>1. \A i \in 1 .. Len(got) : got[i] = i
      BY DEF OrderInv
    <3> QED
      BY <1>0, <2>4, <2>5, <3>1
  <2>7. \A i \in 1 .. Len(container) - 1 : container'[i] = Len(got) + 1 + i
    BY <1>0, <2>3 DEF OrderInv
  <2>8. Len(got') + Len(container') = pushes'
    <3>1. Len(got) + Len(container) = pushes
      BY DEF OrderInv
    <3>2. (Len(got) + 1) + (Len(container) - 1) = pushes
      BY <1>0, <3>1
    <3> QED
      BY <1>2, <2>2, <3>2
  <2> QED
    BY <2>2, <2>6, <2>7, <2>8 DEF OrderInv
<1>3. ASSUME UNCHANGED <<container, pushes, got>> PROVE OrderInv'
  BY <1>3 DEF OrderInv
<1> QED
  BY <1>1, <1>2, <1>3 DEF Next, vars, Notify, TryPop, WaitAndPop, SpuriousWakeup

\* Element by element means that the two sequences together are 1, ..., pushes.
LEMMA OrderMeans == ASSUME OrderInv PROVE Served
<1>0. container \in Seq(Nat) /\ got \in Seq(Nat) /\ pushes \in Nat /\ Len(container) \in Nat /\ Len(got) \in Nat
  BY MonitorQueueAssumption DEF OrderInv, TypeOK
<1>1. got \o container \in Seq(Nat) /\ Len(got \o container) = pushes
  BY <1>0 DEF OrderInv
<1>2. \A i \in 1 .. pushes : (got \o container)[i] = IF i <= Len(got) THEN got[i] ELSE container[i - Len(got)]
  BY <1>0, <1>1 DEF OrderInv
<1>3. \A i \in 1 .. pushes : (got \o container)[i] = i
  BY <1>0, <1>2 DEF OrderInv
<1>4. got \o container = [i \in 1 .. pushes |-> (got \o container)[i]]
  BY ZenonT(30), <1>1, SeqIsFunction
<1> QED
  BY <1>3, <1>4, ZenonT(30) DEF Served

\* Every step of Queue keeps both invariants.
LEMMA WakeStep == ASSUME Counting, WakeInv, [Next]_vars PROVE WakeInv'
<1>1. CASE UNCHANGED vars
  BY <1>1 DEF vars, WakeInv, TypeOK, NoLostWakeup
<1>2. CASE Next
  BY <1>2, PushKeeps, NotifyKeeps, TryPopKeeps, WaitAndPopKeeps, SpuriousWakeupKeeps DEF Next
<1> QED
  BY <1>1, <1>2

-----------------------------------------------------------------------------
(***************************************************************************)
(* All of them side by side: what a step of QueuesNext is for each.         *)
(***************************************************************************)
QueuesInv == WakeInv /\ OrderInv /\ V2Inv /\ RingInv /\ LogCase

LEMMA QueuesStart == ASSUME QueuesInit PROVE QueuesInv /\ V2!Contents = <<>> /\ Ring!Contents = <<>>
<1>1. Init /\ V2!Init /\ Ring!Init /\ Log!Init
  BY DEF QueuesInit
<1>2. WakeInv
  BY <1>1, MonitorQueueAssumption DEF Init, WakeInv, TypeOK, NoLostWakeup
<1>3. OrderInv
  BY <1>1, <1>2 DEF Init, WakeInv, OrderInv
<1>4. V2Inv /\ V2!Contents = <<>>
  BY <1>1, V2Init
<1>5. RingInv
  BY <1>1, RingInit
<1>6. Held = 0
  BY <1>1, <1>5, HeldIs DEF Ring!Init, RingInv
<1>7. Ring!Contents = <<>>
  BY <1>5, <1>6 DEF Ring!Contents, Held
<1>8. LogCase
  BY <1>1, LogStart DEF LogCase
<1> QED
  BY <1>2, <1>3, <1>4, <1>5, <1>7, <1>8 DEF QueuesInv

\* A step of one class leaves the others' variables alone.
LEMMA OneMoves ==
    ASSUME [QueuesNext]_allVars
    PROVE  /\ [Next]_vars /\ [V2!Next]_(V2!vars)
           /\ [Ring!Next]_(Ring!vars) /\ [Log!Next]_(Log!vars)
<1>1. UNCHANGED v2Vars => UNCHANGED V2!vars
  BY DEF v2Vars, V2!vars, V2!locks
<1>2. UNCHANGED ringVars => UNCHANGED Ring!vars
  BY DEF ringVars, Ring!vars
<1>3. UNCHANGED logVars => UNCHANGED Log!vars
  BY DEF logVars, Log!vars
<1>4. UNCHANGED allVars
        => UNCHANGED vars /\ UNCHANGED v2Vars /\ UNCHANGED ringVars /\ UNCHANGED logVars
  BY DEF allVars
<1>5. QueueStep => Next /\ UNCHANGED v2Vars /\ UNCHANGED ringVars /\ UNCHANGED logVars
  BY DEF QueueStep, Idle
<1>6. \A t \in Thread :
        V2Step(t) => V2!Next /\ UNCHANGED vars /\ UNCHANGED ringVars /\ UNCHANGED logVars
  BY DEF V2Step, V2!Next, Idle
<1>7. ProduceStep \/ ConsumeStep
        => Ring!Next /\ UNCHANGED vars /\ UNCHANGED v2Vars /\ UNCHANGED logVars
  BY DEF ProduceStep, ConsumeStep, Ring!Next, Idle
<1>8. LogStep => Log!Next /\ UNCHANGED vars /\ UNCHANGED v2Vars /\ UNCHANGED ringVars
  BY DEF LogStep, Idle
<1> QED
  BY <1>1, <1>2, <1>3, <1>4, <1>5, <1>6, <1>7, <1>8 DEF QueuesNext

LEMMA QueuesKept ==
    ASSUME Counting, QueuesInv, [QueuesNext]_allVars
    PROVE  /\ QueuesInv'
           /\ [V2!Queue!Dequeue \/ \E v \in 1 .. V2_PUSHES : V2!Queue!Enqueue(v)]_(V2!Contents)
           /\ [Ring!Queue!Dequeue \/ \E v \in Number : Ring!Queue!Enqueue(v)]_(Ring!Contents)
<1>1. WakeInv'
  BY OneMoves, WakeStep DEF QueuesInv
<1>2. OrderInv'
  BY <1>1, OneMoves, OrderKept DEF QueuesInv, WakeInv
<1>3. V2Inv' /\ [V2!Queue!Dequeue \/ \E v \in 1 .. V2_PUSHES : V2!Queue!Enqueue(v)]_(V2!Contents)
  BY OneMoves, V2Kept DEF QueuesInv
<1>4. RingInv' /\ [Ring!Queue!Dequeue \/ \E v \in Number : Ring!Queue!Enqueue(v)]_(Ring!Contents)
  BY OneMoves, RingStep DEF QueuesInv
<1>5. LogCase'
  BY OneMoves, LogKept DEF QueuesInv
<1> QED
  BY <1>1, <1>2, <1>3, <1>4, <1>5 DEF QueuesInv

-----------------------------------------------------------------------------
INSTANCE FiniteSetTheorems

\* A sequence of different nodes is no longer than there are nodes.
LEMMA Pigeonhole ==
    ASSUME NEW s, NEW k \in Nat, NEW top \in Nat,
           \A i \in 1 .. k : s[i] \in 0 .. top, \A i, j \in 1 .. k : s[i] = s[j] => i = j
    PROVE  k <= top + 1
<1> SUFFICES ASSUME k > top + 1 PROVE FALSE
  OBVIOUS
<1> DEFINE f == [i \in 1 .. k |-> s[i]]
<1>1. IsFiniteSet(1 .. k) /\ Cardinality(1 .. k) = k
  BY FS_Interval
<1>2. IsFiniteSet(0 .. top) /\ Cardinality(0 .. top) = top + 1
  BY FS_Interval
<1>3. f \in [1 .. k -> 0 .. top]
  OBVIOUS
<1>4. Cardinality(0 .. top) < Cardinality(1 .. k)
  BY <1>1, <1>2
<1> HIDE DEF f
<1>5. \E x, y \in 1 .. k : x # y /\ f[x] = f[y]
  BY <1>1, <1>2, <1>3, <1>4, FS_PigeonHole, ZenonT(30)
<1> USE DEF f
<1> QED
  BY <1>5

LEMMA Counted == Counting
<1>1. \A S : IsFiniteSet(S) => Cardinality(S) \in Nat
  BY ZenonT(30), FS_CardinalityType
<1>2. \A S : \A T \in SUBSET S : IsFiniteSet(S) => IsFiniteSet(T)
  BY ZenonT(30), FS_Subset
<1>3. \A S, x : IsFiniteSet(S) /\ x \notin S => Cardinality(S \cup {x}) = Cardinality(S) + 1
  BY ZenonT(30), FS_AddElement
<1>4. \A S, x : IsFiniteSet(S) /\ x \in S => Cardinality(S \ {x}) = Cardinality(S) - 1
  BY ZenonT(30), FS_RemoveElement
<1>5. ASSUME NEW s, NEW k \in Nat, NEW top \in Nat,
             \A i \in 1 .. k : s[i] \in 0 .. top, \A i, j \in 1 .. k : s[i] = s[j] => i = j
      PROVE  k <= top + 1
  BY ZenonT(30), <1>5, Pigeonhole
<1> QED
  BY ZenonT(30), <1>1, <1>2, <1>3, <1>4, <1>5 DEF Counting

\* While a consumer of Queue sleeps, every element has somebody who will see to it, a
\* producer about to call notify_one or a woken consumer: for any number of producers
\* and consumers, spurious wakeups included.
THEOREM WakeupsKept == QueuesSpec => []NoLostWakeup
<1>1. QueuesInit => QueuesInv
  BY QueuesStart
<1>2. QueuesInv /\ [QueuesNext]_allVars => QueuesInv'
  BY QueuesKept, Counted
<1>3. QueuesInv => NoLostWakeup
  BY DEF QueuesInv, WakeInv
<1> QED
  BY <1>1, <1>2, <1>3, PTL DEF QueuesSpec

\* What try_pop and wait_and_pop of Queue return, followed by what the container still
\* holds, is what was pushed, in order and with nothing missing.  The files of the logger
\* hold what was applied, the rest is in the two buffers, and files keep to their size, for
\* any number of threads and records and any size of the buffers and the files, as long as
\* no record is copied in the middle of a swap (Log.hpp:1305).
THEOREM OrderCorrect == QueuesSpec => []InOrder
<1>1. QueuesInit => QueuesInv
  BY QueuesStart
<1>2. QueuesInv /\ [QueuesNext]_allVars => QueuesInv'
  BY QueuesKept, Counted
<1>3. QueuesInv => InOrder
  BY OrderMeans, LogRoom DEF QueuesInv, InOrder
<1> QED
  BY <1>1, <1>2, <1>3, PTL DEF QueuesSpec

\* Neither queue has a data race: a push of Queue_v2 under _tail_mutex and a pop under
\* _head_mutex never touch one node, two pops never detach the same one, and the producer
\* of Fifo, which takes no lock at all, never writes the slot the consumer reads.  The logger
\* has no race but the one on sflag: where sflag is stored after ridx and rcur, a record is
\* always copied into room that neither the writer nor another thread uses, and where it is
\* stored before them, until a client has copied its record in between.
THEOREM RaceFree == QueuesSpec => []NoRace
<1>1. QueuesInit => QueuesInv
  BY QueuesStart
<1>2. QueuesInv /\ [QueuesNext]_allVars => QueuesInv'
  BY QueuesKept, Counted
<1>3. QueuesInv => NoRace
  <2>1. V2Inv => V2!NoRace /\ V2!SeparateNodes /\ V2!ChainLinked
    BY V2Apart DEF V2Inv
  <2>2. RingInv => Ring!NoRace
    BY DEF RingInv, Consuming, Ring!NoRace
  <2> QED
    BY <2>1, <2>2, LogRoom DEF QueuesInv, NoRace
<1> QED
  BY <1>1, <1>2, <1>3, PTL DEF QueuesSpec

\* The asserts of main() of Fifo hold: the numbers arrive in order, and their sum is that
\* of 1 .. count.
THEOREM CheckpointsHold == QueuesSpec => []Ring!Checkpoints
<1>1. QueuesInit => QueuesInv
  BY QueuesStart
<1>2. QueuesInv /\ [QueuesNext]_allVars => QueuesInv'
  BY QueuesKept, Counted
<1>3. QueuesInv => Ring!Checkpoints
  BY DEF QueuesInv, RingInv, Consuming, Ring!Checkpoints
<1> QED
  BY <1>1, <1>2, <1>3, PTL DEF QueuesSpec

\* Queue_v2 and Fifo are first-in first-out queues.  Queue_v2 changes where push moves
\* _tail and pop_head moves _head, Fifo, of capacity SIZE - 1, where push stores _in and
\* pop stores _out; no other step can be seen.
THEOREM ImplementQueues == QueuesSpec => QueueSpec
<1>1. QueuesInit => QueuesInv /\ V2!Contents = <<>> /\ Ring!Contents = <<>>
  BY QueuesStart
<1>2. QueuesInv /\ [QueuesNext]_allVars => QueuesInv'
  BY QueuesKept, Counted
<1>3. QueuesInv /\ [QueuesNext]_allVars
        => [V2!Queue!Dequeue \/ \E v \in 1 .. V2_PUSHES : V2!Queue!Enqueue(v)]_(V2!Contents)
  BY QueuesKept, Counted
<1>4. QueuesInv /\ [QueuesNext]_allVars
        => [Ring!Queue!Dequeue \/ \E v \in Number : Ring!Queue!Enqueue(v)]_(Ring!Contents)
  BY QueuesKept, Counted
<1>5. QueuesSpec => V2!QueueSpec
  BY <1>1, <1>2, <1>3, PTL DEF QueuesSpec, V2!QueueSpec, V2!Queue!QueueSpec
<1>6. QueuesSpec => Ring!QueueSpec
  BY <1>1, <1>2, <1>4, PTL DEF QueuesSpec, Ring!QueueSpec, Ring!Queue!QueueSpec
<1> QED
  BY <1>5, <1>6 DEF QueueSpec
==============================================================================
