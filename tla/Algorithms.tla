---------------------------- MODULE Algorithms ----------------------------
(***************************************************************************)
(* Three programs that have nothing to do with each other.                 *)
(*                                                                         *)
(* cuckoo_filter.cpp: buckets of fingerprints, two buckets for each item,  *)
(* and an add() that moves others out of its way.  An item is its          *)
(* std::hash value; one that was added may be added again or removed.      *)
(*                                                                         *)
(* alias_method.cpp: from n probabilities a table of n columns, each with  *)
(* a threshold and an alias, so that one number from [0, 1) chooses an     *)
(* index.  A number is an integer over Total: the unit is half an epsilon  *)
(* of the code's doubles.  One product may be off by up to an epsilon.     *)
(*                                                                         *)
(* perf/coroutine_pipeline: many binary searches interleaved so that each  *)
(* can prefetch, as hand-made frames (sm.h) and as coroutines in a ring    *)
(* with a throttle (coro.h, coro_infra.h), against naive.h.  A test        *)
(* (nanotest.cpp) runs one of them over all its keys.                      *)
(***************************************************************************)
EXTENDS Integers, FiniteSets, FiniteSetsExt, SequencesExt, Bitwise

CONSTANTS Items,       \* hash values
          Sizes,       \* N, powers of 2
          FBits,       \* the number of fingerprints, 2^16 in the code
          Ways,        \* entries of a bucket, 4 in the code
          magic_code,  \* the fingerprint that means a hole
          Retries,     \* 100 in the code
          MaxCopies    \* bound: how often the program adds an item

VARIABLES buckets, s_round,
          cuckoo,      \* the add() in progress: [item, f, i, retry], or NoCuckoo
          held,        \* the copies of each item that were added and not removed
          lost,        \* where a failed add() dropped a fingerprint: [f, pair]
          aborted      \* remove()'s assert(false)
-----------------------------------------------------------------------------
Entries == 1 .. Ways
NoCuckoo == [retry |-> 0]
Resting == cuckoo = NoCuckoo

N == Cardinality(DOMAIN buckets)
fingerprint(x) == x % FBits
hash(x) == x % N  \* of an item, and of a fingerprint: std::hash of it is itself
Alternate(i, f) == i ^^ hash(f)
Homes(x) == {hash(x), Alternate(hash(x), fingerprint(x))}

Slots(i, f) == {e \in Entries : buckets[i][e] = f}
bucket_has(i, f) == Slots(i, f) # {}
bucket_has_hole(i) == bucket_has(i, magic_code)
\* The first entry of a bucket that is f becomes g.
Replaced(i, f, g) == [buckets EXCEPT ![i][Min(Slots(i, f))] = g]
lookup(x) == \E i \in Homes(x) : bucket_has(i, fingerprint(x))

FilterInit ==
    /\ \E n \in Sizes : buckets = [i \in 0 .. n - 1 |-> [e \in Entries |-> magic_code]]
    /\ s_round = FALSE /\ cuckoo = NoCuckoo /\ held = [x \in Items |-> 0] /\ lost = {} /\ aborted = FALSE

\* The calls of add() take the two buckets in one order and in the other by turns.
add(x) ==
    LET f == fingerprint(x)
        i1 == hash(x)
        i2 == Alternate(i1, f)
        first == IF s_round THEN i1 ELSE i2
        second == IF s_round THEN i2 ELSE i1
        Put(i) == /\ buckets' = Replaced(i, magic_code, f) /\ held' = [held EXCEPT ![x] = @ + 1]
                  /\ UNCHANGED cuckoo
    IN  /\ Resting /\ ~aborted /\ held[x] < MaxCopies
        /\ s_round' = ~s_round /\ UNCHANGED <<lost, aborted>>
        /\ IF bucket_has_hole(first) THEN Put(first)
           ELSE IF bucket_has_hole(second) THEN Put(second)
           ELSE cuckoo' = [item |-> x, f |-> f, i |-> first, retry |-> Retries] /\ UNCHANGED <<buckets, held>>

\* mutant: where to go next is taken from the fingerprint that came, not from the one that leaves
NextBucketOfGuest(i, guest, f) == Alternate(i, guest)
NextBucket(i, guest, f) == Alternate(i, f)

\* One round: the fingerprint takes any entry, and the one that was there looks for another.
Kick ==
    /\ ~Resting /\ cuckoo.retry > 0
    /\ \E e \in Entries :
         LET f == buckets[cuckoo.i][e]
             next == NextBucket(cuckoo.i, cuckoo.f, f)
             kicked == [buckets EXCEPT ![cuckoo.i][e] = cuckoo.f]
             holes == {h \in Entries : kicked[next][h] = magic_code}
         IN  IF holes # {}
             THEN /\ buckets' = [kicked EXCEPT ![next][Min(holes)] = f]
                  /\ held' = [held EXCEPT ![cuckoo.item] = @ + 1] /\ cuckoo' = NoCuckoo
             ELSE /\ buckets' = kicked /\ UNCHANGED held
                  /\ cuckoo' = [cuckoo EXCEPT !.f = f, !.i = next, !.retry = @ - 1]
    /\ UNCHANGED <<s_round, lost, aborted>>

\* add() returns false, and the fingerprint it has in hand is gone.
Full ==
    /\ ~Resting /\ cuckoo.retry = 0
    /\ lost' = lost \cup {[f |-> cuckoo.f, pair |-> {cuckoo.i, Alternate(cuckoo.i, cuckoo.f)}]}
    /\ cuckoo' = NoCuckoo /\ UNCHANGED <<buckets, s_round, held, aborted>>

remove(x) ==
    LET f == fingerprint(x)
        i1 == hash(x)
        i == IF bucket_has(i1, f) THEN i1 ELSE Alternate(i1, f)
    IN  /\ Resting /\ ~aborted /\ held[x] > 0
        /\ IF bucket_has(i, f)
           THEN /\ buckets' = Replaced(i, f, magic_code) /\ held' = [held EXCEPT ![x] = @ - 1]
                /\ UNCHANGED aborted
           ELSE aborted' = TRUE /\ UNCHANGED <<buckets, held>>
        /\ UNCHANGED <<s_round, cuckoo, lost>>

FilterNext == (\E x \in Items : add(x) \/ remove(x)) \/ Kick \/ Full
-----------------------------------------------------------------------------
\* Nothing but the magic code or an add() that failed before excuses that x is not found.
Excused(x) == fingerprint(x) = magic_code \/ [f |-> fingerprint(x), pair |-> Homes(x)] \in lost

\* "lookup_failed MUST MUST MUST be 0": an item that was added and not removed is found,
\* through all the moves of other add() calls, and remove() aborts only for want of one.
NoFalseNegatives ==
    /\ Resting => \A x \in Items : held[x] > 0 => lookup(x) \/ Excused(x)
    /\ aborted => \E x \in Items : held[x] > 0 /\ Excused(x)
-----------------------------------------------------------------------------
CONSTANTS Total,     \* the denominator: 1.0 in the code
          EPS,       \* numeric_limits<double>::epsilon(), two units
          Weightings \* the probabilities, sequences that add up to Total (precondition())

VARIABLES probabilities,
          u,         \* the lists U[OVERFULL], U[FULL], U[UNDERFULL] of <<index, p>>
          aliases,   \* K, 0 where the code has N for uninitialized
          at,        \* the index the first loop has come to
          rounding,  \* the error in the sum of the products
          crashed    \* an assert(is_one(p)) that does not hold
-----------------------------------------------------------------------------
Size == Len(probabilities)
Distance(a, b) == IF a > b THEN a - b ELSE b - a
is_one(p) == Distance(p, Total) < EPS
get_type(p) == IF is_one(p) THEN "FULL" ELSE IF p > Total THEN "OVERFULL" ELSE "UNDERFULL"
Inserted(lists, i, p) == [lists EXCEPT ![get_type(p)] = Append(@, <<i, p>>)]
Marked(k, i, p) == IF is_one(p) THEN [k EXCEPT ![i] = i] ELSE k

AliasInit ==
    /\ probabilities \in Weightings
    /\ u = [type \in {"OVERFULL", "FULL", "UNDERFULL"} |-> <<>>]
    /\ aliases = [i \in 1 .. Size |-> 0] /\ at = 1 /\ rounding = 0 /\ crashed = FALSE

Errors == IF rounding = 0 /\ probabilities[at] > 0 THEN -EPS .. EPS ELSE {0}
Classify ==
    /\ at <= Size
    /\ \E d \in Errors :
         LET p == probabilities[at] * Size + d
         IN  /\ u' = Inserted(u, at, p) /\ aliases' = Marked(aliases, at, p)
             /\ rounding' = rounding + d
    /\ at' = at + 1 /\ UNCHANGED <<probabilities, crashed>>

\* What an overfull column keeps of its own when it fills the rest of another one
Remainder(over, under) == over - (Total - under)

Pairing == at > Size /\ u["OVERFULL"] # <<>> /\ u["UNDERFULL"] # <<>>
Pair ==
    LET over == Last(u["OVERFULL"])
        under == Last(u["UNDERFULL"])
        rest == Remainder(over[2], under[2])
    IN  /\ Pairing /\ ~crashed
        /\ u' = Inserted([OVERFULL |-> Front(u["OVERFULL"]), UNDERFULL |-> Front(u["UNDERFULL"]),
                          FULL |-> Append(u["FULL"], under)], over[1], rest)
        /\ aliases' = Marked([aliases EXCEPT ![under[1]] = over[1]], over[1], rest)
        /\ UNCHANGED <<probabilities, at, rounding, crashed>>

corner_case(type) ==
    LET top == Last(u[type])
    IN  /\ at > Size /\ ~Pairing /\ ~crashed /\ u[type] # <<>>
        /\ crashed' = ~is_one(top[2])
        /\ u' = [u EXCEPT ![type] = Front(@), !["FULL"] = Append(@, top)]
        /\ aliases' = [aliases EXCEPT ![top[1]] = top[1]]
        /\ UNCHANGED <<probabilities, at, rounding>>

AliasNext == Classify \/ Pair \/ corner_case("OVERFULL") \/ corner_case("UNDERFULL")
-----------------------------------------------------------------------------
full_u == [i \in 1 .. Size |-> LET j == CHOOSE k \in DOMAIN u["FULL"] : u["FULL"][k][1] = i IN u["FULL"][j][2]]
\* make(): the number x / (Size * Total) chooses a column and a point in it
make(x) ==
    LET i == x \div Total + 1
    IN  IF x % Total < full_u[i] THEN i ELSE aliases[i]

Made == at > Size /\ Len(u["FULL"]) = Size
\* The table that was made gives every index its probability, but for what one product was
\* off.  The assert of corner_case fails exactly when that is an epsilon or more: the columns
\* that are left when the overfull or the underfull ones have run out are full within it.
ChoicesExact ==
    /\ crashed => Distance(rounding, 0) >= EPS
    /\ Made /\ ~crashed =>
         /\ Distance(rounding, 0) < EPS
         /\ \A i \in 1 .. Size :
              Distance(Cardinality({x \in 0 .. Size * Total - 1 : make(x) = i}), Size * probabilities[i])
                  <= Distance(rounding, 0)
-----------------------------------------------------------------------------
\* at is also the frame the loop of sm.h is at, and the coroutine that runs, 0 for none.
CONSTANTS RingSize,   \* the ring's slots, 256 in the code
          Tables,     \* the sorted vectors v
          Lookups,    \* the sequences of keys
          Streams     \* the third argument of nanotest

VARIABLES test,       \* [v, lookups, streams, algo] and the phase
          key,        \* the next lookup of the for loop
          frames,     \* sm: the frames, coro: a frame per lookup: [first, len, val, state]
          found, missed,
          ring,       \* coro: [head, tail, arr]
          limit, mem  \* coro: the throttle, and tcalloc as [cached, alloc_count]

pipeVars == <<test, key, frames, at, found, missed, ring, limit, mem>>

Keys == DOMAIN test.lookups
Empty == [first |-> 0, len |-> 0, val |-> 0, state |-> "EMPTY"]

\* naive.h, the reference of the test
naive_binary_search(v, val) ==
    LET search[first \in 0 .. Len(v), len \in 0 .. Len(v)] ==
            IF len = 0 THEN FALSE
            ELSE LET half == len \div 2
                     x == v[first + half + 1]
                 IN  x = val \/ (IF x < val THEN search[first + half + 1, len - half - 1] ELSE search[first, half])
    IN  search[0, Len(v)]
testNaive == Cardinality({k \in Keys : naive_binary_search(test.v, test.lookups[k])})

PipeInit ==
    /\ test \in [v : Tables, lookups : Lookups, streams : Streams, algo : {"sm", "coro"}, phase : {"feed"}]
    /\ key = 1 /\ found = 0 /\ missed = 0 /\ limit = test.streams
    /\ IF test.algo = "sm" THEN frames = [s \in 1 .. test.streams |-> Empty] /\ at = test.streams
       ELSE frames = [k \in Keys |-> Empty] /\ at = 0
    /\ ring = [head |-> 0, tail |-> 0, arr |-> [i \in 0 .. RingSize - 1 |-> 0]]
    /\ mem = [cached |-> 0, alloc_count |-> 0]

\* One comparison of a search (Frame::run, the loop of CoroBinarySearch)
Above(f) == f.first + f.len \div 2 + 1
Halve(f) ==
    LET half == f.len \div 2
        x == test.v[f.first + half + 1]
        left == IF x < test.lookups[f.val] THEN f.len - half - 1 ELSE half
    IN  [f EXCEPT !.first = IF x < test.lookups[f.val] THEN Above(f) ELSE @, !.len = left,
                  !.state = IF x = test.lookups[f.val] THEN "FOUND" ELSE IF left > 0 THEN "KEEP_GOING" ELSE "NOT_FOUND"]
Start(k) == [first |-> 0, len |-> Len(test.v), val |-> k, state |-> IF test.v = <<>> THEN "NOT_FOUND" ELSE "KEEP_GOING"]

----------------------------------------------------------------------------
\* SmMultiLookup: a key waits for a frame; the frames before it make one step each.
Around == IF at = 1 THEN test.streams ELSE at - 1
SmFeed ==
    /\ test.algo = "sm" /\ test.phase = "feed"
    /\ IF key > Len(test.lookups)
       THEN test' = [test EXCEPT !.phase = "drain"] /\ at' = 1 /\ UNCHANGED <<key, frames, found>>
       ELSE LET f == IF frames[at].state = "KEEP_GOING" THEN Halve(frames[at]) ELSE [frames[at] EXCEPT !.state = "EMPTY"]
            IN  /\ at' = Around /\ UNCHANGED test
                /\ found' = IF f.state = "FOUND" THEN found + 1 ELSE found
                /\ IF f.state = "KEEP_GOING" THEN frames' = [frames EXCEPT ![at] = f] /\ UNCHANGED key
                   ELSE frames' = [frames EXCEPT ![at] = Start(key)] /\ key' = key + 1
    /\ UNCHANGED <<missed, ring, limit, mem>>
\* The rounds over all frames until none keeps going
SmDrain ==
    /\ test.algo = "sm" /\ test.phase = "drain"
    /\ IF at > test.streams
       THEN /\ UNCHANGED <<frames, found>>
            /\ IF \E s \in DOMAIN frames : frames[s].state = "KEEP_GOING" THEN at' = 1 /\ UNCHANGED test
               ELSE test' = [test EXCEPT !.phase = "end"] /\ UNCHANGED at
       ELSE /\ at' = at + 1 /\ UNCHANGED test
            /\ IF frames[at].state # "KEEP_GOING" THEN UNCHANGED <<frames, found>>
               ELSE LET f == Halve(frames[at])
                    IN  /\ frames' = [frames EXCEPT ![at] = f]
                        /\ found' = IF f.state = "FOUND" THEN found + 1 ELSE found
    /\ UNCHANGED <<key, missed, ring, limit, mem>>

----------------------------------------------------------------------------
\* scheduler_queue: nothing tells a full ring from an empty one.
push_back(r, h) == [r EXCEPT !.arr[r.head] = h, !.head = (r.head + 1) % RingSize]
pop_front(r) == [r EXCEPT !.tail = (r.tail + 1) % RingSize]

\* The frame of the next search comes from tcalloc; at the limit one coroutine is resumed
\* first, and runs, with those it hands over to, until one of them ends.
Cached(m) == [m EXCEPT !.cached = @ + 1]
alloc(m) == IF m.cached > 0 THEN [m EXCEPT !.cached = @ - 1] ELSE [m EXCEPT !.alloc_count = @ + 1]
Create ==
    /\ test.algo = "coro" /\ test.phase = "feed" /\ key <= Len(test.lookups)
    /\ mem' = alloc(mem)
    /\ frames' = [frames EXCEPT ![key] = [Start(key) EXCEPT !.state = "NEW"]]
    /\ test' = [test EXCEPT !.phase = "spawn"]
    /\ IF limit = 0 THEN at' = ring.arr[ring.tail] /\ ring' = pop_front(ring) ELSE UNCHANGED <<at, ring>>
    /\ UNCHANGED <<key, found, missed, limit>>
spawn ==
    /\ test.algo = "coro" /\ test.phase = "spawn" /\ at = 0
    /\ ring' = push_back(ring, key) /\ limit' = limit - 1 /\ key' = key + 1
    /\ test' = [test EXCEPT !.phase = "feed"]
    /\ UNCHANGED <<frames, at, found, missed, mem>>
\* Resumed the first time a coroutine goes to its first co_await; later it compares, and
\* ends or awaits again.  It hands over to the front of the ring, itself last in it.
Resumed(f) == IF f.state = "NEW" THEN Start(f.val) ELSE Halve(f)
Alive == {k \in Keys : test.algo = "coro" /\ frames[k].state \in {"NEW", "KEEP_GOING"}}
resume ==
    /\ test.algo = "coro" /\ at \in Alive
    /\ LET f == Resumed(frames[at])
           r == push_back(ring, at)
       IN  /\ frames' = [frames EXCEPT ![at] = f]
           /\ IF f.state = "KEEP_GOING"
              THEN at' = r.arr[r.tail] /\ ring' = pop_front(r) /\ UNCHANGED <<found, missed, limit, mem>>
              ELSE /\ at' = 0 /\ limit' = limit + 1 /\ mem' = Cached(mem)
                   /\ IF f.state = "FOUND" THEN found' = found + 1 /\ UNCHANGED missed
                      ELSE missed' = missed + 1 /\ UNCHANGED found
                   /\ UNCHANGED ring
    /\ UNCHANGED <<test, key>>
\* scheduler_queue::run, after the last key and once more in ~throttler
run ==
    /\ test.algo = "coro" /\ test.phase = "feed" /\ at = 0 /\ key > Len(test.lookups)
    /\ IF ring.head # ring.tail THEN at' = ring.arr[ring.tail] /\ ring' = pop_front(ring) /\ UNCHANGED test
       ELSE test' = [test EXCEPT !.phase = "end"] /\ UNCHANGED <<at, ring>>
    /\ UNCHANGED <<key, frames, found, missed, limit, mem>>

PipeNext == SmFeed \/ SmDrain \/ Create \/ spawn \/ resume \/ run

----------------------------------------------------------------------------
\* Both pipelines find what the plain search finds, for each key once, and the coroutine
\* that is resumed still exists.  For the coroutines this holds while fewer are queued than
\* the ring has slots.  nanotest.cpp:87 allows any number of streams, but push_back
\* (coro_infra.h:18) goes round over searches that wait and a full ring looks empty
\* (coro_infra.h:28): every time the ring goes round its RingSize searches are lost, exactly
\* these, and those that end still are right.
Queued == IF test.streams < Len(test.lookups) THEN test.streams ELSE Len(test.lookups)
LostSearches == IF test.algo = "sm" THEN 0 ELSE RingSize * (Queued \div RingSize)
LookupsAgree ==
    /\ test.phase = "end" /\ LostSearches = 0 => found = testNaive
    /\ test.phase = "end" /\ test.algo = "coro" => found + missed = Len(test.lookups) - LostSearches
    /\ test.algo = "coro" =>
         /\ at \in Alive \cup {0}
         /\ \A k \in Keys : frames[k].state \in {"FOUND", "NOT_FOUND"} =>
              (frames[k].state = "FOUND" <=> naive_binary_search(test.v, test.lookups[k]))
\* The throttle: at most streams searches have begun and not ended (those the ring lost
\* included), and their frames, with the one being made, are all the memory the allocator
\* ever takes.
FramesBounded ==
    test.algo = "coro" => /\ Cardinality(Alive) <= test.streams + 1 /\ mem.alloc_count <= test.streams + 1
                          /\ mem.alloc_count = mem.cached + Cardinality(Alive)
                          /\ limit + Cardinality(Alive) = test.streams + IF test.phase = "spawn" THEN 1 ELSE 0
\* Owed: that the test comes to its end.
Owed == test.phase # "end"
=============================================================================
