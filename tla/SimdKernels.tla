---------------------------- MODULE SimdKernels ----------------------------
(***************************************************************************)
(* The vectorised kernels: find_charset, escape, reduce, scan, lookup and   *)
(* odd_even_broadcast (simd/) and the two bitonic sorts                     *)
(* (Algorithm/parallel_sort.cpp, simd/stdsimd/simd_sort.cpp).               *)
(*                                                                         *)
(* Each kernel walks its range in ILP x lane elements, then one lane at a   *)
(* time, then element by element; the hazard is at the seams (which element *)
(* each phase starts from, what is carried over) and in the bit tricks of a *)
(* lane.  A register is the sequence of its elements, a bitmap byte the set *)
(* of its bits, an int wraps at W bits.  The lanes have their real widths:  *)
(* 32 chars, 8 ints.                                                        *)
(***************************************************************************)
EXTENDS Integers, Sequences, FiniteSets, SequencesExt

CONSTANTS
    Jobs,    \* the calls: [kern |-> ..., src |-> ..., set |-> ...]
    ILP,     \* the template argument of the _ilp kernels
    Table,   \* lookup_table: a function on 0..255
    W,       \* bits of an int
    Step     \* simd_t::size() of simd_sort

VARIABLES
    job,     \* the call
    at,      \* elements consumed
    acc,     \* sum / partial_sum: the registers carried from block to block
    dst,     \* what has been stored; escape's length is its length
    top,     \* one past the last byte escape stored
    ret      \* the result

vars == <<job, at, acc, dst, top, ret>>

Chars == 32
Ints == 8
Quote == 34
Backslash == 92
Running == -2
NotFound == -1

Lane(v, i, w) == SubSeq(v, i + 1, i + w)
Zeros == [j \in 1..Ints |-> 0]
Wrap(n) == ((n + 2^(W - 1)) % 2^W) - 2^(W - 1)
Add(u, v) == [j \in DOMAIN u |-> Wrap(u[j] + v[j])]
Bit(c, b) == (c \div 2^b) % 2 = 1
Total(s) ==
    LET sum[j \in 0..Len(s)] == IF j = 0 THEN 0 ELSE Wrap(sum[j - 1] + s[j]) IN sum[Len(s)]

-----------------------------------------------------------------------------
(* find_charset: byte B of the bitmap of cs is the set of its bits.         *)

Byte(cs, B) == {c % 8 : c \in {d \in cs : d \div 8 = B}}

\* filter_even / filter_odd: bytes 0 2 4 .. and 1 3 5 .. of the 32-byte
\* bitmap; bits 4-7 of a char choose the entry, bit 3 the table.
\* mutant: the parity is read from bit 4, the bit next to it
hit_avx2_parity(cs, c) ==
    (c % 16) % 8 \in IF Bit(c, 4) THEN Byte(cs, 2 * (c \div 16) + 1) ELSE Byte(cs, 2 * (c \div 16))

hit_avx2(cs, c) ==
    (c % 16) % 8 \in IF Bit(c, 3) THEN Byte(cs, 2 * (c \div 16) + 1) ELSE Byte(cs, 2 * (c \div 16))

\* 16-byte bitmap; with Config.overflow the sign bit makes the shuffle give 0.
hit_ascii128(cs, c, overflow) ==
    c % 8 \in IF overflow /\ c >= 128 THEN {} ELSE Byte(cs, (c \div 8) % 16)

\* charset[c % 16] has bit c / 16: the row by the low bits (0 when the sign
\* bit is set), the column by the high ones (0 above 7).
Transposed(cs, r) == {c \div 16 : c \in {d \in cs : d < 128 /\ d % 16 = r}}
hit_transposed(cs, c) ==
    /\ c < 128
    /\ c \div 16 < 8
    /\ c \div 16 \in Transposed(cs, c % 16)

\* The scalar tails of the four kernels.
tail_bitmap(cs, c) == c % 8 \in Byte(cs, c \div 8)
tail_transposed(cs, c) == c \div 16 \in Transposed(cs, c % 16)

Finders == {"avx2", "ascii128", "ascii128_overflow", "transposed", "scalar"}
Hit(k, cs, c) ==
    CASE k = "avx2" -> hit_avx2(cs, c)
      [] k = "ascii128" -> hit_ascii128(cs, c, FALSE)
      [] k = "ascii128_overflow" -> hit_ascii128(cs, c, TRUE)
      [] k = "transposed" -> hit_transposed(cs, c)
TailHit(k, cs, c) ==
    CASE k \in {"avx2", "ascii128", "scalar"} -> tail_bitmap(cs, c)
      [] k = "ascii128_overflow" -> c < 128 /\ tail_bitmap(cs, c)
      [] k = "transposed" -> tail_transposed(cs, c)

\* A vector is there to be loaded: at + w elements exist.
HasLane(w) == at + w <= Len(job.src)
Countr(js) == (CHOOSE j \in js : \A i \in js : j <= i) - 1

find_charset_simd ==
    /\ ret = Running /\ job.kern \in Finders \ {"scalar"} /\ HasLane(Chars)
    /\ LET counter == {j \in 1..Chars : Hit(job.kern, job.set, job.src[at + j])}
       IN  IF counter = {} THEN at' = at + Chars /\ ret' = ret
                           ELSE ret' = at + Countr(counter) /\ at' = at
    /\ UNCHANGED <<job, acc, dst, top>>

find_charset_tail ==
    /\ ret = Running /\ job.kern \in Finders
    /\ job.kern = "scalar" \/ ~HasLane(Chars)
    /\ LET hits == {j \in 1..(Len(job.src) - at) : TailHit(job.kern, job.set, job.src[at + j])}
       IN  ret' = IF hits = {} THEN NotFound ELSE at + Countr(hits)
    /\ UNCHANGED <<job, at, acc, dst, top>>

-----------------------------------------------------------------------------
(* escape: the tables for the eight chars whose special ones are in mask.   *)

\* for_shuffle with for_blend: the index of a char, 0 for the backslash that
\* is blended in.
escape_lut(mask) ==
    FlattenSeq([i \in 1..8 |-> IF i \in mask THEN <<0, i>> ELSE <<i>>])

Special(c) == c \in {Quote, Backslash}

\* The bytes escape_8x adds to length; the store writes 16, whatever they are.
escape_8x(chunk) ==
    LET lut == escape_lut({i \in 1..8 : Special(chunk[i])})
    IN  [j \in 1..Len(lut) |-> IF lut[j] = 0 THEN Backslash ELSE chunk[lut[j]]]
Store16 == 16

escape_simd ==
    /\ ret = Running /\ job.kern = "escape" /\ HasLane(Chars)
    /\ LET chunk == Lane(job.src, at, Chars)
           three == FlattenSeq([q \in 1..3 |-> escape_8x(Lane(chunk, 8 * q - 8, 8))])
       IN  IF ~\E j \in 1..Chars : Special(chunk[j])
           THEN /\ dst' = dst \o chunk
                /\ top' = Len(dst) + Chars
           ELSE /\ dst' = dst \o three \o escape_8x(Lane(chunk, 24, 8))
                /\ top' = Len(dst) + Len(three) + Store16
    /\ at' = at + Chars
    /\ UNCHANGED <<job, acc, ret>>

\* One char: the backslash is always written, and kept when cond.
escape_tail ==
    /\ ret = Running /\ job.kern = "escape" /\ ~HasLane(Chars)
    /\ IF at < Len(job.src)
       THEN LET v == job.src[at + 1] IN
            /\ dst' = dst \o (IF Special(v) THEN <<Backslash, v>> ELSE <<v>>)
            /\ top' = IF Len(dst') > top THEN Len(dst') ELSE top
            /\ at' = at + 1 /\ ret' = ret
       ELSE /\ ret' = Len(dst)
            /\ UNCHANGED <<dst, top, at>>
    /\ UNCHANGED <<job, acc>>

-----------------------------------------------------------------------------
(* reduce.hpp and scan.hpp on ints: ILP lanes, then lanes, then elements.   *)

Summers == {"sum_avx2", "sum_avx2_ilp"}
Scanners == {"scan_avx2", "scan_ilp"}
Unroll(k) == IF k \in {"sum_avx2_ilp", "scan_ilp", "lookup_ilp"} THEN ILP ELSE 1

\* process_simd: how many lanes the next iteration takes; simdify<ILP> counts
\* whole groups of ILP lanes from the start of the range.
LanesNow(w) ==
    IF HasLane(w * Unroll(job.kern)) THEN Unroll(job.kern)
    ELSE IF HasLane(w) THEN 1 ELSE 0

\* sum_avx2(_ilp): partial_sum[Index] += lane Index.
sum_simd ==
    /\ ret = Running /\ job.kern \in Summers /\ LanesNow(Ints) > 0
    /\ acc' = [x \in DOMAIN acc |-> IF x <= LanesNow(Ints)
                 THEN Add(acc[x], Lane(job.src, at + (x - 1) * Ints, Ints)) ELSE acc[x]]
    /\ at' = at + LanesNow(Ints) * Ints
    /\ UNCHANGED <<job, dst, top, ret>>

\* The scalar fold, the registers folded into partial_sum[0], and its elements.
sum_tail ==
    /\ ret = Running /\ job.kern \in Summers /\ LanesNow(Ints) = 0
    /\ LET scalar == Total(SubSeq(job.src, at + 1, Len(job.src)))
           partial == FoldLeft(Add, acc[1], SubSeq(acc, 2, Len(acc)))
       IN  ret' = Wrap(scalar + Total(partial))
    /\ UNCHANGED <<job, at, acc, dst, top>>

\* _mm256_slli_si256 moves k ints up inside each half; permute4x64 repeats a
\* pair of ints; shuffle_epi32 repeats an int of each half.
slli_si256(v, k) == [j \in 1..Ints |-> IF (j - 1) % 4 >= k THEN v[j - k] ELSE 0]
permute4x64(v, i) == [j \in 1..Ints |-> v[2 * i + 1 + ((j - 1) % 2)]]
shuffle_epi32(v, i) == [j \in 1..Ints |-> v[4 * ((j - 1) \div 4) + i + 1]]

inner_scan_x4(v1) ==
    LET v2 == Add(v1, slli_si256(v1, 1)) IN Add(v2, slli_si256(v2, 2))

\* scan_ilp splits the register and adds lo_fixed to the high half.
inner_scan_ilp(v1) ==
    LET v3 == inner_scan_x4(v1)
    IN  Lane(v3, 0, 4) \o Add(Lane(v3, 4, 4), [j \in 1..4 |-> v3[4]])

\* scan_avx2 stays in one register and blends.
inner_scan_avx2(v1) ==
    LET v3 == inner_scan_x4(v1)
        a3 == Add(v3, shuffle_epi32(permute4x64(v3, 1), 3))
    IN  Lane(v3, 0, 4) \o Lane(a3, 4, 4)

get_carry(result) == shuffle_epi32(permute4x64(result, 3), 1)

\* scan_avx2: one lane, stored with the sum of what precedes it.
scan_avx2_simd ==
    /\ ret = Running /\ job.kern = "scan_avx2" /\ LanesNow(Ints) > 0
    /\ LET result == inner_scan_avx2(Lane(job.src, at, Ints))
       IN  /\ dst' = dst \o Add(result, acc[1])
           /\ acc' = <<Add(acc[1], get_carry(result))>>
           /\ at' = at + Ints
    /\ UNCHANGED <<job, top, ret>>

\* scan_ilp: the lanes are scanned apart, then each gets the sum of what
\* precedes it.
scan_ilp_simd ==
    /\ ret = Running /\ job.kern = "scan_ilp" /\ LanesNow(Ints) > 0
    /\ LET n == LanesNow(Ints)
           results == [x \in 1..n |-> inner_scan_ilp(Lane(job.src, at + (x - 1) * Ints, Ints))]
           sums == FoldLeft(LAMBDA ss, r : Append(ss, Add(Last(ss), get_carry(r))), acc, results)
       IN  /\ dst' = dst \o FlattenSeq([x \in 1..n |-> Add(results[x], sums[x])])
           /\ acc' = <<sums[n + 1]>>
           /\ at' = at + n * Ints
    /\ UNCHANGED <<job, top, ret>>

\* std::inclusive_scan of the rest, from the lowest element of sum.
scan_tail ==
    /\ ret = Running /\ job.kern \in Scanners /\ LanesNow(Ints) = 0
    /\ LET rest == SubSeq(job.src, at + 1, Len(job.src))
       IN  dst' = dst \o [j \in 1..Len(rest) |-> Wrap(acc[1][1] + Total(SubSeq(rest, 1, j)))]
    /\ ret' = 0
    /\ UNCHANGED <<job, at, acc, top>>

-----------------------------------------------------------------------------
(* lookup.hpp: 16 shuffles by the low nibble, then a tree of blends by the  *)
(* bits 4 to 7; arenas[r][L] is entry L after round r.                      *)

Lookups == {"lookup_avx2", "lookup_ilp"}
tree_reduce(c) ==
    LET arenas[r \in 0..4] ==
            [L \in 0..(16 \div 2^r - 1) |->
                IF r = 0 THEN Table[16 * L + (c % 16)]
                ELSE arenas[r - 1][2 * L + (IF Bit(c, 3 + r) THEN 1 ELSE 0)]]
    IN  arenas[4][0]

lookup_simd ==
    /\ ret = Running /\ job.kern \in Lookups /\ LanesNow(Chars) > 0
    /\ LET n == LanesNow(Chars) * Chars
       IN  /\ dst' = dst \o [j \in 1..n |-> tree_reduce(job.src[at + j])]
           /\ at' = at + n
    /\ UNCHANGED <<job, acc, top, ret>>

lookup_tail ==
    /\ ret = Running /\ job.kern \in Lookups /\ LanesNow(Chars) = 0
    /\ dst' = dst \o [j \in 1..(Len(job.src) - at) |-> Table[job.src[at + j]]]
    /\ ret' = 0
    /\ UNCHANGED <<job, at, acc, top>>

-----------------------------------------------------------------------------
(* odd_even_broadcast.cpp: <<first, second>> argument of do_stuff.          *)

and00ff(x) == [j \in 1..8 |-> x[2 * j - 1]]
srli_epi16_8(x) == [j \in 1..8 |-> x[2 * j]]
packus_epi16(x, y) == x \o y
Broadcast(x) == x \o x

split_insert(v) ==
    <<Broadcast([j \in 1..16 |-> v[2 * j - 1]]), Broadcast([j \in 1..16 |-> v[2 * j]])>>
split_shuffle(v) ==
    LET half(h, m) == [j \in 1..8 |-> Lane(v, 16 * h, 16)[2 * j - 1 + m]]
    IN  <<Broadcast(half(0, 0) \o half(1, 0)), Broadcast(half(0, 1) \o half(1, 1))>>
split_bitwise(v) ==
    LET xmm0 == Lane(v, 0, 16)
        xmm3 == Lane(v, 16, 16)
    IN  <<Broadcast(packus_epi16(srli_epi16_8(xmm0), srli_epi16_8(xmm3))),
          Broadcast(packus_epi16(and00ff(xmm0), and00ff(xmm3)))>>

Splits == {"insert", "shuffle", "bitwise"}
split ==
    /\ ret = Running /\ job.kern \in Splits
    /\ dst' = CASE job.kern = "insert" -> split_insert(job.src)
                [] job.kern = "shuffle" -> split_shuffle(job.src)
                [] job.kern = "bitwise" -> split_bitwise(job.src)
    /\ ret' = 0
    /\ UNCHANGED <<job, at, acc, top>>

-----------------------------------------------------------------------------
(* The bitonic sorts, dir = TRUE for incr.  The two jobs of parallel() work  *)
(* on disjoint halves, so any interleaving of them is one after the other.   *)

\* perform: swapped unless strictly in order; the vector form stores min, max.
perform(x, y, dir) == IF (IF dir THEN x < y ELSE x > y) THEN <<x, y>> ELSE <<y, x>>
perform_simd(x, y, dir) ==
    IF (x <= y) = dir THEN <<x, y>> ELSE <<y, x>>

SecondHalf == FALSE

\* step = 0 is parallel_sort, whose comparisons are all scalar.
RECURSIVE merge(_, _, _)
merge(s, dir, step) ==
    IF Len(s) < 2 THEN s
    ELSE LET h == Len(s) \div 2
             consumed == IF step = 0 THEN 0 ELSE step * (h \div step)
             pair == [j \in 1..h |-> IF j <= consumed THEN perform_simd(s[j], s[h + j], dir)
                                     ELSE perform(s[j], s[h + j], dir)]
         IN  merge([j \in 1..h |-> pair[j][1]], dir, step)
             \o merge([j \in 1..h |-> pair[j][2]], dir, step)

RECURSIVE sort(_, _, _)
sort(s, dir, step) ==
    IF Len(s) < 2 THEN s
    ELSE LET h == Len(s) \div 2
         IN  merge(sort(SubSeq(s, 1, h), TRUE, step)
                   \o sort(SubSeq(s, h + 1, Len(s)), SecondHalf, step), dir, step)

Sorts == {"parallel_sort", "simd_sort"}
run_sort ==
    /\ ret = Running /\ job.kern \in Sorts
    /\ dst' = sort(job.src, TRUE, IF job.kern = "simd_sort" THEN Step ELSE 0)
    /\ ret' = 0
    /\ UNCHANGED <<job, at, acc, top>>

-----------------------------------------------------------------------------

Init ==
    /\ job \in Jobs
    /\ at = 0 /\ top = 0 /\ dst = <<>> /\ ret = Running
    /\ acc = [x \in 1..(IF job.kern \in Scanners THEN 1 ELSE Unroll(job.kern)) |-> Zeros]

Next ==
    \/ find_charset_simd \/ find_charset_tail
    \/ escape_simd \/ escape_tail
    \/ sum_simd \/ sum_tail
    \/ scan_avx2_simd \/ scan_ilp_simd \/ scan_tail
    \/ lookup_simd \/ lookup_tail
    \/ split \/ run_sort

Spec == Init /\ [][Next]_vars

-----------------------------------------------------------------------------
Members == {j \in 1..Len(job.src) : job.src[j] \in job.set}
Escaped ==
    LET esc[j \in 0..Len(job.src)] ==
            IF j = 0 THEN <<>>
            ELSE esc[j - 1] \o (IF Special(job.src[j]) THEN <<Backslash>> ELSE <<>>) \o <<job.src[j]>>
    IN  esc[Len(job.src)]
Odds == [j \in 1..16 |-> job.src[2 * j]]
Evens == [j \in 1..16 |-> job.src[2 * j - 1]]

\* Every kernel computes what its scalar counterpart does, whatever the length
\* of the range and wherever the interesting elements fall: find_charset gives
\* the first member or -1, escape the escaped text without a store past twice
\* the source ("dst should be larger than src, at least 2x"), the sums and
\* scans agree with the scalar ones under wrap-around, lookup with the table,
\* the splits with the odd and even chars, and the sorts give the sorted array.
KernelsExact ==
    /\ top <= 2 * Len(job.src)
    /\ ret # Running =>
       /\ job.kern \in Finders => ret = IF Members = {} THEN NotFound ELSE Countr(Members)
       /\ job.kern = "escape" => dst = Escaped /\ ret = Len(Escaped)
       /\ job.kern \in Summers => ret = Total(job.src)
       /\ job.kern \in Scanners =>
              dst = [j \in 1..Len(job.src) |-> Total(SubSeq(job.src, 1, j))]
       /\ job.kern \in Lookups => dst = [j \in 1..Len(job.src) |-> Table[job.src[j]]]
       /\ job.kern \in Splits => ToSet(dst) = {Broadcast(Odds), Broadcast(Evens)}
       /\ job.kern \in Sorts =>
              dst = SortSeq(job.src, LAMBDA a, b : a < b)
=============================================================================
