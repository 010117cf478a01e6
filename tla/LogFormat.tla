----------------------------- MODULE LogFormat -----------------------------
(***************************************************************************)
(* How the logger of net/fluent (include/logger/Log.hpp) makes a record:   *)
(* the configuration, the tables of digits and the order of the tags that  *)
(* are computed when it is compiled, the cached date, and the pieces that  *)
(* resolve() collects and put() copies.  Logger models what happens to the *)
(* record then.                                                            *)
(*                                                                         *)
(* A text is a sequence of character codes, a point in time the day since  *)
(* 1970 and the millisecond in it, a double an exact decimal with Places   *)
(* places.                                                                 *)
(***************************************************************************)
EXTENDS Integers, Sequences, FiniteSetsExt, SequencesExt, TLC

CONSTANTS
    Tests,     \* a day, a table, tags to sort, or a configuration with which records
               \* (level, path, line, align, args) are logged at some instants
    Tid,       \* gettid()
    Chunk,     \* 500 in the code: LeadingZeroNumericArrayBuilderRange splits after that many
    Ranges,    \* 10 in the code: the lengths that parseLength tells without recursion
    Places

VARIABLES
    test,              \* the one that is run
    last, dateRecord,  \* thread_local variables of Chrono::format
    seen, out          \* the latest day of a record so far; the last record and its text

vars == <<test, last, dateRecord, seen, out>>
-----------------------------------------------------------------------------
(* meta::Sort: the smallest element comes first, then the rest, sorted *)

Elem(tag) == CASE tag = "DateTime" -> 1 [] tag = "Tid" -> 3 [] OTHER -> 2

\* The first one that is not larger than any of those behind it
MinType(ts) ==
    ts[Min({i \in DOMAIN ts : \A j \in i + 1 .. Len(ts) : Elem(ts[i]) <= Elem(ts[j])})]

Find(tag, ts) == Min({i \in DOMAIN ts : ts[i] = tag})

RECURSIVE Sort(_)
Sort(ts) ==
    IF Len(ts) = 1 THEN ts
    ELSE LET minPos == Find(MinType(ts), ts)
         IN  <<ts[minPos]>> \o Sort(RemoveAt(ts, minPos))
-----------------------------------------------------------------------------
(* The texts of numbers *)

RECURSIVE length(_)
length(i) == IF i < 10 THEN 1 ELSE 1 + length(i \div 10)

\* NumericMetaStringBuilder, for the numbers that index_sequence has
RECURSIVE Builder(_, _)
Builder(n, i) ==
    CASE n = 1 -> <<48 + i>>
      [] n = 2 -> <<48 + (i \div 10), 48 + (i % 10)>>
      [] OTHER -> Append(Builder(n - 1, i \div 10), 48 + (i % 10))

Numeric(i) == Builder(length(i), i)

LeadingZeroNumeric(i, p) == [j \in 1 .. p - length(i) |-> 48] \o Numeric(i)

\* Row j of the table for begin .. end - 1, which is put together from pieces of Chunk rows
RECURSIVE Row(_, _, _, _, _)
Row(begin, end, p, flag, j) ==
    IF flag THEN LeadingZeroNumeric(begin + j, p)
    ELSE IF j < Chunk THEN Row(begin, begin + Chunk, p, TRUE, j)
    ELSE Row(begin + Chunk, end, p, 2 * Chunk >= end - begin, j - Chunk)

LeadingZeroNumericArray(n, p, j) == Row(0, n, p, Chunk >= n, j)

digits100(j) == LeadingZeroNumericArray(100, 2, j)
digits1000(j) == LeadingZeroNumericArray(1000, 3, j)
digits2050(j) == LeadingZeroNumericArray(2050, 4, j)

\* Stream::parseLength of an integer: its range, or Ranges digits less
RECURSIVE parseLength(_)
parseLength(val) ==
    IF val < 0 THEN 1 + parseLength(-val)
    ELSE IF val < 10^Ranges THEN Min({k \in 1 .. Ranges : val < 10^k})
    ELSE Ranges + parseLength(val \div 10^Ranges)

\* Stream::parse of an integer: which offsets it writes, from the last one down, and what
RECURSIVE Down(_, _)
Down(msg, cur) ==
    IF msg = 0 THEN <<>> ELSE (cur :> 48 + (msg % 10)) @@ Down(msg \div 10, cur - 1)

parse(msg, len) ==
    CASE msg < 0 -> Down(-msg, len - 1) @@ (0 :> 45)
      [] msg = 0 -> (0 :> 48)
      [] OTHER -> Down(msg, len - 1)

\* The digits of the loop that both functions for double have: one, and five more at most
RECURSIVE Fraction(_, _)
Fraction(rest, limit) ==
    LET v == (rest * 10) \div 10^Places
        msg == (rest * 10) % 10^Places
    IN  <<48 + v>> \o IF msg > 0 /\ limit > 0 THEN Fraction(msg, limit - 1) ELSE <<>>

\* Both call themselves with -val until it is greater than 0, which 0 never is.
Returns(val) == val > 0 \/ -val > 0

RECURSIVE parseDouble(_)
parseDouble(val) ==
    IF val > 0 THEN
        LET ival == val \div 10^Places
            ilen == parseLength(ival)
            fraction == Fraction(val % 10^Places, 5)
        IN  [j \in 1 .. ilen |-> parse(ival, ilen)[j - 1]] \o <<46>> \o fraction
    ELSE <<45>> \o parseDouble(-val)
-----------------------------------------------------------------------------
(* Chrono, from 1970 on *)

calDate(days) ==
    LET z == days + 719468
        era == z \div 146097
        doe == z - era * 146097
        yoe == (doe - (doe \div 1460) + (doe \div 36524) - (doe \div 146096)) \div 365
        doy == doe - (365 * yoe + (yoe \div 4) - (yoe \div 100))
        mp == (5 * doy + 2) \div 153
        m == mp + (IF mp < 10 THEN 3 ELSE -9)
    IN  [y |-> yoe + era * 400 + (IF m <= 2 THEN 1 ELSE 0), m |-> m,
         d |-> doy - ((153 * mp + 2) \div 5) + 1]

calTime(ms) ==
    [h |-> ms \div 3600000, m |-> (ms % 3600000) \div 60000, s |-> (ms % 60000) \div 1000,
     S |-> ms % 1000]

TimeRecord(ms) ==
    LET t == calTime(ms)
    IN  digits100(t.h) \o <<58>> \o digits100(t.m) \o <<58>> \o digits100(t.s)
        \o <<46>> \o digits1000(t.S)

DateRecord(date) ==
    digits2050(date.y) \o <<45>> \o digits100(date.m) \o <<45>> \o digits100(date.d)

\* Chrono::format: the date is only written again a day after the start of the last one
format(point) ==
    IF point.day - last >= 1
    THEN last' = point.day /\ dateRecord' = DateRecord(calDate(point.day))
    ELSE UNCHANGED <<last, dateRecord>>
-----------------------------------------------------------------------------
(* conf *)

Path == {"log_dir", "log_filename", "log_filename_extension"}

config(type) ==
    [type |-> type, log_dir |-> ".", log_filename |-> "log_default", log_filename_extension |-> ".log",
     fileMaxSize |-> 0, logOpenFlags |-> {}, fileRollingInterval |-> 24, msg_align |-> 20]

\* What the constructor takes from a child; copy() leaves msg_align out.
Taken(type) ==
    CASE type = "CONFIG" -> DOMAIN config(type) \ {"msg_align"}
      [] type = "LOG_PATH" -> Path
      [] type = "LOG_FILTER" -> {"logOpenFlags"}
      [] type = "MAX_FILE_SIZE" -> {"fileMaxSize"}
      [] type = "ROLLING" -> {"fileRollingInterval"}
      [] type = "MSG_ALIGN" -> {"msg_align"}

\* log_dir{...}, log_filename{...}, log_filename_extension{...} in any order
log_path(parts) ==
    FoldLeft(LAMBDA c, part : [c EXCEPT ![part[1]] = part[2]], config("LOG_PATH"), parts)

RECURSIVE Built(_)
Built(entries) ==
    LET Child(l) == CASE l.type = "CONFIG" -> Built(l.children)
                      [] l.type = "LOG_PATH" -> log_path(l.parts)
                      [] OTHER -> l @@ config(l.type)
    IN  FoldLeft(LAMBDA c, l : [k \in DOMAIN c |-> IF k \in Taken(l.type) THEN Child(l)[k] ELSE c[k]],
                 config("CONFIG"), entries)

staticConfig == Built(test.children)
-----------------------------------------------------------------------------
(* ResolveContext and Resolver *)

Piece(base, len, text) == [base |-> base, len |-> len, text |-> text]

\* The text of a piece that is not in local
updateExternal(ctx, text) ==
    [ctx EXCEPT !.ioves = Append(@, Piece(0, Len(text), text))]

\* What was written into local from cur on, and how much of it counts
updateLocal(ctx, written, len) ==
    [local |-> [i \in {o + ctx.cur : o \in DOMAIN written} |-> written[i - ctx.cur]] @@ ctx.local,
     cur |-> ctx.cur + len,
     ioves |-> Append(ctx.ioves, Piece(ctx.cur, len, <<>>))]

Copied(text) == [o \in 0 .. Len(text) - 1 |-> text[o + 1]]

\* Numbers below 10000 have a cached text, 0 only as a size_t.
Cached(arg) ==
    \/ arg.type = "int" /\ arg.val > 0 /\ arg.val < 10000
    \/ arg.type = "size_t" /\ arg.val < 10000

resolveDispatch(ctx, arg) ==
    CASE arg.type = "literal" -> updateExternal(ctx, arg.val)
      [] Cached(arg) -> updateExternal(ctx, Numeric(arg.val))
      [] arg.type \in {"int", "size_t"} /\ ~Cached(arg) ->
            updateLocal(ctx, parse(arg.val, parseLength(arg.val)), parseLength(arg.val))
      [] arg.type = "double" -> updateLocal(ctx, Copied(parseDouble(arg.val)), Len(parseDouble(arg.val)))
      [] arg.type = "text" -> updateLocal(ctx, Copied(arg.val), Len(arg.val))

resolve(args) == FoldLeft(resolveDispatch, [local |-> <<>>, cur |-> 0, ioves |-> <<>>], args)

total(ctx) == FoldLeft(LAMBDA n, p : n + p.len, 0, ctx.ioves)
calspace(ctx) == total(ctx) + Len(ctx.ioves)

put(ctx) ==
    LET Base(p) == IF p.text = <<>> THEN [j \in 1 .. p.len |-> ctx.local[p.base + j - 1]] ELSE p.text
        End(i) == IF i = Len(ctx.ioves) THEN <<10>> ELSE <<32>>
    IN  FoldLeft(LAMBDA buf, i : buf \o Base(ctx.ioves[i]) \o End(i), <<>>,
                 [i \in DOMAIN ctx.ioves |-> i])
-----------------------------------------------------------------------------
(* LogBase and the macros *)

Literal(text) == [type |-> "literal", val |-> text]

levelFormat(level) == <<68, 73, 87, 69, 63>>[level + 1]

TagFormat(tag, level, date, ms) ==
    CASE tag = "DateTime" -> <<Literal(date), Literal(TimeRecord(ms))>>
      [] tag = "Tid" -> <<Literal([j \in 1 .. parseLength(Tid) |-> parse(Tid, parseLength(Tid))[j - 1]])>>
      [] OTHER -> <<[type |-> "text", val |-> <<levelFormat(level)>>]>>

\* The last '/' counts to the name, unless it is the first character.
lastPathComponentPos(path) == Max({i \in 2 .. Len(path) : path[i] = 47} \cup {1})
filename(path) == SubSeq(path, lastPathComponentPos(path), Len(path))

\* DLOG_INFO or DLOG_INFO_ALIGN
Macro(r) ==
    LET file == filename(r.path)
        blanks == Max({1, staticConfig.msg_align - (Len(file) + parseLength(r.line))})
    IN  <<Literal(file), [type |-> "int", val |-> r.line]>>
        \o (IF r.align THEN <<Literal([j \in 1 .. blanks |-> 32])>> ELSE <<>>) \o r.args

Tags == Sort(<<"Level", "DateTime", "Tid">>)

Init ==
    /\ test \in Tests
    /\ last = 0 /\ dateRecord = <<49, 57, 55, 48, 45, 48, 49, 45, 48, 49>>
    /\ seen = 0 /\ out = <<>>

\* A thread logs r: the clock may have been set back since its last record.
Resolved(r) == \A i \in DOMAIN r.args : r.args[i].type = "double" => Returns(r.args[i].val)
Log(r, point) ==
    /\ r.level \in staticConfig.logOpenFlags /\ Resolved(r)
    /\ format(point)
    /\ LET tags == FlattenSeq([i \in DOMAIN Tags |-> TagFormat(Tags[i], r.level, dateRecord', point.ms)])
           ctx == resolve(tags \o Macro(r))
       IN  out' = <<[record |-> r, at |-> point, text |-> put(ctx), space |-> calspace(ctx)]>>
    /\ seen' = Max({seen, point.day})
    /\ UNCHANGED test
\* resolve() does not return: the thread has formatted the date and comes no further.
Hang(r, point) ==
    /\ r.level \in staticConfig.logOpenFlags /\ ~Resolved(r)
    /\ format(point)
    /\ test' = [test EXCEPT !.kind = "hanging", !.records = {r}] /\ UNCHANGED <<seen, out>>

Next == test.kind = "log" /\ \E r \in test.records, point \in test.instants : Log(r, point) \/ Hang(r, point)
-----------------------------------------------------------------------------
(* What is meant *)

Leap(y) == y % 4 = 0 /\ (y % 100 # 0 \/ y % 400 = 0)
DaysIn(y, m) == IF m = 2 THEN (IF Leap(y) THEN 29 ELSE 28) ELSE IF m \in {4, 6, 9, 11} THEN 30 ELSE 31

\* The date that many days after the first of a month, by the calendar
RECURSIVE Civil(_, _, _)
Civil(y, m, days) ==
    IF m = 1 /\ days >= 365 + DaysIn(y, 2) - 28 THEN Civil(y + 1, 1, days - 337 - DaysIn(y, 2))
    ELSE IF days >= DaysIn(y, m) THEN Civil(y, m + 1, days - DaysIn(y, m))
    ELSE [y |-> y, m |-> m, d |-> days + 1]

RECURSIVE Decimal(_)
Decimal(v) ==
    IF v < 0 THEN <<45>> \o Decimal(-v)
    ELSE (IF v < 10 THEN <<>> ELSE Decimal(v \div 10)) \o <<48 + (v % 10)>>

Padded(v, n) == [j \in 1 .. n - Len(Decimal(v)) |-> 48] \o Decimal(v)

\* The decimals up to the last one that is not 0, but six at most
Decimals(v) ==
    LET all == Padded(v % 10^Places, Places)
    IN  SubSeq(all, 1, Min({6, Max({i \in DOMAIN all : all[i] # 48} \cup {1})}))

Shown(arg) ==
    CASE arg.type \in {"literal", "text"} -> arg.val
      [] arg.type \in {"int", "size_t"} -> Decimal(arg.val)
      [] arg.type = "double" ->
            LET v == Max({arg.val, -arg.val})
            IN  (IF arg.val < 0 THEN <<45>> ELSE <<>>) \o Decimal(v \div 10^Places) \o <<46>> \o Decimals(v)

Moment(day, ms) ==
    LET c == Civil(1970, 1, day)
    IN  <<Padded(c.y, 4) \o <<45>> \o Padded(c.m, 2) \o <<45>> \o Padded(c.d, 2),
          Padded(ms \div 3600000, 2) \o <<58>> \o Padded((ms \div 60000) % 60, 2) \o <<58>>
            \o Padded((ms \div 1000) % 60, 2) \o <<46>> \o Padded(ms % 1000, 3)>>

\* The part of a path from its last '/' on, the column that messages are aligned to
Name(path) == CHOOSE n \in {SubSeq(path, i, Len(path)) : i \in DOMAIN path} :
    /\ \A i \in 2 .. Len(n) : n[i] # 47
    /\ n = path \/ n[1] = 47
Aligned(r, column) ==
    LET used == Len(Name(r.path)) + Len(Decimal(r.line))
    IN  [j \in 1 .. (IF used < column THEN column - used ELSE 1) |-> 32]

\* What k is set to by the entries: a path sets its three parts, a configuration in another
\* one every setting but the alignment, which copy() leaves out; what they do not name
\* themselves they set to its default.
Defaults == [log_dir |-> ".", log_filename |-> "log_default", log_filename_extension |-> ".log",
             fileMaxSize |-> 0, logOpenFlags |-> {}, fileRollingInterval |-> 24, msg_align |-> 20]
RECURSIVE Setting(_, _)
Setting(entries, k) ==
    LET named(l) == SelectSeq(<<<<k, Defaults[k]>>>> \o l.parts, LAMBDA p : p[1] = k)
        sets(l) == CASE l.type = "CONFIG" -> IF k = "msg_align" THEN <<>> ELSE <<Setting(l.children, k)>>
                     [] l.type = "LOG_PATH" -> IF k \in Path THEN <<Last(named(l))[2]>> ELSE <<>>
                     [] OTHER -> IF k \in DOMAIN l THEN <<l[k]>> ELSE <<>>
    IN  Last(<<Defaults[k]>> \o FlattenSeq([i \in DOMAIN entries |-> sets(entries[i])]))

Meant(r, day, ms) ==
    Moment(day, ms) \o <<<<levelFormat(r.level)>>, Decimal(Tid), Name(r.path), Decimal(r.line)>>
    \o (IF r.align THEN <<Aligned(r, Setting(test.children, "msg_align"))>> ELSE <<>>) \o [i \in DOMAIN r.args |-> Shown(r.args[i])]

\* A record of a level that is open reads as meant: the moment, the level, the thread, the
\* place and the arguments, each with all its digits and with one separator; and put() writes
\* exactly the calspace() bytes that apply() counts.  Two cases are excepted.  When the clock
\* was set back to an earlier day the record has the date of the latest day this thread has
\* logged on (Log.hpp:588 only looks for a day that passed).  A call with a double that is 0
\* does not return (Log.hpp:977, 1035), and no other call hangs.
ClockSetBack(o) == o.at.day < seen
RecordsExact ==
    /\ \A i \in DOMAIN out :
         LET o == out[i]
             m == Meant(o.record, IF ClockSetBack(o) THEN seen ELSE o.at.day, o.at.ms)
         IN  /\ o.record.level \in Setting(test.children, "logOpenFlags")
             /\ o.text = FlattenSeq([j \in DOMAIN m |-> m[j] \o <<IF j = Len(m) THEN 10 ELSE 32>>])
             /\ Len(o.text) = o.space
    /\ test.kind = "hanging" => \A r \in test.records : [type |-> "double", val |-> 0] \in Range(r.args)

\* What is computed when the logger is compiled is right: dates from day numbers, every row
\* of the tables of digits, the order of the tags (stable), and every setting of a
\* configuration, which is that of the last entry that sets it.
TablesExact ==
    CASE test.kind = "date" -> calDate(test.day) = Civil(1970, 1, test.day)
      [] test.kind = "table" ->
            \A j \in 0 .. test.n - 1 : LeadingZeroNumericArray(test.n, test.p, j) = Padded(j, test.p)
      [] test.kind = "sort" ->
            Sort(test.tags) = FlattenSeq([v \in 1 .. 3 |-> SelectSeq(test.tags, LAMBDA t : Elem(t) = v)])
      [] test.kind \in {"log", "hanging"} -> \A k \in DOMAIN Defaults : staticConfig[k] = Setting(test.children, k)
=============================================================================
