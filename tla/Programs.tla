------------------------------ MODULE Programs ------------------------------
(***************************************************************************)
(* The futures, and the programs and scripts that each work alone:         *)
(* downloaders and archivers, a search, a linker, interpreters and         *)
(* tokenizers, containers, coroutine pipelines, vector kernels, a filter,  *)
(* an alias table and file I/O.  A behaviour runs one of them on one of    *)
(* its inputs.  They use the variables m1, m2, ...; those that a program   *)
(* does not need stay 0.                                                   *)
(***************************************************************************)
EXTENDS Integers, Sequences, TLC

\* The inputs of the programs: small, and such that every branch of them is taken.
Fill(n, c) == [j \in 1 .. n |-> c]
SeqsTo(S, n) == UNION {[1 .. k -> S] : k \in 0 .. n}
-----------------------------------------------------------------------------
\* fetch_issues.py: what the pages of a repository hold
Pages == {<<"issues", "prs", "prs", "prs", "issues">>, <<"issues", "prs", "prs", "issues">>,
          <<"prs", "issues", "issues">>, <<"issues", "issues", "prs", "issues">>}

\* translate-llm.py: the lines of two files, some of them fences
Line(len, fence) == [len |-> len, fence |-> fence]
Texts == {[f |-> <<Line(1, TRUE), Line(2, FALSE), Line(1, TRUE), Line(1, FALSE)>>,
           g |-> <<Line(2, FALSE)>>]}

\* lkml_archive.py: three mails that refer to each other or to one that is missing
Mails == 1 .. 3
Boxes ==
    {[mails |-> Mails, refs |-> r, subject |-> s] :
        r \in {<< <<>>, <<4>>, <<4>> >>, << <<>>, <<>>, <<1, 2>> >>, << <<>>, <<1>>, <<>> >>, Fill(3, <<>>)},
        s \in {Fill(3, <<"a">>), << <<"a">>, <<"a">>, <<"a", 2>> >>}}

\* zxgrep.py: three files, the words in their names and lines, and command lines
NameWords == [a |-> {"u"}, b |-> {"u", "v"}, old |-> {}]
Pattern(option) == [o \in {option} |-> {"a", "old"}]
Dirs == [d \in {"-O", "-oin", "-oout"} |->
           CASE d = "-O" -> <<"zx">> [] d = "-oin" -> <<"in", "o">> [] OTHER -> <<"out">>]
File(path, lines) == [path |-> path, lines |-> lines, text |-> TRUE]
Tree == {File(<<"in", "a">>, <<{"u"}, {"v"}>>), File(<<"in", "d", "b">>, <<{}, {"u", "v"}>>),
         File(<<"in", "o", "old">>, <<{"u", "v"}>>)}
Searches == {[kind |-> k, root |-> IF k = "file" THEN <<"in", "a">> ELSE <<"in">>, files |-> Tree] :
               k \in {"dir", "file", "archive"}}
Options == {"--file", "-x", "-r", "--or", "-l", "-N", "--copy", "--move", "-O", "-oin", "-oout",
            "--include", "--exclude"}
Argvs == {<<"u", "v">> \o s : s \in SeqsTo(Options, 2) \ {<<"-oin", "-oout">>, <<"-oout", "-oin">>}}
-----------------------------------------------------------------------------
\* json.cpp: documents with two values each, put together from their tokens, and short texts
true == <<116, 114, 117, 101>>
Blank == <<"Whitespace", <<10, 32>>>>
Key == <<"String", <<34, 97, 92, 34, 34>>>>  \* "a\""
Values == {<<"String", <<34, 98, 92, 92, 34>>>>, <<"Number", <<45, 49, 46, 50, 101, 43>>>>,
           <<"Number", <<55>>>>, <<"True", true>>, <<"False", <<102, 97, 108, 115, 101>>>>,
           <<"Null", <<110, 117, 108, 108>>>>}
Colon == <<"Colon", <<58>>>>
Documents ==
    {<<<<"ArrayStart", <<91>>>>, Blank, <<"ObjectStart", <<123>>>>, Key, Colon, Blank, v,
       <<"Comma", <<44>>>>, Key, Colon, w, <<"ObjectEnd", <<125>>>>, Blank, <<"ArrayEnd", <<93>>>>>> :
       v \in Values, w \in Values}
Strings == SeqsTo({34, 92, 123, 44, 116, 49, 45, 32, 101}, 3) \cup {<<c>> : c \in 0 .. 255}
           \cup {true, SubSeq(true, 1, 3)}

\* nanotest.cpp: sorted tables and the keys to look up
Tables == {<<>>, <<0>>, <<0, 2>>, <<0, 2, 4>>, <<0, 2, 4, 6>>}
Keys == SeqsTo({1, 2, 4}, 4) \cup {<<0, 1, 2, 3, 4, 6>>, <<6, 0, 6, 1, 2, 9>>}
-----------------------------------------------------------------------------
\* mini_elf_linker.cpp: an object that uses f, objects that define it, and broken ones
Sec(name, type, flags, size, align) ==
    [name |-> name, type |-> type, flags |-> flags, size |-> size, align |-> align]
Text(n) == Sec("text", "PROGBITS", {"ALLOC", "EXEC"}, n, 4)
Data(n) == Sec("data", "PROGBITS", {"ALLOC", "WRITE"}, n, 8)
Bss(n) == Sec("bss", "NOBITS", {"ALLOC", "WRITE"}, n, 16)
Sym(name, bind, shndx, value) == [name |-> name, bind |-> bind, shndx |-> shndx, value |-> value]
Rel(sec, off, sym, type, addend) ==
    [sec |-> sec, off |-> off, sym |-> sym, type |-> type, addend |-> addend]

Object(secs, syms, relas) == [kind |-> "rel", secs |-> secs, syms |-> syms, relas |-> relas]
Main(bind, rela) ==
    Object(<<Text(6), Bss(5), Data(9)>>,
           <<Sym("_start", "GLOBAL", 1, 2), Sym("f", bind, 0, 0), Sym("loc", "LOCAL", 3, 1)>>,
           <<rela, Rel(3, 0, 3, "64", 1), Rel(4, 0, 1, "64", 1)>>)
Uses == {Rel(1, off, 2, type, addend) : off \in {0, 2}, addend \in {-4, 0},
             type \in {"PC32", "32", "32S", "64", "NONE", "GOT"}}
Mains == {Main(bind, rela) : bind \in {"GLOBAL", "WEAK"}, rela \in Uses \cup {Rel(1, 0, 4, "32", 0)}}
Def(bind, shndx, value, own) ==
    Object(<<Data(3), Sec("rodata", "PROGBITS", {"ALLOC"}, 5, 0), Bss(2), Text(5),
             Sec("note", "NOTE", {"ALLOC"}, 3, 4)>>,
           <<Sym("f", bind, shndx, value), Sym("loc", "LOCAL", 2, 0)>>,
           <<Rel(4, 1, 2, "PC32", 0)>> \o own)
Defs == {Def(bind, shndx, value, <<>>) :
           bind \in {"GLOBAL", "WEAK"}, shndx \in {4, 2, -1}, value \in {1, 150, 300}}
Broken(kind) == [kind |-> kind, secs |-> <<>>, syms |-> <<>>, relas |-> <<>>]
Links ==
    {<<m>> : m \in Mains} \cup (Mains \X Defs) \cup (Defs \X Mains)
    \cup ({Main("GLOBAL", Rel(1, 0, 2, "32", 0))}
            \X (Defs \cup {Def("WEAK", 4, 0, <<Rel(4, 0, 1, "32", 0)>>)}) \X Defs)
    \cup ({Main("WEAK", Rel(1, 0, 2, "32", 0))} \X {Broken("foreign"), Broken("badlink")})
-----------------------------------------------------------------------------
\* simd: a kernel, what it works on and the charset it looks for
Job(kern, src, set) == [kern |-> kern, src |-> src, set |-> set]
Charset == {8, 34, 92, 127, 200}
Ascii == {8, 34, 92, 127}
Lines == {[k \in 1 .. n |-> IF k = i THEN c ELSE IF k = j THEN d ELSE 97] :
            n \in {0, 31, 33, 69}, i \in {1, 16, 32, 33, 69}, j \in {8, 9, 31, 40},
            c \in {34, 200, 216}, d \in {92, 24, 72}}
AsciiLines == {s \in Lines : \A j \in DOMAIN s : s[j] < 128}
Firsts == {<<c>> \o Fill(n, 97) : c \in 0 .. 255, n \in {0, 35}}
Bytes == [j \in 1 .. 296 |-> (j * 5) % 256]
Ints == {[j \in 1 .. n |-> ((j * k) % 5) - 2] : n \in {0, 7, 8, 15, 16, 27, 45}, k \in {1, 3}}
        \cup {Fill(n, 7) : n \in {9, 27, 45}}
Table == [v \in 0 .. 255 |-> (v * 7 + 3) % 256]
Jobs ==
    {Job(k, s, Charset) : k \in {"avx2", "scalar"}, s \in Lines \cup Firsts}
    \cup {Job(k, s, Ascii) : k \in {"ascii128_overflow", "transposed"}, s \in Lines \cup Firsts}
    \cup {Job("ascii128", s, Ascii) : s \in AsciiLines}
    \cup {Job("escape", s, {}) : s \in Lines \cup {Fill(n, 34) : n \in {8, 32, 33, 64}}}
    \cup {Job(k, s, {}) : k \in {"sum_avx2", "sum_avx2_ilp", "scan_avx2", "scan_ilp"}, s \in Ints}
    \cup {Job(k, s, {}) : k \in {"lookup_avx2", "lookup_ilp"}, s \in {<<>>, Bytes, SubSeq(Bytes, 1, 33)}}
    \cup {Job(k, SubSeq(Bytes, 1, 32), {}) : k \in {"insert", "shuffle", "bitwise"}}
    \cup {Job(k, s, {}) : k \in {"parallel_sort", "simd_sort"},
            s \in {<<>>, <<5>>} \cup [1 .. 2 -> 0 .. 2] \cup [1 .. 4 -> 0 .. 3] \cup [1 .. 8 -> 0 .. 1]}

\* alias_method.cpp: sixths that add up to one, in units of which there are 24 in it
Sixths == {4 * a : a \in 0 .. 6}
Weightings ==
    {<<24>>} \cup {<<a, 24 - a>> : a \in Sixths} \cup {w \in [1 .. 3 -> Sixths] : w[1] + w[2] + w[3] = 24}
    \cup {w \in [1 .. 4 -> Sixths] : w[1] + w[2] + w[3] + w[4] = 24}

\* Log.hpp: days, tables, tags, and what is logged: every kind of argument at one instant,
\* and one record at every instant, the clock stepping back as well
Entry(type, set) == [type |-> type] @@ set
Levels(levels) == Entry("LOG_FILTER", [logOpenFlags |-> levels])
Align(n) == Entry("MSG_ALIGN", [msg_align |-> n])
Paths == {<<<<"log_filename", "fluent">>, <<"log_dir", "log">>>>, <<<<"log_dir", ".">>, <<"log_dir", "/">>>>}
Configs ==
    {<<Entry("LOG_PATH", [parts |-> p]), Levels(0 .. 4), Entry("MAX_FILE_SIZE", [fileMaxSize |-> 100]),
       Entry("ROLLING", [fileRollingInterval |-> 24])>> : p \in Paths}
    \cup {<<Levels({1}), Align(6), Levels({1, 4})>>,
          <<Align(9), Entry("CONFIG", [children |-> <<Align(7), Levels({1, 4})>>]), Align(10)>>,
          <<Align(9), Entry("CONFIG", [children |-> <<Align(7), Levels({1})>>])>>}
Arg(type, val) == [type |-> type, val |-> val]
Args ==
    {Arg("int", v) : v \in {0, 7, 10, 999, 9999, 10000, -1, -10, 100000, -123456, 2147483647}}
    \cup {Arg("size_t", v) : v \in {0, 9999, 10001}}
    \cup {Arg("double", v) : v \in {0, 1, 15000000, -123456789, 99999999, 10000001, 10000000, -5}}
    \cup {Arg("text", <<120, 121>>), Arg("literal", <<122>>)}
Record(level, path, line, align, args) ==
    [level |-> level, path |-> path, line |-> line, align |-> align, args |-> args]
Header == <<97, 47, 98, 46, 104>>  \* a/b.h
Noon == [day |-> 11016, ms |-> 43200000]
Logs(configs, records, instants) ==
    {[kind |-> "log", children |-> c, records |-> r, instants |-> instants] : c \in configs, r \in records}
LogTests ==
    {[kind |-> "date", day |-> d] : d \in 0 .. 1500 \cup 10950 .. 11400 \cup 29100 .. 29219}
    \cup {[kind |-> "table", n |-> n, p |-> 3] : n \in {1, 499, 500, 501, 999, 1000}}
    \cup {[kind |-> "sort", tags |-> t] : t \in SeqsTo({"DateTime", "Tid", "Level", "Other"}, 4) \ {<<>>}}
    \cup Logs(Configs, {{Record(l, p, 120, TRUE, <<Arg("literal", <<120>>)>>)} :
                           l \in {1, 4}, p \in {Header, SubSeq(Header, 3, 5), <<47>> \o Header}},
              {Noon})
    \cup Logs({<<Levels({1})>>},
              {{Record(1, Header, n, FALSE, <<a, Arg("int", -20)>>)} : n \in {9, 10000}, a \in Args}, {Noon})
    \cup Logs({<<Levels({1})>>}, {{Record(1, Header, 3, FALSE, <<>>)}},
              {[day |-> d, ms |-> m] : d \in {0, 1, 789, 29219}, m \in {0, 86399999, 3723045}})
-----------------------------------------------------------------------------

VARIABLES program, m1, m2, m3, m4, m5, m6, m7, m8, m9, m10, m11, m12

allVars == <<program, m1, m2, m3, m4, m5, m6, m7, m8, m9, m10, m11, m12>>

\* From mi on, the memory is not used.
Off11 == m11 = 0 /\ m12 = 0
Off10 == m10 = 0 /\ Off11
Off9 == m9 = 0 /\ Off10
Off8 == m8 = 0 /\ Off9
Off7 == m7 = 0 /\ Off8
Off6 == m6 = 0 /\ Off7
Off5 == m5 = 0 /\ Off6
Off3 == m3 = 0 /\ m4 = 0 /\ Off5

On12(p) == program = p /\ UNCHANGED program
On10(p) == On12(p) /\ UNCHANGED <<m11, m12>>
On9(p) == On10(p) /\ UNCHANGED m10
On8(p) == On9(p) /\ UNCHANGED m9
On7(p) == On8(p) /\ UNCHANGED m8
On6(p) == On7(p) /\ UNCHANGED m7
On5(p) == On6(p) /\ UNCHANGED m6
On4(p) == On5(p) /\ UNCHANGED m5
On2(p) == On4(p) /\ UNCHANGED <<m3, m4>>
-----------------------------------------------------------------------------
Fut == INSTANCE Futures WITH
    Blocks <- 5, Single <- 4, Roots <- 2, Takes <- {"ref"}, Counts <- {0, 1, 2}, Early <- 1,
    blk <- m1, mq <- m2, last <- m3, n <- m4

Down == INSTANCE Downloader WITH
    Docs <- {"a", "b"}, Workers <- 2, MaxRetries <- 2, SaveInterval <- 1, Runs <- 2,
    file <- m1, saved <- m2, progress <- m3, fut <- m4, att <- m5, completed <- m6, batch <- m7,
    retry <- m8, pc <- m9, after <- m10, runs <- m11, clean <- m12

Fetch == INSTANCE IssueFetcher WITH
    Repos <- Pages, CkptEvery <- 2, Streak <- 3, Runs <- 3, HttpFails <- TRUE,
    repo <- m1, page <- m2, issues <- m3, streak <- m4, data <- m5, at <- m6, ckpt <- m7,
    pc <- m8, done <- m9, runs <- m10

Trans == INSTANCE Translator WITH
    Files <- {"f", "g"}, Keys <- <<"k1", "k2">>, MaxRetries <- 2, Threshold <- 2, ChunkSize <- 2,
    IndexSpan <- 2,
    text <- m1, index <- m2, fails <- m3, active <- m4, current <- m5, chunk <- m6, at <- m7, disk <- m8

Lkml == INSTANCE LkmlArchive WITH
    Ids <- 1 .. 4, Runs <- 2,
    box <- m1, keep <- m2, pc <- m3, git <- m4, raw <- m5, parent <- m6, order <- m7, out <- m8,
    shm <- m9, final <- m10, runs <- m11, said <- m12

Zx == INSTANCE Zxgrep WITH
    Words <- {"u", "v"}, Include <- Pattern("--include"), Exclude <- Pattern("--exclude"),
    Inputs <- Searches,
    input <- m1, argv <- m2, opts <- m3, fs <- m4, job <- m5, shown <- m6, pc <- m7

Code == INSTANCE ThreadedCode WITH
    W <- 8, NumRegs <- 4, Lengths <- {100, 120}, code <- m1, vm <- m2,
    lexemes <- m1, input <- m2, tok <- m3, machine <- m4

Stack == INSTANCE ExceptionSafety WITH
    Designs <- 1 .. 7, Values <- {1, 2}, InitCapacity <- 1, MaxSize <- 3, MaxThrows <- 2,
    design <- m1, stacks <- m2, heap <- m3, threw <- m4, got <- m5, copyThrew <- m6

Linker == INSTANCE ElfLinker WITH
    BASE_ADDR <- 64, HdrSize <- 10, Int32 <- 128,
    objects <- m1, pc <- m2, oi <- m3, chunks <- m4, osecs <- m5, all_syms <- m6, globals <- m7,
    stored <- m8, exe <- m9

Io == INSTANCE IoTrace WITH
    mode <- m1, pc <- m2, pos <- m3, size <- m4, cache <- m5, dirty <- m6, dev <- m7, media <- m8

Simd == INSTANCE SimdKernels WITH
    ILP <- 2, W <- 5, Step <- 2,
    job <- m1, at <- m2, acc <- m3, dst <- m4, top <- m5, ret <- m6

Form == INSTANCE LogFormat WITH
    Tests <- LogTests, Tid <- 4711, Chunk <- 500, Ranges <- 3, Places <- 7,
    test <- m1, last <- m2, dateRecord <- m3, seen <- m4, out <- m5

Algo == INSTANCE Algorithms WITH
    Items <- {1, 2, 3, 6, 9}, Sizes <- {2, 8}, FBits <- 4, Ways <- 2, magic_code <- 3, Retries <- 2,
    MaxCopies <- 2,
    buckets <- m1, s_round <- m2, cuckoo <- m3, held <- m4, lost <- m5, aborted <- m6,
    Total <- 24, EPS <- 2,
    probabilities <- m1, u <- m2, aliases <- m3, at <- m4, rounding <- m5, crashed <- m6,
    RingSize <- 3, Lookups <- Keys, Streams <- {1, 2, 3, 4, 6},
    test <- m1, key <- m2, frames <- m3, found <- m5, missed <- m6, ring <- m7, limit <- m8, mem <- m9
-----------------------------------------------------------------------------
ProgramsInit ==
    \/ program = "future" /\ Fut!Init /\ Off5
    \/ program = "download.py" /\ Down!Init
    \/ program = "fetch_issues.py" /\ Fetch!Init /\ Off11
    \/ program = "translate-llm.py" /\ Trans!Init /\ Off9
    \/ program = "lkml_archive.py" /\ Lkml!Init
    \/ program = "zxgrep.py" /\ Zx!Init /\ Off8
    \/ program = "threaded_code" /\ Code!VmInit /\ Off3
    \/ program = "json.cpp" /\ Code!JsonInit /\ Off5
    \/ program = "exception_safety" /\ Stack!Init /\ Off7
    \/ program = "mini_elf_linker.cpp" /\ Linker!Init /\ Off10
    \/ program = "nanotest.cpp" /\ Algo!PipeInit /\ Off10
    \/ program = "iotrace.c" /\ Io!Init /\ Off9
    \/ program = "simd" /\ Simd!Init /\ Off7
    \/ program = "Log.hpp" /\ Form!Init /\ Off6
    \/ program = "cuckoo_filter.cpp" /\ Algo!FilterInit /\ Off7
    \/ program = "alias_method.cpp" /\ Algo!AliasInit /\ Off7

ProgramsNext ==
    \/ On4("future") /\ Fut!Next
    \/ On12("download.py") /\ Down!Next
    \/ On10("fetch_issues.py") /\ Fetch!Next
    \/ On8("translate-llm.py") /\ Trans!Next
    \/ On12("lkml_archive.py") /\ Lkml!Next
    \/ On7("zxgrep.py") /\ Zx!Next
    \/ On2("threaded_code") /\ Code!VmNext
    \/ On4("json.cpp") /\ Code!JsonNext
    \/ On6("exception_safety") /\ Stack!Next
    \/ On9("mini_elf_linker.cpp") /\ Linker!Next
    \/ On9("nanotest.cpp") /\ Algo!PipeNext
    \/ On8("iotrace.c") /\ Io!Next
    \/ On6("simd") /\ Simd!Next
    \/ On5("Log.hpp") /\ Form!Next
    \/ On6("cuckoo_filter.cpp") /\ Algo!FilterNext
    \/ On6("alias_method.cpp") /\ Algo!AliasNext

\* The processes of the running program go on, and so do the worker threads of the
\* downloader; its user starts, interrupts or kills it at will.
Goes ==
    \/ On12("download.py") /\ Down!Main
    \/ On10("fetch_issues.py") /\ Fetch!Main
    \/ On8("translate-llm.py") /\ Trans!Run
    \/ On12("lkml_archive.py") /\ Lkml!Main
    \/ On7("zxgrep.py") /\ Zx!Run
    \/ On9("nanotest.cpp") /\ Algo!PipeNext

ProgramsSpec ==
    /\ ProgramsInit /\ [][ProgramsNext]_allVars
    /\ WF_allVars(Goes) /\ WF_allVars(On12("download.py") /\ Down!Thread)
-----------------------------------------------------------------------------
\* Futures hold the value of the expression that built them, and every continuation is
\* queued exactly from its value on until it has run, in whatever order continuations
\* are attached, values set, promises cancelled and looper events run.
FuturesKept == program = "future" => Fut!FutureValues /\ Fut!ContinuationQueued

\* What a script has recorded or left on disk is true, whatever was interrupted, killed
\* and resumed before: documents called downloaded are whole, Done means that the issues
\* are there (or why not), a translation is of the whole text, an archive has every mail
\* in its thread, and the files shown, copied or moved are those that match.  Three cases are
\* excepted by name: a Done after a request that gave up, an archive torn by a move that
\* failed, and -N with --or (see the properties of the modules).
RecordsTrue ==
    /\ program = "download.py" => Down!RecordedWhole
    /\ program = "fetch_issues.py" => Fetch!DoneExplained
    /\ program = "translate-llm.py" => Trans!TranslatedWhole
    /\ program = "lkml_archive.py" => Lkml!ArchiveWhole
    /\ program = "zxgrep.py" => Zx!SearchExact

\* Each of the six interpreters of threaded_code does what the names of the instructions
\* promise, and each tokenizer, classifier and machine of json.cpp finds what the text holds,
\* with the exceptions that the properties of the module name: opcodes 29 to 31 in the
\* indirect and the token version, misspelt keywords in the switch and the table version,
\* unterminated strings in the tail-calling one.
InterpretersExact ==
    /\ program = "threaded_code" => Code!InterpretersExact
    /\ program = "json.cpp" => Code!TokensExact /\ Code!ClassesExact

\* Whatever throws in a stack of exception_safety, every array on the heap belongs to
\* exactly one living stack, but for the arrays that the copy constructor of case 5 leaks.
HeapOwned == program = "exception_safety" => Stack!HeapOwned

\* An operation of a stack that throws leaves every stack as it was; the pop of case 3 is
\* the counterexample that case is about.
ThrowsLeaveStacks == [][program = "exception_safety" => Stack!Restored]_allVars

\* The linker's image is laid out as the loader maps it, every relocation stored the
\* address its symbol means, and a link is refused for a reason that is in the objects.
LinkExact == program = "mini_elf_linker.cpp" => Linker!LinkExact

\* Both pipelines of nanotest find what the plain search finds and take no more frames than
\* there are streams, but for the searches that the ring of the coroutines loses from as many
\* streams on as it has slots; the cuckoo filter finds every item it was given and that was
\* not removed, however much it was moved, unless an add() had failed.
LookupsExact ==
    /\ program = "nanotest.cpp" => Algo!LookupsAgree /\ Algo!FramesBounded
    /\ program = "cuckoo_filter.cpp" => Algo!NoFalseNegatives

\* Every vector kernel computes what its scalar counterpart does, whatever the length of
\* the range and wherever the interesting elements fall; the alias table chooses every
\* index with the probability it was given, but for the rounding; and a record of the logger
\* reads as meant, but for its date when the clock was set back to an earlier day and for a
\* double that is 0, with which the call never returns.
KernelsExact ==
    /\ program = "simd" => Simd!KernelsExact
    /\ program = "alias_method.cpp" => Algo!ChoicesExact
    /\ program = "Log.hpp" => Form!TablesExact /\ Form!RecordsExact

\* Once a mode of the I/O programs has synced the file, all of it is on the medium and is
\* read back as written.
TraceOk == program = "iotrace.c" => Io!TraceOk

\* What the running program still owes.
Owes ==
    \/ program = "download.py" /\ Down!Owed
    \/ program = "fetch_issues.py" /\ Fetch!Owed
    \/ program = "translate-llm.py" /\ Trans!Owed
    \/ program = "lkml_archive.py" /\ Lkml!Owed
    \/ program = "zxgrep.py" /\ Zx!Owed
    \/ program = "nanotest.cpp" /\ Algo!Owed

\* A program that was started ends, once its user leaves it alone: whatever requests,
\* attempts, chunks or coroutines it still waits for.
ProgramsEnd == Owes ~> ~Owes

\* "OK: strong symbol (222) overrides weak symbol (111)" (test 13 of the linker): a reference
\* to a name gives the strong definition's address, whichever object it stands in.
StrongOverridesWeak == program = "mini_elf_linker.cpp" => Linker!StrongOverridesWeak
=============================================================================
