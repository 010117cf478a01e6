------------------------------ MODULE Zxgrep ------------------------------
(***************************************************************************)
(* scripts/doc/zxgrep.py: the command line, the walk over the input, the   *)
(* search of each file by a process of the pool, and the copy or move of   *)
(* the files that match, in the order their searches end.  A path is a     *)
(* sequence of names; the content of a text file is a sequence of lines,   *)
(* a line the set of WORDs it matches; a name matches the words in         *)
(* NameWords.  An argument of an option is written into its token.         *)
(***************************************************************************)
EXTENDS Naturals, Sequences, FiniteSets

CONSTANTS Argvs,      \* command lines after INPUT: sequences of tokens
          Words,      \* the tokens that are WORDs
          NameWords,  \* basename -> words it matches
          Include, Exclude,  \* --include / --exclude token -> basenames its pattern matches
          Dirs,       \* -o token -> path; Dirs["-O"] is the automatic one
          Inputs      \* [kind, root, files]: files is a set of [path, lines, text]

VARIABLES input, argv, opts, fs, job, shown, pc

zxVars == <<input, argv, opts, fs, job, shown, pc>>

Prefix(p, q) == Len(p) <= Len(q) /\ SubSeq(q, 1, Len(p)) = p
NoDir == <<"none">>
Fresh == [die |-> FALSE, words |-> {}, file |-> FALSE, out |-> NoDir, auto |-> FALSE,
          list |-> FALSE, name |-> FALSE, mode |-> "substr", move |-> FALSE, moveSet |-> FALSE,
          or |-> FALSE, include |-> {}, exclude |-> {}]

\* One turn of parse_args' loop.  Options that only change colours, case or jobs are left out.
Died(o) == [o EXCEPT !.die = TRUE]
Transfer(o, m) == IF o.moveSet /\ o.move # m THEN Died(o)
                  ELSE [o EXCEPT !.move = m, !.moveSet = TRUE]
Regex(o) == IF o.mode = "exact" THEN Died(o) ELSE [o EXCEPT !.mode = "regex"]
Option(o, t) ==
    CASE o.die -> o
      [] t \in Words -> [o EXCEPT !.words = @ \cup {t}]
      [] t = "--file" -> [o EXCEPT !.file = TRUE]
      [] t = "-x" -> IF o.mode = "regex" THEN Died(o) ELSE [o EXCEPT !.mode = "exact"]
      [] t = "-r" -> Regex(o)
      [] t = "--or" -> [o EXCEPT !.or = TRUE]
      [] t = "-l" -> [o EXCEPT !.list = TRUE]
      [] t = "-N" -> [o EXCEPT !.name = TRUE, !.file = TRUE, !.list = TRUE]
      [] t = "--copy" -> Transfer(o, FALSE)
      [] t = "--move" -> Transfer(o, TRUE)
      [] t = "-O" -> IF o.out # NoDir THEN Died(o) ELSE [o EXCEPT !.auto = TRUE]
      [] t \in DOMAIN Dirs -> IF o.auto THEN Died(o) ELSE [o EXCEPT !.out = Dirs[t]]
      [] t \in DOMAIN Include -> [o EXCEPT !.include = @ \cup {t}]
      [] t \in DOMAIN Exclude -> [o EXCEPT !.exclude = @ \cup {t}]
      [] OTHER -> Died(o)

\* After the loop: the words, the automatic directory, --copy/--move without one
Parsed(a) ==
    LET scan[i \in 0 .. Len(a)] == IF i = 0 THEN Fresh ELSE Option(scan[i - 1], a[i])
        o == scan[Len(a)]
        p == IF o.auto THEN [o EXCEPT !.out = Dirs["-O"]] ELSE o
    IN  IF o.die \/ o.words = {} \/ (o.moveSet /\ p.out = NoDir) THEN Died(Fresh) ELSE p

Base(p) == p[Len(p)]
\* check_file_filters, on the basename (a pattern for the relative path is left out)
Filtered(p) ==
    /\ \A g \in opts.exclude : Base(p) \notin Exclude[g]
    /\ opts.include # {} => \E g \in opts.include : Base(p) \in Include[g]

\* exclude_dir: only for a directory that holds the output directory
Root == IF input.kind = "archive" THEN <<"tmp">> ELSE input.root
Excluded(p) == input.kind = "dir" /\ opts.out # NoDir /\ Prefix(input.root, opts.out) /\ Prefix(opts.out, p)

\* build_source_items
Items == IF input.kind = "file" THEN {input.root}
         ELSE {f.path : f \in {g \in fs : Prefix(Root, g.path) /\ ~Excluded(g.path) /\ Filtered(g.path)}}
Rel(p) == IF input.kind = "file" THEN <<Base(p)>> ELSE SubSeq(p, Len(Root) + 1, Len(p))

Wanted(found) == IF opts.or THEN found # {} ELSE opts.words \subseteq found
\* worker_search_file: the numbers of the matching lines, {0} for a file that is only listed, or {}
Search(p, lines, text) ==
    IF opts.name THEN IF opts.words \subseteq NameWords[Base(p)] THEN {0} ELSE {}
    ELSE IF ~text THEN {}
    ELSE LET hits(i) == lines[i] \cap opts.words
             anyLine == {i \in DOMAIN lines : hits(i) # {}}
             all == UNION {hits(i) : i \in DOMAIN lines}
             matched == IF opts.file THEN IF Wanted(all) THEN anyLine ELSE {}
                        ELSE {i \in DOMAIN lines : Wanted(hits(i))}
         IN  IF opts.list /\ matched # {} THEN {0} ELSE matched

Init ==
    /\ input \in Inputs /\ fs = input.files
    /\ argv \in Argvs /\ opts = Parsed(argv)
    /\ job = [p \in {} |-> {}] /\ shown = {} /\ pc = "start"

\* main, run_search: usage error, or the archive unpacked.  A tar that fails may have unpacked
\* some of it; main dies with 2 for the CalledProcessError, after the clause finally
Unpacked(files) == {[f EXCEPT !.path = <<"tmp">> \o Tail(@)] : f \in files}
Begin ==
    /\ pc = "start"
    /\ IF opts.die THEN pc' = "exit2" /\ UNCHANGED fs
       ELSE \/ /\ pc' = "items"
               /\ fs' = IF input.kind # "archive" THEN fs
                        ELSE fs \cup Unpacked(fs)
            \/ /\ input.kind = "archive" /\ pc' = "raised"
               /\ \E some \in SUBSET fs : fs' = fs \cup Unpacked(some)
    /\ UNCHANGED <<input, argv, opts, job, shown>>
Submit ==
    /\ pc = "items"
    /\ job' = [p \in Items |-> "todo"]
    /\ pc' = IF Items = {} THEN "finally" ELSE "pool"
    /\ UNCHANGED <<input, argv, opts, fs, shown>>

\* A process of the pool reads the file as it is now (it is there: no target of a
\* transfer is the path of another file of the input, see Argvs)
Work(p) ==
    /\ pc = "pool" /\ job[p] = "todo"
    /\ \E f \in fs : f.path = p /\ job' = [job EXCEPT ![p] =
           IF Search(p, f.lines, f.text) = {} THEN "miss" ELSE "hit"]
    /\ UNCHANGED <<input, argv, opts, fs, shown, pc>>

\* safe_move, safe_copy: what is at dst goes first, a directory with all in it.
safe_transfer(p, dst) ==
    LET kept == {f \in fs : ~Prefix(dst, f.path) /\ ~(opts.move /\ f.path = p)}
    IN  IF dst = p THEN fs ELSE kept \cup {[f EXCEPT !.path = dst] : f \in {g \in fs : g.path = p}}
\* as_completed: transferred if asked to, and its lines shown
Take(p) ==
    LET there == {f \in fs : f.path = p}
    IN  /\ pc = "pool" /\ job[p] = "hit"
        /\ fs' = IF opts.out = NoDir THEN fs ELSE safe_transfer(p, opts.out \o Rel(p))
        /\ shown' = shown \cup {[path |-> p, at |-> Search(p, f.lines, f.text)] : f \in there}
        /\ job' = [job EXCEPT ![p] = "done"]
        /\ UNCHANGED <<input, argv, opts, pc>>
Finish ==
    /\ pc = "pool" /\ \A p \in DOMAIN job : job[p] \in {"miss", "done"}
    /\ pc' = "finally"
    /\ UNCHANGED <<input, argv, opts, fs, job, shown>>
Finally ==
    /\ pc \in {"finally", "raised"}
    /\ pc' = CASE pc = "raised" -> "exit2" [] shown # {} -> "exit0" [] OTHER -> "exit1"
    /\ fs' = {f \in fs : ~Prefix(<<"tmp">>, f.path)}
    /\ UNCHANGED <<input, argv, opts, job, shown>>

Run == Begin \/ Submit \/ (\E p \in DOMAIN job : Work(p) \/ Take(p)) \/ Finish \/ Finally
Next == Run \/ (pc \in {"exit0", "exit1", "exit2"} /\ UNCHANGED zxVars)
Fairness == WF_zxVars(Run)
Spec == Init /\ [][Next]_zxVars /\ Fairness

\* Reference: which files match by usage() under the options o: without --or all words, in
\* one line or with --file in one file; with --or any of them; -N looks at the name instead.
Matches(f, o) ==
    LET lines == IF o.name THEN <<NameWords[Base(f.path)]>> ELSE f.lines
        any == \E i \in DOMAIN lines : lines[i] \cap o.words # {}
        together == \E i \in DOMAIN lines : o.words \subseteq lines[i]
        apart == \A w \in o.words : \E i \in DOMAIN lines : w \in lines[i]
    IN  (o.name \/ f.text) /\ (IF o.or THEN any ELSE IF o.file THEN apart ELSE together)
\* -N together with --or: zxgrep.py:581 asks for all words, although usage() says that with
\* --or any of them is enough (zxgrep.py:166-169).
NameOr == opts.name /\ opts.or
AsUsed == IF NameOr THEN [opts EXCEPT !.or = FALSE] ELSE opts
Searched == {f \in input.files : /\ Prefix(input.root, f.path) /\ ~Excluded(f.path)
                                 /\ input.kind = "file" \/ Filtered(f.path)}
Swapped(a) == [i \in DOMAIN a |-> a[Len(a) + 1 - i]]

\* In whatever order the searches end: the files shown are those that match as usage()
\* says, except that -N ignores --or (NameOr), so that fewer files are shown than it says;
\* each has its copy under the output directory at its relative path; a copy leaves every
\* input file as it was and a move takes exactly the files shown; after an error nothing has
\* changed; nothing stays in the temporary directory; and the order of the options does not
\* matter (that of the words only for the name of the automatic directory).
SearchExact ==
    LET hit == {f \in Searched : Matches(f, AsUsed)}
        name(f) == SubSeq(f.path, Len(input.root) + 1, Len(f.path))
        target(f) == opts.out \o (IF input.kind = "file" THEN <<Base(f.path)>> ELSE name(f))
    IN  /\ pc = "start" => Parsed(Swapped(argv)) = opts
        /\ pc = "exit2" => fs = input.files
        /\ pc \in {"exit0", "exit1"} =>
             /\ Cardinality(shown) = Cardinality(hit)
             /\ pc = "exit0" <=> hit # {}
             /\ NameOr => hit \subseteq {f \in Searched : Matches(f, opts)}
             /\ opts.out # NoDir => \A f \in hit : [f EXCEPT !.path = target(f)] \in fs
             /\ \A f \in input.files :
                  f \in fs <=> ~(opts.move /\ f \in hit /\ input.kind # "archive" /\ target(f) # f.path)
             /\ \A f \in fs : f.path[1] # "tmp"

\* Owed: that a search ends.
Owed == pc \notin {"exit0", "exit1", "exit2"}
=============================================================================
