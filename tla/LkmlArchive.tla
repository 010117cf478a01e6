---------------------------- MODULE LkmlArchive ----------------------------
(***************************************************************************)
(* scripts/kernel/lkml_archive.py: clone, extract, build threads, compress *)
(* and the cleaning between them, run again after failures and kills, with *)
(* or without --keep.  A mail is its Message-ID, and its date.  A file     *)
(* name is <<subject>>, or <<subject, n>> for a subject that ends in -n:   *)
(* what _clean_filename makes and what the name counter makes of it.       *)
(***************************************************************************)
EXTENDS Naturals, Sequences, FiniteSets

CONSTANTS Ids,       \* message ids, those of lost mails too
          Boxes,     \* mailing lists: [mails, refs, subject]
          Runs       \* bound: how often the program is started

VARIABLES box, keep, pc,
          git, raw,  \* clone and raw_emails: "none", "partial", "whole"
          parent, order, \* _parent, and the keys of emails_data in their order
          out,       \* out_dir: the set of [name, mails]
          shm,       \* the archive in /dev/shm
          final,     \* the one at its place: [st: "none" | "torn" | "whole", files]
          said,      \* the run said that all is done
          runs

lkmlVars == <<box, keep, pc, git, raw, parent, order, out, shm, final, said, runs>>

NoArchive == [st |-> "none", files |-> {}]

\* _find and _union: p is _parent, total because a new id is its own parent
Root(p, i) == LET root[x \in Ids] == IF p[x] = x THEN x ELSE root[p[x]] IN root[i]
Path(p, i) == LET path[x \in Ids] == {x} \cup (IF p[x] = x THEN {} ELSE path[p[x]]) IN path[i]
Found(p, i) == LET way == Path(p, i)
                   r == Root(p, i)
               IN  [x \in Ids |-> IF x \in way THEN r ELSE p[x]]
Union(p, i, j) == LET q == Found(Found(p, i), j) IN [q EXCEPT ![q[i]] = q[j]]

\* One mail, joined with its references
Linking(p, m, refs) ==
    LET l[n \in 0 .. Len(refs)] == IF n = 0 THEN p ELSE Union(l[n - 1], m, refs[n])
    IN  l[Len(refs)]
Threads == {{m \in box.mails : Root(parent, m) = r} : r \in {Root(parent, m) : m \in box.mails}}

First(t) == CHOOSE m \in t : \A n \in t : m <= n
\* The files, named in the order the threads were found; a later one replaces
\* an earlier one of the same name.
Files ==
    LET at(t) == CHOOSE i \in DOMAIN order : order[i] \in t /\ \A j \in 1 .. i - 1 : order[j] \notin t
        base(t) == box.subject[First(t)]
        nth(t) == Cardinality({u \in Threads : base(u) = base(t) /\ at(u) <= at(t)})
        name(t) == IF nth(t) > 1 THEN Append(base(t), nth(t)) ELSE base(t)
    IN  {[name |-> name(t), mails |-> t] :
            t \in {u \in Threads : \A v \in Threads : name(u) = name(v) => at(v) <= at(u)}}

Init ==
    /\ box \in Boxes /\ keep = FALSE /\ pc = "down"
    /\ git = "none" /\ raw = "none" /\ out = {} /\ shm = {} /\ final = NoArchive
    /\ said = FALSE /\ runs = 0
    /\ parent = [i \in Ids |-> i] /\ order = <<>>

Start ==
    /\ pc = "down" /\ runs < Runs /\ runs' = runs + 1
    /\ keep' \in BOOLEAN /\ pc' = "clone"
    /\ parent' = [i \in Ids |-> i] /\ order' = <<>> /\ said' = FALSE
    /\ UNCHANGED <<box, git, raw, out, shm, final>>

\* step_clone: an existing directory is taken as it is; git removes a failed one
Clone ==
    /\ pc = "clone"
    /\ \/ git # "none" /\ pc' = "extract" /\ UNCHANGED git
       \/ git = "none" /\ git' = "partial" /\ pc' = "cloning"
    /\ UNCHANGED <<parent, order, box, keep, raw, out, shm, final, said, runs>>
Cloned ==
    /\ pc = "cloning"
    /\ \/ git' = "whole" /\ pc' = "extract"
       \/ git' = "none" /\ pc' = "finally"
    /\ UNCHANGED <<parent, order, box, keep, raw, out, shm, final, said, runs>>

\* step_extract_emails: git log fails on half a clone
Extract ==
    /\ pc = "extract"
    /\ \/ git = "whole" /\ raw' = (IF raw = "whole" THEN raw ELSE "partial") /\ pc' = "extracting"
       \/ git = "partial" /\ pc' = "finally" /\ UNCHANGED raw
    /\ UNCHANGED <<parent, order, box, keep, git, out, shm, final, said, runs>>
Extracted ==
    /\ pc = "extracting"
    /\ \/ raw' = "whole" /\ pc' = "threads" /\ git' = IF keep THEN git ELSE "none"
       \/ pc' = "finally" /\ UNCHANGED <<raw, git>>
    /\ UNCHANGED <<parent, order, box, keep, out, shm, final, said, runs>>

\* step_build_threads: the mails in the order os.walk gives, then the files;
\* those of an earlier run stay
Read(m) ==
    /\ pc = "threads" /\ m \in box.mails \ {order[i] : i \in DOMAIN order}
    /\ parent' = Linking(parent, m, box.refs[m]) /\ order' = Append(order, m)
    /\ UNCHANGED <<box, keep, pc, git, raw, out, shm, final, said, runs>>
Written(files) == files \cup {f \in out : \A g \in files : g.name # f.name}
Build ==
    /\ pc = "threads" /\ Len(order) = Cardinality(box.mails) /\ pc' = "compress"
    /\ out' = Written(Files)
    /\ raw' = IF keep THEN raw ELSE "none"
    /\ UNCHANGED <<box, keep, git, parent, order, shm, final, said, runs>>

\* step_compress: tar | zstd into /dev/shm, then shutil.move to another file system.  It
\* copies over the archive that is there; it may raise while it does (no space left).
Compress ==
    /\ pc = "compress"
    /\ \/ shm' = out /\ pc' = "move"
       \/ shm' = {} /\ pc' = "finally"
    /\ UNCHANGED <<parent, order, box, keep, git, raw, out, final, said, runs>>
Move ==
    /\ pc = "move" /\ final' = [st |-> "torn", files |-> {}] /\ pc' = "moving"
    /\ UNCHANGED <<parent, order, box, keep, git, raw, out, shm, said, runs>>
Moved ==
    /\ pc = "moving" /\ pc' = "finally"
    /\ \/ /\ final' = [st |-> "whole", files |-> shm] /\ shm' = {}
          /\ out' = (IF keep THEN out ELSE {}) /\ said' = TRUE
       \/ UNCHANGED <<final, shm, out, said>>
    /\ UNCHANGED <<parent, order, box, keep, git, raw, runs>>

\* the clause finally: everything goes unless --keep
Finally ==
    /\ pc = "finally" /\ pc' = "down"
    /\ IF keep THEN UNCHANGED <<git, raw, out, shm>>
       ELSE git' = "none" /\ raw' = "none" /\ out' = {} /\ shm' = {}
    /\ UNCHANGED <<parent, order, box, keep, final, said, runs>>

\* A kill leaves what there is, and any of the files that were being written
Kill ==
    /\ pc # "down" /\ pc' = "down"
    /\ \/ UNCHANGED out
       \/ /\ pc = "threads" /\ Len(order) = Cardinality(box.mails)
          /\ \E files \in SUBSET Files : out' = Written(files)
    /\ UNCHANGED <<parent, order, box, keep, git, raw, shm, final, said, runs>>

Main == Clone \/ Cloned \/ Extract \/ Extracted \/ (\E m \in Ids : Read(m)) \/ Build \/ Compress \/ Move \/ Moved \/ Finally
Next == Start \/ Main \/ Kill
Fairness == WF_lkmlVars(Main)
Spec == Init /\ [][Next]_lkmlVars /\ Fairness

\* Reference: mails belong together when references connect them, whichever
\* mails are missing in between.
Linked(b) == UNION {{{m, b.refs[m][i]} : i \in DOMAIN b.refs[m]} : m \in b.mails}
Component(b, m) ==
    LET links == Linked(b)
        grow[n \in 0 .. Cardinality(Ids)] ==
            IF n = 0 THEN {m}
            ELSE grow[n - 1] \cup UNION {e \in links : e \cap grow[n - 1] # {}}
    IN  grow[Cardinality(Ids)] \cap b.mails

\* Two threads may get one name when a subject ends in the number the counter
\* appends to another.
NamesClash(b) == \E m, n \in b.mails : Len(b.subject[m]) > 1 /\ b.subject[n] = SubSeq(b.subject[m], 1, 1)

\* A run says that all is done only when the archive is at its place, and an archive
\* that is whole holds every mail, in a file with exactly its thread, whichever order the mails
\* are read in and whatever an earlier run that failed, was killed or kept its files has left;
\* unless two names clash.  A move that fails or is killed on the way (lkml_archive.py:304)
\* leaves a torn archive, over the whole one of an earlier run too; that run never says it.
ArchiveWhole ==
    /\ said => final.st = "whole"
    /\ (final.st = "whole" /\ ~NamesClash(box)) =>
          \A m \in box.mails : \E f \in final.files : f.mails = Component(box, m)

\* Owed: that a start ends.
Owed == pc # "down"
=============================================================================
