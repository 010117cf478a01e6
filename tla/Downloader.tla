---------------------------- MODULE Downloader ----------------------------
(***************************************************************************)
(* scripts/wg21/download.py: WG21Downloader run again and again on one     *)
(* index, with worker threads, a progress file saved from time to time,    *)
(* Ctrl+C and kills.  A progress is [d, s, f]: downloaded, skipped,        *)
(* failed; the file also has ok, FALSE while it is missing or torn.        *)
(***************************************************************************)
EXTENDS Naturals, FiniteSets

CONSTANTS Docs,         \* the documents filter_documents keeps
          Workers, MaxRetries,
          SaveInterval, \* max(10, 2 * workers) in the code
          Runs          \* bound: how often the program is started

VARIABLES file,      \* output_dir: "none", "partial" or "whole", by document
          saved,     \* progress_file
          progress,  \* self.progress
          fut, att,  \* the future of a document, and its attempt
          completed, batch, retry,
          pc, after, \* where main() is, and where _save_progress returns to
          runs, clean

downVars == <<file, saved, progress, fut, att, completed, batch, retry, pc, after, runs, clean>>

Nothing == [d |-> {}, s |-> {}, f |-> {}]
OnFile(p) == [ok |-> TRUE, p |-> p]
NoFile == [ok |-> FALSE, p |-> Nothing]

\* _load_progress: a missing or unreadable file is an empty progress
Load(s) == s.p

Done == {"success", "skip", "fail", "raised"}
Idle == [k \in Docs |-> "idle"]

\* _update_progress; a future that raised leaves the progress alone
Updated(p, k, status) ==
    CASE status = "success" -> [d |-> p.d \cup {k}, s |-> p.s \ {k}, f |-> p.f \ {k}]
      [] status = "skip" -> [p EXCEPT !.s = @ \cup {k}, !.f = @ \ {k}]
      [] status = "fail" -> [p EXCEPT !.f = @ \cup {k}]
      [] OTHER -> p

Init ==
    /\ file = [k \in Docs |-> "none"] /\ saved = NoFile /\ progress = Nothing
    /\ fut = Idle /\ att = [k \in Docs |-> 0] /\ completed = 0
    /\ batch = {} /\ retry = FALSE /\ pc = "down" /\ after = "down"
    /\ runs = 0 /\ clean = FALSE

\* main up to --include-skipped
Start(reset, include, again) ==
    LET s == IF reset THEN NoFile ELSE saved
    IN  /\ pc = "down" /\ runs < Runs /\ runs' = runs + 1
        /\ saved' = s /\ retry' = again /\ clean' = FALSE
        /\ progress' = IF include THEN [Load(s) EXCEPT !.s = {}] ELSE Load(s)
        /\ pc' = IF include THEN "save" ELSE "plan"
        /\ after' = "plan"
        /\ UNCHANGED <<file, fut, att, completed, batch>>

\* --retry-failed or everything
Plan ==
    /\ pc = "plan"
    /\ IF retry
       THEN /\ batch' = progress.f
            /\ progress' = IF progress.f = {} THEN progress
                           ELSE [progress EXCEPT !.d = @ \ progress.f, !.f = {}]
            /\ pc' = IF progress.f = {} THEN "down" ELSE "save"
            /\ after' = "submit"
       ELSE batch' = Docs /\ pc' = "submit" /\ UNCHANGED <<progress, after>>
    /\ UNCHANGED <<file, saved, fut, att, completed, retry, runs, clean>>

\* mutant: what was already downloaded is fetched again
ToDownloadAll == batch \ progress.s
ToDownload == batch \ (progress.d \cup progress.s)

\* download_all: every document becomes a future
Submit ==
    /\ pc = "submit"
    /\ fut' = [k \in Docs |-> IF k \in ToDownload THEN "queued" ELSE "idle"]
    /\ att' = [k \in Docs |-> 0] /\ completed' = 0
    /\ pc' = IF ToDownload = {} THEN "down" ELSE "work"
    /\ UNCHANGED <<file, saved, progress, batch, retry, after, runs, clean>>

\* _download_single on a worker thread: a request, its answer, its body.  A
\* thread that Ctrl+C finds at work, or a queued future, still runs.
Request(k) ==
    /\ fut[k] = "queued" /\ Cardinality({j \in Docs : fut[j] \in {"get", "write"}}) < Workers
    /\ fut' = [fut EXCEPT ![k] = "get"]
    /\ UNCHANGED <<file, saved, progress, att, completed, batch, retry, pc, after, runs, clean>>
Answered(k) ==
    /\ fut[k] = "get"
    /\ \/ fut' = [fut EXCEPT ![k] = "skip"] /\ UNCHANGED file
       \/ fut' = [fut EXCEPT ![k] = "write"] /\ file' = [file EXCEPT ![k] = "partial"]
       \/ fut' = [fut EXCEPT ![k] = "raised"] /\ UNCHANGED file   \* open() fails
    /\ UNCHANGED <<saved, progress, att, completed, batch, retry, pc, after, runs, clean>>
Written(k) ==
    /\ fut[k] = "write"
    /\ fut' = [fut EXCEPT ![k] = "success"] /\ file' = [file EXCEPT ![k] = "whole"]
    /\ UNCHANGED <<saved, progress, att, completed, batch, retry, pc, after, runs, clean>>
\* mutant: the attempt is not counted
RequestFailsAgain(k) ==
    /\ fut[k] \in {"get", "write"}
    /\ fut' = [fut EXCEPT ![k] = "get"]
    /\ UNCHANGED <<att, file, saved, progress, completed, batch, retry, pc, after, runs, clean>>
RequestFails(k) ==
    /\ fut[k] \in {"get", "write"}
    /\ IF att[k] = MaxRetries - 1
       THEN fut' = [fut EXCEPT ![k] = "fail"] /\ UNCHANGED att
       ELSE fut' = [fut EXCEPT ![k] = "get"] /\ att' = [att EXCEPT ![k] = @ + 1]
    /\ UNCHANGED <<file, saved, progress, completed, batch, retry, pc, after, runs, clean>>

\* as_completed: any finished future is next
Collect(k) ==
    /\ pc = "work" /\ fut[k] \in Done
    /\ progress' = Updated(progress, k, fut[k])
    /\ fut' = [fut EXCEPT ![k] = IF @ = "raised" THEN "lost" ELSE "idle"]
    /\ completed' = completed + 1
    /\ pc' = IF completed' % SaveInterval = 0 THEN "save" ELSE "work"
    /\ after' = "work"
    /\ UNCHANGED <<file, saved, att, batch, retry, runs, clean>>

\* finally: after the last future, or once Ctrl+C has waited for the executor
Leave ==
    /\ \/ pc = "work" /\ \A k \in Docs : fut[k] \in {"idle", "lost"}
       \/ pc = "drain" /\ \A k \in Docs : fut[k] \in Done \cup {"idle", "lost"}
    /\ pc' = "save" /\ after' = "down" /\ clean' = (pc = "work")
    /\ UNCHANGED <<file, saved, progress, fut, att, completed, batch, retry, runs>>
Interrupt ==
    /\ pc = "work" \/ (pc \in {"save", "dump"} /\ after = "work")
    /\ pc' = "drain"
    /\ UNCHANGED <<file, saved, progress, fut, att, completed, batch, retry, after, runs, clean>>

\* _save_progress: open(.., "w") empties the file, json.dump fills it
Truncate ==
    /\ pc = "save" /\ saved' = NoFile /\ pc' = "dump"
    /\ UNCHANGED <<file, progress, fut, att, completed, batch, retry, after, runs, clean>>
Dump ==
    /\ pc = "dump" /\ saved' = OnFile(progress) /\ pc' = after
    /\ UNCHANGED <<file, progress, fut, att, completed, batch, retry, after, runs, clean>>

\* The process is killed: only the files stay.
Kill ==
    /\ pc # "down" /\ pc' = "down" /\ fut' = Idle /\ clean' = FALSE
    /\ UNCHANGED <<file, saved, progress, att, completed, batch, retry, after, runs>>

Thread == \E k \in Docs : Request(k) \/ Answered(k) \/ Written(k) \/ RequestFails(k)
Main == Plan \/ Submit \/ (\E k \in Docs : Collect(k)) \/ Leave \/ Truncate \/ Dump
User == (\E r, i, a \in BOOLEAN : Start(r, i, a)) \/ Interrupt \/ Kill
Next == Thread \/ Main \/ User
Fairness == WF_downVars(Thread) /\ WF_downVars(Main)
Spec == Init /\ [][Next]_downVars /\ Fairness

\* A document the progress calls downloaded, in memory or in the file, is
\* whole on disk, whatever was killed or interrupted before; no document is in two
\* of the three lists; and a run of all documents that was left alone has every one of them
\* in a list, except those whose worker died of an exception that is no request error.
RecordedWhole ==
    /\ \A p \in {progress, saved.p} :
        /\ \A k \in p.d : file[k] = "whole"
        /\ p.d \cap p.s = {} /\ p.d \cap p.f = {} /\ p.s \cap p.f = {}
    /\ (clean /\ pc = "down" /\ batch = Docs) =>
        \A k \in Docs : fut[k] = "lost" \/ k \in saved.p.d \cup saved.p.s \cup saved.p.f

\* Owed: that a start ends, once the user leaves it alone.
Owed == pc # "down"
=============================================================================
