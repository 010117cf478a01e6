--------------------------- MODULE IssueFetcher ---------------------------
(***************************************************************************)
(* scripts/github/fetch_issues.py: GitHubIssueFetcher.fetch, run again     *)
(* until it says Done.  The repository is a sequence of pages, each two    *)
(* issues or only pull requests; item i of page p is issue <<p, i>>.       *)
(* Ctrl+C is handled by the code, an uncaught ConnectionError or a kill is *)
(* not, and a request may fail on every attempt.                           *)
(***************************************************************************)
EXTENDS Naturals, Sequences, FiniteSets

CONSTANTS Repos,      \* what the repository may look like: sequences of "issues" / "prs"
          CkptEvery,  \* pages between two checkpoints (5)
          Streak,     \* pages without a new issue before giving up (3)
          Runs,       \* bound: how often the program is started
          HttpFails   \* whether _request may return None

VARIABLES repo, page, issues, streak,
          data, at,          \* the page just received, and the item reached in it
          ckpt,              \* the file: [st: "none" | "torn" | "ok", issues, next]
          pc, done, runs

fetchVars == <<repo, page, issues, streak, data, at, ckpt, pc, done, runs>>

NoCkpt == [st |-> "none", issues |-> <<>>, next |-> 1]
Items(p) == IF p <= Len(repo) /\ repo[p] = "issues" THEN <<<<p, 1>>, <<p, 2>>>> ELSE <<>>
Elements(s) == {s[i] : i \in 1 .. Len(s)}
All == UNION {Elements(Items(p)) : p \in 1 .. Len(repo)}

Init ==
    /\ repo \in Repos /\ page = 1 /\ issues = <<>> /\ streak = 0
    /\ data = "none" /\ at = 0 /\ ckpt = NoCkpt /\ pc = "down" /\ done = FALSE /\ runs = 0

\* _load_ckpt: a torn file raises, otherwise the user may resume
Start(resume) ==
    /\ pc = "down" /\ ~done /\ runs < Runs /\ runs' = runs + 1
    /\ ckpt.st # "torn"
    /\ LET c == IF ckpt.st = "ok" /\ resume THEN ckpt ELSE NoCkpt
       IN  issues' = c.issues /\ page' = c.next
    /\ streak' = 0 /\ pc' = "request" /\ data' = "none" /\ at' = 0
    /\ UNCHANGED <<repo, ckpt, done>>

\* _request for one page: the page, or None after max_retries
Request ==
    /\ pc = "request"
    /\ \/ data' = (IF page <= Len(repo) THEN "page" ELSE "empty")
       \/ HttpFails /\ data' = "None"
    /\ pc' = "items" /\ at' = Len(issues)
    /\ UNCHANGED <<repo, page, issues, streak, ckpt, done, runs>>

\* the for loop: one new issue at a time
Item ==
    /\ pc = "items" /\ data = "page"
    /\ LET new == SelectSeq(Items(page), LAMBDA n : n \notin Elements(issues))
       IN  new # <<>> /\ issues' = Append(issues, Head(new))
    /\ UNCHANGED <<repo, page, streak, data, at, ckpt, pc, done, runs>>

NextPage == page + 1

\* not data: break.  Otherwise the streak, the checkpoint and the next page
PageDone ==
    LET added == Len(issues) - at
        s == IF added = 0 THEN streak + 1 ELSE 0
    IN  /\ pc = "items"
        /\ \/ data # "page" /\ pc' = "finish" /\ UNCHANGED <<page, streak, ckpt>>
           \/ /\ data = "page" /\ Elements(Items(page)) \subseteq Elements(issues)
              /\ streak' = s
              /\ IF s >= Streak THEN pc' = "finish" /\ UNCHANGED <<page, ckpt>>
                 ELSE IF page % CkptEvery = 0
                 THEN pc' = "dump" /\ ckpt' = [NoCkpt EXCEPT !.st = "torn"] /\ UNCHANGED page
                 ELSE pc' = "request" /\ page' = page + 1 /\ UNCHANGED ckpt
        /\ UNCHANGED <<repo, issues, data, at, done, runs>>
Dump ==
    /\ pc = "dump" /\ ckpt' = [st |-> "ok", issues |-> issues, next |-> NextPage]
    /\ pc' = "request" /\ page' = page + 1
    /\ UNCHANGED <<repo, issues, streak, data, at, done, runs>>

\* KeyboardInterrupt: save where we are and return
Interrupt ==
    /\ pc \in {"request", "items", "dump"}
    /\ ckpt' = [NoCkpt EXCEPT !.st = "torn"] /\ pc' = "bye"
    /\ UNCHANGED <<repo, page, issues, streak, data, at, done, runs>>
Bye ==
    /\ pc = "bye" /\ ckpt' = [st |-> "ok", issues |-> issues, next |-> page] /\ pc' = "down"
    /\ UNCHANGED <<repo, page, issues, streak, data, at, done, runs>>

\* _del_ckpt and "Done"
Finish ==
    /\ pc = "finish" /\ ckpt' = NoCkpt /\ done' = TRUE /\ pc' = "down"
    /\ UNCHANGED <<repo, page, issues, streak, data, at, runs>>

Kill ==
    /\ pc # "down" /\ pc' = "down"
    /\ UNCHANGED <<repo, page, issues, streak, data, at, ckpt, done, runs>>

Main == Request \/ Item \/ PageDone \/ Dump \/ Bye \/ Finish
Next == (\E r \in BOOLEAN : Start(r)) \/ Main \/ Interrupt \/ Kill
Fairness == WF_fetchVars(Main)
Spec == Init /\ [][Next]_fetchVars /\ Fairness

Upto(p) == UNION {Elements(Items(q)) : q \in 1 .. p}

\* However often fetch was interrupted, killed and resumed, no issue is there twice
\* and none of a page that was passed is missing.  "Done" is said in three cases.  The list
\* was at its end: every issue is there.  Streak pages brought nothing: everything up to
\* them is there, what comes after is not.  A request gave up: fetch_issues.py:143 takes its
\* None for the end ("API returns nothing = there is no more") and the Done is false: of the
\* pages after the one it had asked for nothing is there.
DoneExplained ==
    /\ Cardinality(Elements(issues)) = Len(issues)
    /\ pc # "down" \/ done => Upto(page - 1) \subseteq Elements(issues)
    /\ done => CASE data = "empty" -> Elements(issues) = All
                 [] data = "None" -> Elements(issues) \subseteq Upto(page)
                 [] data = "page" -> streak >= Streak /\ Elements(issues) = Upto(page)

\* Owed: that a start ends, once the user leaves it alone.
Owed == pc # "down"
=============================================================================
