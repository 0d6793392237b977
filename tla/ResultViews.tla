---------------------------- MODULE ResultViews ----------------------------
(***************************************************************************)
(* What is shown of the results: the query functions that the cgi and      *)
(* ci-status share (src/lib.rs) and the pages of the dashboard             *)
(* (src/bin/cgi.rs), as functions of the published .capnp files.           *)
(*                                                                         *)
(* A test filter (a regex in the code) is the set of names it matches.     *)
(* HTML is left out; a page is its kind, its content and its links.        *)
(***************************************************************************)
EXTENDS TestStatus, Ordering, FiniteSetsExt, SequencesExt

CONSTANTS
  Tests,      \* names of results
  Depth,      \* keep_results_commits: how far back a walk goes
  MaxEmpty,   \* untested commits in a row that a walk puts up with: 100 in the code
  Users,      \* the config files: Users[u] is None when it does not parse, or the repo
              \* of each branch
  Linux,      \* the repo that is used when nothing else is configured
  Repos       \* repos with a configured path; the others fall back to none

\* repos: for each repo that can be opened its commits, newest first, and where the
\* branches are: repos[r].history, repos[r].tip[<<user, branch>>] (an index into history).
\* results[c]: the results of commit c, empty when it has none.

NoTests == [t \in {} |-> None]

count_status(tests, status) == Cardinality({t \in DOMAIN tests : tests[t] = status})

filter_results(tests, matching) == [t \in DOMAIN tests \cap matching |-> tests[t]]

\* Mutant of Puts: one untested commit fewer.
MutPuts(nr_empty) == nr_empty < MaxEmpty

\* The walk goes on after this many untested commits in a row.
Puts(nr_empty) == nr_empty <= MaxEmpty

\* nr_empty at each of the first n commits of a walk: the untested ones in a row up to it.
Empties(tested, n) ==
  LET nr_empty[i \in 0..n] == IF i = 0 \/ i \in tested THEN 0 ELSE nr_empty[i - 1] + 1
  IN nr_empty

\* The commits of a walk with their matching results: at most Depth, given up after too
\* many untested ones in a row, without the untested ones at the end.
branch_get_results(walk, results, matching) ==
  LET n == Min({Len(walk), Depth})
      tests(i) == filter_results(results[walk[i]], matching)
      tested == {i \in 1..n : DOMAIN tests(i) # {}}
      nr_empty == Empties(tested, n)
      taken == {i \in 1..n : \A j \in 1..i : Puts(nr_empty[j])}
      last == Max({0} \cup (taken \cap tested))
  IN [i \in 1..last |-> [id |-> walk[i], tests |-> tests(i)]]

\* Mutant of GoesOn: an unknown status is passed over.
MutGoesOn(status) == status \in {"Failed", "Unknown"}

\* last_good_line() looks further back past a failure only.
GoesOn(status) == status = "Failed"

\* How many commits ago the test was last good, or since how many it is not known to be.
last_good_line(commits, test) ==
  LET status(i) == IF test \in DOMAIN commits[i].tests THEN commits[i].tests[test] ELSE None
      ends == {i \in DOMAIN commits : ~GoesOn(status(i))}
  IN IF ends = {} THEN [exact |-> FALSE, nr |-> Len(commits)]
     ELSE [exact |-> status(Min(ends)) = "Passed", nr |-> Min(ends) - 1]

\* The tested commits, rolled up.
branch_entries(commits) ==
  LET tested == Picked(commits, {i \in DOMAIN commits : DOMAIN commits[i].tests # {}})
  IN [i \in DOMAIN tested |->
        [commit |-> tested[i].id,
         nr |-> [s \in Status |-> count_status(tested[i].tests, s)]]]

\* Mutant of Completed: a test in progress counts.
MutCompleted(status) == status \in {"Passed", "Failed", "Inprogress"}

Completed(status) == status \in {"Passed", "Failed"}

\* The rates of a log that shows a single test; None for several tests or no finished run.
single_test_stats(commits) ==
  LET names == UNION {DOMAIN commits[i].tests : i \in DOMAIN commits}
      runs == {r \in (DOMAIN commits) \X names :
                 /\ r[2] \in DOMAIN commits[r[1]].tests
                 /\ Completed(commits[r[1]].tests[r[2]])}
      with(s) == Cardinality({r \in runs : commits[r[1]].tests[r[2]] = s})
  IN IF Cardinality(names) > 1 \/ runs = {} THEN None
     ELSE [completed |-> Cardinality(runs), passed |-> with("Passed"), failed |-> with("Failed")]

\* The wire form of a status, with its blanks as underscores.
to_str(s) ==
  CASE s = "Inprogress" -> "In_progress" [] s = "Passed" -> "Passed" [] s = "Failed" -> "Failed"
    [] s = "Notrun" -> "Not_run" [] s = "FailedToRun" -> "Failed_to_run"
    [] s = "Unknown" -> "Unknown"

\* Mutant of from_wire: the words of the status files only, in capitals.
MutFromWire(text) == "Unknown"

\* from_str() on the wire form.
from_wire(text) ==
  IF \E s \in Status : to_str(s) = text THEN CHOOSE s \in Status : to_str(s) = text ELSE "Unknown"

-----------------------------------------------------------------------------
\* A request: user, branch, commit (None when absent), test (the names matched), json
\* and status.
Query(user, branch, commit, test) ==
  [user |-> user, branch |-> branch, commit |-> commit, test |-> test, json |-> FALSE,
   status |-> FALSE]

Json(q) == [q EXCEPT !.json = TRUE]

\* A configured branch.
Configured(user, branch) ==
  IF user \in DOMAIN Users THEN Users[user] # None /\ branch \in DOMAIN Users[user] ELSE FALSE

\* Mutant of RepoPath: every commit is looked for in linux.
MutRepoPath(q) == Linux

\* The repo of a request: the branch's if it has a path, else linux.
RepoPath(q) ==
  IF Configured(q.user, q.branch) THEN
    IF Users[q.user][q.branch] \in Repos THEN Users[q.user][q.branch] ELSE Linux
  ELSE Linux

\* Where the walk of a request begins in the repo's history; 0 when nothing is found.
From(repo, q) ==
  IF q.commit # None THEN
    IF \E i \in DOMAIN repo.history : repo.history[i] = q.commit
    THEN CHOOSE i \in DOMAIN repo.history : repo.history[i] = q.commit ELSE 0
  ELSE IF <<q.user, q.branch>> \in DOMAIN repo.tip THEN repo.tip[<<q.user, q.branch>>] ELSE 0

\* ci_branch_get_results(): the commits of a request; None: "commit not found".
ResultsOf(repos, results, q) ==
  LET repo == repos[RepoPath(q)]
  IN IF From(repo, q) = 0 THEN None
     ELSE branch_get_results(SubSeq(repo.history, From(repo, q), Len(repo.history)), results, q.test)

Page(kind, code, body, links) == [kind |-> kind, code |-> code, body |-> body, links |-> links]

\* In JSON an error is a 500, as HTML it is a 200.
ErrorPage(q) == Page("error", IF q.json THEN 500 ELSE 200, <<>>, {})

\* The search box: the same request with any pattern for the tests.
search_form(q) == {Query(q.user, q.branch, q.commit, test) : test \in SUBSET Tests}

\* The commits of a branch, each with a link to its page; with a filter, the rates too.
ci_log(repos, results, q) ==
  LET commits == ResultsOf(repos, results, q)
  IN IF commits = None THEN ErrorPage(q)
     ELSE Page("log", 200,
               [entries |-> branch_entries(commits),
                stats |-> IF q.json \/ q.test = Tests THEN None ELSE single_test_stats(commits)],
               search_form(q) \cup
                 {Query(q.user, q.branch, commits[i].id, Tests)
                  : i \in {i \in DOMAIN commits : DOMAIN commits[i].tests # {}}})

\* One commit, the first of its walk: its tests by name, each with a link to its own log.
\* The first of no commits is a panic.
ci_commit(repos, results, q) ==
  LET commits == ResultsOf(repos, results, q)
  IN IF commits = None THEN ErrorPage(q)
     ELSE IF commits = <<>> THEN Page("panic", 500, <<>>, {})
     ELSE Page("commit", 200,
               [commit |-> commits[1].id,
                tests |-> [t \in DOMAIN commits[1].tests |-> to_str(commits[1].tests[t])],
                good |-> [t \in DOMAIN commits[1].tests |-> last_good_line(commits, t)]],
               search_form(q) \cup
                 IF q.branch = None THEN {}
                 ELSE {Query(q.user, q.branch, None, {t}) : t \in DOMAIN commits[1].tests})

\* The branches of a user.
ci_user(q) ==
  IF q.user \notin DOMAIN Users THEN ErrorPage(q)
  ELSE IF Users[q.user] = None THEN Page("badconfig", IF q.json THEN 500 ELSE 200, <<>>, {})
  ELSE Page("user", 200, DOMAIN Users[q.user],
            {Query(q.user, b, None, Tests) : b \in DOMAIN Users[q.user]})

\* All users; in JSON those whose config is broken are left out.
ci_home(q) ==
  Page("home", 200, {u \in DOMAIN Users : q.json => Users[u] # None},
       {[Query(None, None, None, Tests) EXCEPT !.status = TRUE]}
         \cup {Query(u, None, None, Tests) : u \in DOMAIN Users})

\* A request.  up: the config could be read and the output_dir is there.  These errors, and
\* that the repo cannot be opened, come before the dispatch and are HTML whatever was asked.
cgi_main(up, repos, results, q) ==
  IF ~up \/ RepoPath(q) \notin DOMAIN repos THEN Page("error", 200, <<>>, {})
  ELSE IF q.status THEN Page("status", 200, <<>>, {})
  ELSE IF q.user = None THEN ci_home(q)
  ELSE IF q.commit # None THEN ci_commit(repos, results, q)
  ELSE IF q.branch # None THEN ci_log(repos, results, q)
  ELSE ci_user(q)

-----------------------------------------------------------------------------
\* ci-status: a prefix is expanded among the commits that have a result directory in
\* output_dir; a full hash is taken as it is.  None: no match, or several.
resolve_commit_prefix(dirs, prefix) ==
  IF prefix.full THEN prefix.commit
  ELSE LET matches == {c \in dirs : c \in prefix.matches}
       IN IF Cardinality(matches) = 1 THEN CHOOSE c \in matches : TRUE ELSE None

\* ci-status --user: what the server answers in JSON; None: an error.
server_get(page) == IF page.code = 200 /\ page.kind \notin {"error", "panic"} THEN page.body ELSE None

\* The rank of a status in a list of tests.
Rank(s) ==
  CASE s = "Failed" -> 0 [] s = "Inprogress" -> 1 [] s = "Notrun" -> 2 [] s = "Unknown" -> 3
    [] s = "FailedToRun" -> 4 [] s = "Passed" -> 5

\* The tests of a commit as they are printed: in the order of their rank, and counted.
render_show(tests) ==
  LET status(t) == from_wire(tests[t])
  IN [before |-> [t \in DOMAIN tests |-> {u \in DOMAIN tests : Rank(status(u)) < Rank(status(t))}],
      total |-> Cardinality(DOMAIN tests),
      nr |-> [s \in {"Passed", "Failed", "Inprogress"} |->
                Cardinality({t \in DOMAIN tests : status(t) = s})]]

=============================================================================
