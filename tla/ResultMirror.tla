---------------------------- MODULE ResultMirror ----------------------------
(***************************************************************************)
(* The readers of the published results.  The jobserver replaces the       *)
(* .capnp file of a commit whenever a result arrives; the dashboard reads  *)
(* those files (ResultViews), and ci-status keeps a mirror of them in its  *)
(* own output_dir, refreshed over HTTP by fetch_capnp_cached() with        *)
(* If-Modified-Since and the mtime of the local copy (src/lib.rs).  The    *)
(* server's clock dates its files, the client's clock the copies.          *)
(*                                                                         *)
(* Each fetch is in steps, several ci-status processes share one mirror,   *)
(* fetches of one process run in parallel threads, any process may be      *)
(* killed, and the server's files change and go at any time.               *)
(***************************************************************************)
EXTENDS ResultViews, Integers

CONSTANTS
  Commits,
  Scenarios,   \* servers to start from: up, repos and published results, with the skew of the
               \* clocks and the numbers of changes on the server and of commands to come
  Clients,     \* ci-status processes on one mirror
  NFresh,      \* N_FRESH: 5 in the code
  Updates,     \* the results <<test, status>> that arrive on the server
  Names,       \* the ways in which a user names a commit
  Torn,        \* the content of a file that is not written yet
  MaxClock, MaxFaults   \* bounds

\* The contents of a .capnp file, and the files: tests, ver (the version, counted), mtime.
Results == UNION {[T -> Status] : T \in SUBSET Tests}
Files == [tests : Results \cup {Torn}, ver : Nat, mtime : Int]

\* A branch begins in its repo's history.
IsRepo(r) ==
  /\ r \in [history : Seq(Commits), tip : [DOMAIN r.tip -> Nat]]
  /\ \A b \in DOMAIN r.tip : r.tip[b] \in 1..Len(r.history)

\* A history has no commit twice, and a branch is fetched into the repo that its config
\* names (spawn_repo_fetcher() of the daemon).
IsFetched(name, r) ==
  /\ \A i, j \in DOMAIN r.history : r.history[i] = r.history[j] => i = j
  /\ \A b \in DOMAIN r.tip :
       b = <<b[1], b[2]>> /\ Configured(b[1], b[2]) /\ Users[b[1]][b[2]] = name /\ name \in Repos

\* Torn is no result, None is no value of any kind, and a full hash names a commit.
ASSUME MirrorConstantsOK ==
  /\ {NFresh, MaxClock, MaxFaults, Depth, MaxEmpty} \subseteq Nat
  /\ Torn \notin Results /\ None \notin Files /\ None \notin Int
  /\ None \notin Commits /\ None \notin Status /\ None \notin DOMAIN Users
  /\ None \notin Seq([id : Commits, tests : Results])
  /\ \A u \in DOMAIN Users : Users[u] # None => None \notin DOMAIN Users[u]
  /\ Updates \subseteq Tests \X Status
  /\ \A n \in Names : n.full => n.commit \in Commits
  /\ \A s \in Scenarios :
       /\ \A r \in DOMAIN s.repos : IsRepo(s.repos[r]) /\ IsFetched(r, s.repos[r])
       /\ s.up \in BOOLEAN /\ s.budget \in Nat /\ s.ops \in Nat /\ s.skew \in Int
       /\ s.tests \in [Commits -> Results \cup {None}]

VARIABLES
  up,          \* the cgi finds its config and the output_dir
  repos,       \* the branches, as fetched on the server and on the client's machine
  clock,       \* the server's clock, in seconds
  skew,        \* by how much the clock of the client's machine is ahead of it
  srv,         \* srv[c]: None, or the file on the server
  vers,        \* vers[c]: how often the file was published
  mirror,      \* mirror[c]: None, or the local copy
  live,        \* the processes that run a command
  commit_ids,  \* commit_ids[p]: the commits that the command is about
  fetch,       \* fetch[p][c]: "no", "todo", "sent", "got", "cut" (the copy is truncated),
               \* "done", "failed" or "lost" (done, but the copy could not be opened)
  since,       \* since[p][c]: the date in a request, or None
  answer,      \* answer[p][c]: the file that the server had when it answered, or None
  floor,       \* history: floor[p][c]: the version on the server when the command began
  budget,      \* changes on the server to come
  ops,         \* commands to come
  faults,      \* processes killed and writes failed
  raced,       \* history: publications <<c, ver>> that came while an older answer was on
               \* its way to the mirror, or are dated no later than the copy of one
  spoilt       \* history: commits whose copy was left torn by a fault or by two writers

serverVars == <<up, repos, skew, srv, vers, budget>>
procVars == <<live, commit_ids, fetch, since, answer, floor>>
vars == <<up, repos, clock, skew, srv, vers, mirror, procVars, budget, ops, faults, raced, spoilt>>

\* What the server has of a commit, and its version.
ReadSrv(c) == IF srv[c] = None THEN NoTests ELSE srv[c].tests
Version(c) == IF srv[c] = None THEN 0 ELSE srv[c].ver

Each(x) == [c \in Commits |-> x]

Init ==
  /\ \E s \in Scenarios :
       /\ up = s.up /\ repos = s.repos /\ budget = s.budget /\ ops = s.ops /\ skew = s.skew
       /\ srv = [c \in Commits |-> IF s.tests[c] = None THEN None
                                   ELSE [tests |-> s.tests[c], ver |-> 1, mtime |-> 0]]
       /\ vers = [c \in Commits |-> IF s.tests[c] = None THEN 0 ELSE 1]
  /\ clock = 0 /\ mirror = Each(None) /\ live = {} /\ commit_ids = [p \in Clients |-> <<>>]
  /\ fetch = [p \in Clients |-> Each("no")] /\ since = [p \in Clients |-> Each(None)]
  /\ answer = [p \in Clients |-> Each(None)] /\ floor = [p \in Clients |-> Each(0)]
  /\ faults = 0 /\ raced = {} /\ spoilt = {}

-----------------------------------------------------------------------------
\* An answer of the server that has not reached the mirror yet.
OnItsWay(c) == \E p \in Clients : fetch[p][c] \in {"got", "cut"}

\* The results of c with another one.
Added(c, u) ==
  [t \in DOMAIN ReadSrv(c) \cup {u[1]} |-> IF t = u[1] THEN u[2] ELSE ReadSrv(c)[t]]

\* results_to_capnp() on the server: the file is replaced by a rename.
Publish(c) ==
  /\ budget > 0 /\ budget' = budget - 1
  /\ \E r \in DOMAIN repos : c \in Range(repos[r].history)
  /\ \E u \in Updates :
       srv' = [srv EXCEPT ![c] = [tests |-> Added(c, u), ver |-> vers[c] + 1, mtime |-> clock]]
  /\ vers' = [vers EXCEPT ![c] = @ + 1]
  /\ raced' = IF OnItsWay(c) \/ (mirror[c] # None /\ mirror[c].mtime >= clock)
              THEN raced \cup {<<c, vers[c] + 1>>} ELSE raced
  /\ UNCHANGED <<up, repos, clock, skew, mirror, procVars, faults, ops, spoilt>>

\* gc-results on the server.
Unpublish(c) ==
  /\ budget > 0 /\ budget' = budget - 1 /\ srv[c] # None
  /\ srv' = [srv EXCEPT ![c] = None]
  /\ UNCHANGED <<up, repos, clock, skew, vers, mirror, procVars, faults, ops, raced, spoilt>>

\* A branch moves on by one commit.
Push(r, b) ==
  /\ budget > 0 /\ budget' = budget - 1 /\ repos[r].tip[b] > 1
  /\ repos' = [repos EXCEPT ![r].tip[b] = @ - 1]
  /\ UNCHANGED <<up, clock, skew, srv, vers, mirror, procVars, faults, ops, raced, spoilt>>

\* Time matters while something is to come.
Tick ==
  /\ budget + ops > 0 \/ live # {}
  /\ clock < MaxClock /\ clock' = clock + 1
  /\ UNCHANGED <<serverVars, mirror, procVars, faults, ops, raced, spoilt>>

-----------------------------------------------------------------------------
\* A command about these commits is to fetch S.
Begin(p, commits, S) ==
  /\ ops > 0 /\ ops' = ops - 1 /\ p \notin live /\ live' = live \cup {p}
  /\ commit_ids' = [commit_ids EXCEPT ![p] = commits]
  /\ fetch' = [fetch EXCEPT ![p] = [c \in Commits |-> IF c \in S THEN "todo" ELSE "no"]]
  /\ floor' = [floor EXCEPT ![p] = [c \in Commits |-> IF c \in Range(commits) THEN Version(c) ELSE 0]]
  /\ UNCHANGED <<serverVars, clock, mirror, since, answer, faults, raced, spoilt>>

\* The process is gone.
Ends(p) ==
  /\ live' = live \ {p} /\ commit_ids' = [commit_ids EXCEPT ![p] = <<>>]
  /\ fetch' = [fetch EXCEPT ![p] = Each("no")] /\ since' = [since EXCEPT ![p] = Each(None)]
  /\ answer' = [answer EXCEPT ![p] = Each(None)] /\ floor' = [floor EXCEPT ![p] = Each(0)]

\* Mutant of prefetch_capnp: what is cached is skipped.
MutPrefetch(commits) == {commits[i] : i \in {i \in DOMAIN commits : mirror[commits[i]] = None}}

\* Mutant of prefetch_capnp: not bounded by the walk.
MutPrefetchAll(commits) == Range(commits) \cup {c \in Commits : mirror[c] = None}

\* The commits a walk fetches: the newest always, the others when they are not cached.
prefetch_capnp(commits) ==
  {commits[i] : i \in {i \in DOMAIN commits : i <= NFresh \/ mirror[commits[i]] = None}}

\* ci-status log: branch_get_results() up to the prefetch.
CmdLog(p) ==
  \E r \in DOMAIN repos : \E b \in DOMAIN repos[r].tip :
    LET history == repos[r].history
        last == Min({Len(history), repos[r].tip[b] + Depth - 1})
        commits == SubSeq(history, repos[r].tip[b], last)
    IN Begin(p, commits, prefetch_capnp(commits))

\* ci-status show and logs.  A mirror holds .capnp files and no result directories, among
\* which a prefix could be looked up.
CmdShow(p) ==
  \E prefix \in Names :
    LET c == resolve_commit_prefix({}, prefix)
    IN c # None /\ Begin(p, <<c>>, {c})

\* One fetch moves on.
Fetched(p, c, at) == [fetch EXCEPT ![p][c] = at]

\* Mutant of IfModifiedSince: the request says "now".
MutIfModifiedSince(c) == IF mirror[c] = None THEN None ELSE clock + skew

\* The mtime of the local copy, if there is one.
IfModifiedSince(c) == IF mirror[c] = None THEN None ELSE mirror[c].mtime

Send(p, c) ==
  /\ fetch[p][c] = "todo" /\ fetch' = Fetched(p, c, "sent")
  /\ since' = [since EXCEPT ![p][c] = IfModifiedSince(c)]
  /\ UNCHANGED <<serverVars, clock, mirror, live, commit_ids, answer, floor, faults, ops, raced, spoilt>>

\* The web server: 200 with the file, 304 when it is not newer than the request says, 404.
Answer(p, c) ==
  /\ fetch[p][c] = "sent"
  /\ LET code == IF srv[c] = None THEN 404
                 ELSE IF since[p][c] # None /\ srv[c].mtime <= since[p][c] THEN 304 ELSE 200
     IN fetch' = Fetched(p, c, IF code = 200 THEN "got" ELSE "done")
  /\ answer' = [answer EXCEPT ![p][c] = srv[c]] /\ since' = [since EXCEPT ![p][c] = None]
  /\ UNCHANGED <<serverVars, clock, mirror, live, commit_ids, floor, faults, ops, raced, spoilt>>

\* The request fails: show ends in an error, a log warns and goes on with what it has.
FetchError(p, c) ==
  /\ fetch[p][c] = "sent" /\ fetch' = Fetched(p, c, "failed")
  /\ since' = [since EXCEPT ![p][c] = None]
  /\ UNCHANGED <<serverVars, clock, mirror, live, commit_ids, answer, floor, faults, ops, raced, spoilt>>

\* The date that a write gives to the copy.
Now == clock + skew

\* The copy while it is written.
TornCopy == [tests |-> Torn, ver |-> 0, mtime |-> Now]

\* fs::write() of the answer cannot open the copy (a full disk, a directory that cannot be
\* made or written): what was there, or nothing, stays, and the error is dropped.
OpenError(p, c) ==
  /\ fetch[p][c] = "got" /\ fetch' = Fetched(p, c, "lost")
  /\ faults < MaxFaults /\ faults' = faults + 1
  /\ UNCHANGED <<serverVars, clock, mirror, live, commit_ids, since, answer, floor, ops, raced, spoilt>>

\* It opens it: the copy is truncated, ...
Truncate(p, c) ==
  /\ fetch[p][c] = "got" /\ fetch' = Fetched(p, c, "cut")
  /\ mirror' = [mirror EXCEPT ![c] = TornCopy]
  /\ UNCHANGED <<serverVars, clock, live, commit_ids, since, answer, floor, faults, ops, raced, spoilt>>

\* ... and written.  Over what another process has put there meanwhile, a shorter answer
\* leaves the end of the longer one.
Save(p, c) ==
  /\ fetch[p][c] = "cut" /\ fetch' = Fetched(p, c, "done")
  /\ LET copy == [answer[p][c] EXCEPT !.mtime = Now]
         over == mirror[c].tests # Torn /\ mirror[c].ver # copy.ver
     IN \/ mirror' = [mirror EXCEPT ![c] = copy] /\ spoilt' = spoilt \ {c}
        \/ over /\ mirror' = [mirror EXCEPT ![c] = TornCopy] /\ spoilt' = spoilt \cup {c}
  /\ UNCHANGED <<serverVars, clock, live, commit_ids, since, answer, floor, faults, ops, raced>>

\* The write fails after a part (a full disk): the error is dropped.
SaveError(p, c) ==
  /\ fetch[p][c] = "cut" /\ fetch' = Fetched(p, c, "done")
  /\ faults < MaxFaults /\ faults' = faults + 1
  /\ mirror' = [mirror EXCEPT ![c] = TornCopy] /\ spoilt' = spoilt \cup {c}
  /\ UNCHANGED <<serverVars, clock, live, commit_ids, since, answer, floor, ops, raced>>

\* Mutant of Finished: the threads are not joined.
MutFinished(p) == p \in live

\* All fetches of p are over: the command reads the mirror, prints and exits.
Finished(p) == p \in live /\ \A c \in Commits : fetch[p][c] \in {"no", "done", "failed", "lost"}

Exit(p) ==
  /\ Finished(p) /\ Ends(p)
  /\ UNCHANGED <<serverVars, clock, mirror, faults, ops, raced, spoilt>>

\* The user interrupts a command.
Kill(p) ==
  /\ p \in live /\ Ends(p)
  /\ faults < MaxFaults /\ faults' = faults + 1
  /\ spoilt' = spoilt \cup {c \in Commits : fetch[p][c] = "cut" /\ mirror[c].tests = Torn}
  /\ UNCHANGED <<serverVars, clock, mirror, ops, raced>>

Fetch(p, c) ==
  \/ Send(p, c) \/ Answer(p, c) \/ FetchError(p, c)
  \/ OpenError(p, c) \/ Truncate(p, c) \/ Save(p, c) \/ SaveError(p, c)

Next ==
  \/ \E c \in Commits : Publish(c) \/ Unpublish(c)
  \/ \E r \in DOMAIN repos : \E b \in DOMAIN repos[r].tip : Push(r, b)
  \/ Tick
  \/ \E p \in Clients : \/ CmdLog(p) \/ CmdShow(p) \/ Exit(p) \/ Kill(p)
                        \/ \E c \in Commits : Fetch(p, c)

Spec == Init /\ [][Next]_vars

-----------------------------------------------------------------------------
\* The state has its types: in particular a copy is truncated or a version that was
\* published, and a process fetches commits of its walk only (fetch_capnp_cached).
TypeOK ==
  /\ \A r \in DOMAIN repos : IsRepo(repos[r])
  /\ up \in BOOLEAN /\ clock \in 0..MaxClock /\ skew \in Int
  /\ budget \in Nat /\ ops \in Nat /\ faults \in 0..MaxFaults
  /\ spoilt \subseteq Commits /\ live \subseteq Clients
  /\ srv \in [Commits -> Files \cup {None}] /\ mirror \in [Commits -> Files \cup {None}]
  /\ vers \in [Commits -> Nat] /\ commit_ids \in [Clients -> Seq(Commits)]
  /\ fetch \in [Clients -> [Commits -> {"no", "todo", "sent", "got", "cut", "done", "failed", "lost"}]]
  /\ since \in [Clients -> [Commits -> Int \cup {None}]]
  /\ answer \in [Clients -> [Commits -> Files \cup {None}]]
  /\ floor \in [Clients -> [Commits -> Nat]]
  /\ \A c \in Commits :
       /\ srv[c] # None => srv[c].ver \in 1..vers[c] /\ srv[c].mtime <= clock
       /\ mirror[c] # None => mirror[c].ver <= vers[c] /\ mirror[c].mtime <= Now
  /\ \A p \in Clients, c \in Commits : fetch[p][c] # "no" => p \in live /\ c \in Range(commit_ids[p])

\* What the server had when it answered a command is what the command then reads, or
\* something newer, unless the answer could not be written ("lost"): a copy is behind only
\* when the publication came while an older answer was on its way, or is dated no later
\* than the older copy, by the clock of the other machine (fetch_capnp_cached).
FetchedIsFresh ==
  \A p \in Clients, c \in Commits :
    Finished(p) /\ fetch[p][c] = "done" /\ answer[p][c] # None =>
      /\ mirror[c] # None
      /\ \/ mirror[c].ver >= answer[p][c].ver \/ mirror[c].tests = Torn
         \/ <<c, answer[p][c].ver>> \in raced

\* The newest NFresh commits of a log, and the commit of a show, are at least as new as on
\* the server when the command was started, up to failed requests, to answers that could
\* not be written and to publications that raced (prefetch_capnp,
\* commitdir_get_results_full).
TipIsFresh ==
  \A p \in Clients : Finished(p) =>
    \A i \in DOMAIN commit_ids[p] :
      LET c == commit_ids[p][i]
          answered == fetch[p][c] # "no" => fetch[p][c] = "done" /\ answer[p][c] # None
      IN i <= NFresh /\ floor[p][c] > 0 /\ answered =>
           /\ mirror[c] # None
           /\ \/ mirror[c].ver >= floor[p][c] \/ mirror[c].tests = Torn
              \/ \E v \in floor[p][c]..vers[c] : <<c, v>> \in raced

\* A copy that does not parse is being written by a running command, or a kill, a failed
\* write or two writers at once left it (the threads of a prefetch are joined).
UnreadableHasCause ==
  \A c \in Commits :
    mirror[c] # None /\ mirror[c].tests = Torn =>
      c \in spoilt \/ \E p \in live : fetch[p][c] = "cut"

-----------------------------------------------------------------------------
\* The pages depend on the server alone, and the server takes every state with no client
\* around too: that is where the properties of the dashboard are looked at.
NoClient == clock = 0 /\ live = {} /\ \A c \in Commits : mirror[c] = None

\* The dashboard at this moment, and every page that can be reached from its home page.
Dashboard(q) == cgi_main(up, repos, [c \in Commits |-> ReadSrv(c)], q)
Follow(S) == S \cup UNION {Dashboard(q).links : q \in S}
Reached == Follow(Follow(Follow(Follow({Query(None, None, None, Tests)}))))

\* The branches that have been fetched, the branch of a log from its tip on, and the
\* status of a test there.
Fetchable == UNION {DOMAIN repos[r].tip : r \in DOMAIN repos}
Branch(b) ==
  LET repo == repos[CHOOSE r \in DOMAIN repos : b \in DOMAIN repos[r].tip]
  IN SubSeq(repo.history, repo.tip[b], Len(repo.history))
StatusAt(c, t) == IF t \in DOMAIN ReadSrv(c) THEN ReadSrv(c)[t] ELSE None

\* The logs of all tests or of one, and a search.
Logs == {Query(b[1], b[2], None, ts) : b \in Fetchable, ts \in SUBSET Tests}

\* The positions of a walk that are to be shown: the tested commits within Depth of its
\* beginning with no run of more than MaxEmpty untested ones before them.
ShownOf(walk, ts) ==
  LET tested == {i \in DOMAIN walk : \E t \in ts : StatusAt(walk[i], t) # None}
  IN {i \in tested :
        i <= Depth /\ \A j \in 1..i : j + MaxEmpty < i => tested \cap (j..(j + MaxEmpty)) # {}}

\* Those of a log.
Shown(q) == ShownOf(Branch(<<q.user, q.branch>>), q.test)

\* A log shows exactly those commits, in the order of the branch and each with its own
\* counts (branch_get_results, branch_entries).
LogShowsTested ==
  NoClient /\ up => \A q \in Logs :
    LET walk == Branch(<<q.user, q.branch>>)
        entries == Dashboard(Json(q)).body.entries
        nth(i) == entries[Cardinality({j \in Shown(q) : j <= i})]
    IN /\ Len(entries) = Cardinality(Shown(q))
       /\ \A i \in Shown(q) :
            /\ nth(i).commit = walk[i]
            /\ \A s \in Status :
                 nth(i).nr[s] = Cardinality({t \in q.test : StatusAt(walk[i], t) = s})

\* The rates above the log of one test count its finished runs among those commits, and
\* are there exactly when there is one (single_test_stats).
RatesAreOfTheLog ==
  NoClient /\ up => \A q \in Logs : \A t \in Tests : q.test = {t} /\ q.test # Tests =>
    LET walk == Branch(<<q.user, q.branch>>)
        nr(s) == Cardinality({i \in Shown(q) : StatusAt(walk[i], t) = s})
        stats == Dashboard(q).body.stats
    IN IF nr("Passed") + nr("Failed") = 0 THEN stats = None
       ELSE stats = [completed |-> nr("Passed") + nr("Failed"),
                     passed |-> nr("Passed"), failed |-> nr("Failed")]

\* The test failed in each of good.nr commits from the i-th one back, and then passed or,
\* for ">= n", has no verdict.
GoodOf(walk, i, t, good) ==
  /\ \A j \in i..(i + good.nr - 1) : StatusAt(walk[j], t) = "Failed"
  /\ good.exact => StatusAt(walk[i + good.nr], t) = "Passed"
  /\ ~good.exact /\ i + good.nr \in DOMAIN walk /\ good.nr < Depth =>
       StatusAt(walk[i + good.nr], t) \notin {"Passed", "Failed"}

\* "Last good n commits ago" on the page of a commit is true of the branch
\* (last_good_line over the untested commits that branch_get_results keeps).
LastGoodIsTrue ==
  NoClient => \A b \in Fetchable : \A i \in DOMAIN Branch(b) :
    LET page == Dashboard(Query(b[1], b[2], Branch(b)[i], Tests))
    IN page.kind = "commit" =>
         \A t \in DOMAIN page.body.good : GoodOf(Branch(b), i, t, page.body.good[t])

\* A request that cannot lead anywhere: the cgi has no config or no repo, or the branch was
\* never fetched.
Unavailable(q) ==
  ~up \/ RepoPath(q) \notin DOMAIN repos \/ (q.commit = None /\ <<q.user, q.branch>> \notin Fetchable)

\* The positions that a request for a commit finds, in the walk from that commit on.
Found(q) ==
  LET history == repos[RepoPath(q)].history
      first == CHOOSE i \in DOMAIN history : history[i] = q.commit
  IN ShownOf(SubSeq(history, first, Len(history)), q.test)

\* A link or a search of the dashboard leads to an error only where nothing can be had, and
\* to a panic only when the search of a commit page finds nothing from that commit on; any
\* other link to a commit shows that commit with the results published for it (cgi_main's
\* choice of the repo, search_form, ci_commit's use of the first commit).
LinksLead ==
  NoClient => \A q \in Reached :
    LET page == Dashboard(q)
    IN /\ page.kind = "error" => Unavailable(q)
       /\ page.kind = "panic" => q.commit # None /\ q.test # Tests /\ Found(q) = {}
       /\ page.kind = "commit" =>
            /\ page.body.commit = q.commit
            /\ page.body.tests = [t \in DOMAIN ReadSrv(q.commit) \cap q.test |-> to_str(ReadSrv(q.commit)[t])]
       /\ q.commit # None => page.kind \in {"commit", "panic"}

\* ci-status --user prints of each commit of a log what the log says of it: as many tests
\* that passed, failed and are in progress, and those that failed before all others
\* (server_show and render_show over the wire form of ci_commit, against server_log).
ServerShowAgrees ==
  NoClient /\ up => \A q \in Logs : q.test = Tests =>
    LET log == server_get(Dashboard(Json(q)))
        show(i) == server_get(Dashboard(Json(Query(q.user, q.branch, log.entries[i].commit, Tests))))
    IN \A i \in DOMAIN log.entries :
         LET printed == render_show(show(i).tests)
             c == log.entries[i].commit
         IN /\ \A s \in {"Passed", "Failed", "Inprogress"} : printed.nr[s] = log.entries[i].nr[s]
            /\ \A t, u \in DOMAIN ReadSrv(c) :
                 ReadSrv(c)[t] = "Failed" /\ ReadSrv(c)[u] # "Failed" => t \in printed.before[u]

=============================================================================
