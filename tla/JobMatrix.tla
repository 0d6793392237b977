----------------------------- MODULE JobMatrix -----------------------------
(***************************************************************************)
(* The job matrix (src/jobs.rs): from a user's configuration, the branches *)
(* as fetched, the recorded results and the history of durations,          *)
(* desired_jobs() computes the window of jobs the daemon is to run next.   *)
(*                                                                         *)
(* The daemon reads the configuration once (TestGroups) and then makes one *)
(* pass after another.  A pass visits every test of every group of every   *)
(* branch; get_subtests() is in steps, because the test files are edited   *)
(* and gen-avg-duration replaces the table while a pass is under way.      *)
(***************************************************************************)
EXTENDS TestGroups, TestDurations

CONSTANTS
  Scenarios,     \* configurations, branches, results and file contents to start from
  Contents,      \* subtest lists that an edit may leave a test with
  DurationDef,   \* subtest_duration_def: the duration of a test without history
  MaxEdits,      \* bound on edits of test files
  MaxFailures    \* bound on list-tests failing

\* What the settings of a group may be.
SettingType ==
  [max_commits |-> Nat, nice |-> Nat, test_duration_nice |-> Nat,
   test_always_passes_nice |-> Nat, tests |-> Seq(Nat), kernels |-> Seq(Nat)]

\* Names are numbers; a test that a group asks for is a file; the branches name the groups
\* that are wanted; a branch that is not there has no log; finitely many results are kept;
\* some tests take their list from other files.
IsScenario(s) ==
  /\ DOMAIN s.groups \subseteq Groups
  /\ \A g \in DOMAIN s.groups :
       /\ DOMAIN s.groups[g].set \subseteq Settings
       /\ \A x \in DOMAIN s.groups[g].set : s.groups[g].set[x] \in SettingType[x]
       /\ "tests" \in DOMAIN s.groups[g].set => s.groups[g].set["tests"] \in Seq(DOMAIN s.files)
       /\ DOMAIN s.groups[g].env \subseteq EnvVars
       /\ \A v \in DOMAIN s.groups[g].env : s.groups[g].env[v] \in Nat
  /\ s.branches \in Seq(Seq(s.wanted))
  /\ \A b \in DOMAIN s.branches : s.log[b] = None \/ s.log[b] \in Seq(Nat)
  /\ s.limit \in Nat
  /\ DOMAIN s.files \subseteq Nat /\ \A t \in DOMAIN s.files : s.files[t] \in Seq(Nat)
  /\ s.sourcing \subseteq DOMAIN s.files
  /\ IsFiniteSet(DOMAIN s.results)
  /\ IsFiniteSet(UNION {DOMAIN s.results[c] : c \in DOMAIN s.results})
  /\ \A c \in DOMAIN s.results : \A key \in DOMAIN s.results[c] :
       key \in Seq(Nat) /\ s.results[c][key].duration \in Nat

\* A configuration defines finitely many groups, and None is not one of them.
ASSUME ScenariosOK ==
  /\ MaxEdits \in Nat /\ MaxFailures \in Nat /\ DurationDef \in Nat
  /\ IsFiniteSet(Groups) /\ None \notin Groups
  /\ IsFiniteSet(EnvVars) /\ EnvVars \subseteq Nat /\ Contents \subseteq Seq(Nat)
  /\ \A s \in Scenarios : IsScenario(s)

VARIABLES
  site,       \* branches, log[b] (the commits of branch b, newest first), results, limit,
              \* and the tests that list from other files
  file,       \* file[t]: what list-tests prints for a test, the mtime of its .ktest file,
              \* and (history) all that it could print since that mtime was set
  cache,      \* cache[t]: None, or what CACHE holds for it: a list and an mtime
  durations,  \* test_durations.capnp, None when there is none
  edits, failures,
  pc,         \* where the pass is: "idle", or "stat", "list", "store" in get_subtests()
  rows,       \* rows of the pass still to come
  mtime,      \* the mtime get_subtests() took
  listing,    \* what list-tests said
  mapped,     \* the table this pass has mapped
  specs,      \* the TestSpecs built so far
  window      \* what the last pass returned

passVars == <<site, file, cache, durations, edits, failures, pc, rows, mtime, listing,
              mapped, specs, window>>
vars == <<groupVars, passVars>>

Init ==
  \E s \in Scenarios :
    /\ GroupsInit(s)
    /\ site = [branches |-> s.branches, log |-> s.log, results |-> s.results,
               limit |-> s.limit, sourcing |-> s.sourcing]
    /\ file = [t \in DOMAIN s.files |->
                 [content |-> s.files[t], mtime |-> 0, since |-> {s.files[t]}]]
    /\ cache = [t \in DOMAIN s.files |-> None]
    /\ durations = None /\ mapped = None /\ edits = 0 /\ failures = 0
    /\ pc = "idle" /\ rows = <<>> /\ mtime = 0 /\ listing = <<>> /\ specs = <<>> /\ window = <<>>

ReadConfig == GroupsNext /\ UNCHANGED passVars

-----------------------------------------------------------------------------
\* Someone pulls, rebases or edits a .ktest file; its mtime moves.  (An edit before the
\* first pass is another scenario.)
Edit(t) ==
  /\ outcome # "reading" /\ edits < MaxEdits
  /\ \E content \in Contents \ {file[t].content} :
       file' = [file EXCEPT ![t] = [content |-> content, mtime |-> @.mtime + 1,
                                    since |-> {content}]]
  /\ edits' = edits + 1
  /\ UNCHANGED <<groupVars, site, cache, durations, failures, pc, rows, mtime, mapped,
                 specs, listing, window>>

\* The tree that a test lists from (xfstests, blktests) is updated: the test has other
\* subtests, and its .ktest file is what it was.
EditSourced(t) ==
  /\ outcome # "reading" /\ edits < MaxEdits /\ t \in site.sourcing
  /\ \E content \in Contents \ {file[t].content} :
       file' = [file EXCEPT ![t] = [content |-> content, mtime |-> @.mtime,
                                    since |-> @.since \cup {content}]]
  /\ edits' = edits + 1
  /\ UNCHANGED <<groupVars, site, cache, durations, failures, pc, rows, mtime, mapped,
                 specs, listing, window>>

\* gen-avg-duration, started by the running daemon between two passes or by hand, writes a
\* new table and renames it over the old one.
GenAvgDuration ==
  /\ outcome # "reading"
  /\ durations' = gen_avg_duration(site.results)
  /\ UNCHANGED <<groupVars, site, file, cache, edits, failures, pc, rows, mtime, mapped,
                 specs, listing, window>>

-----------------------------------------------------------------------------
Tg(g) == resolved[g].set

\* The groups whose env can be encoded, on a branch that is there, test by test.
Rows ==
  LET ofGroup(b, g) ==
        IF encode_env(resolved[g].env) = None \/ site.log[b] = None THEN <<>>
        ELSE [i \in DOMAIN Tg(g).tests |-> [branch |-> b, group |-> g, test |-> Tg(g).tests[i]]]
      ofBranch(b) == FlattenSeq([i \in DOMAIN site.branches[b] |->
                                   ofGroup(b, site.branches[b][i])])
  IN IF outcome = "ok" THEN FlattenSeq([b \in DOMAIN site.branches |-> ofBranch(b)]) ELSE <<>>

\* A pass begins: the table is mapped.
StartPass ==
  /\ outcome # "reading" /\ pc = "idle"
  /\ pc' = "stat" /\ rows' = Rows /\ mapped' = durations /\ specs' = <<>>
  /\ UNCHANGED <<groupVars, site, file, cache, durations, edits, failures, mtime,
                 listing, window>>

\* One TestSpec; no kernels means one build from the repo.
Spec1(row, subtests) ==
  [test |-> row.test, subtests |-> subtests, tg |-> Tg(row.group),
   env |-> encode_env(resolved[row.group].env),
   kernels |-> IF Tg(row.group).kernels = <<>> THEN <<0>> ELSE Tg(row.group).kernels,
   commits |-> SubSeq(site.log[row.branch], 1,
                      Min({Len(site.log[row.branch]), Tg(row.group).max_commits}))]

\* The row is done; without subtests it makes no spec.
Listed(subtests) ==
  /\ specs' = IF subtests = <<>> THEN specs ELSE Append(specs, Spec1(Head(rows), subtests))
  /\ rows' = Tail(rows)

\* CACHE has the file's mtime.
IsCached(t) == IF cache[t] = None THEN FALSE ELSE cache[t].mtime = file[t].mtime

\* get_subtests() up to the cache: the file has the mtime of the entry ...
CacheHit ==
  /\ pc = "stat" /\ rows # <<>> /\ IsCached(Head(rows).test)
  /\ Listed(cache[Head(rows).test].list)
  /\ UNCHANGED <<groupVars, site, file, cache, durations, edits, failures, pc, mtime,
                 mapped, listing, window>>

\* ... or it has not, and the file is to be run.
CacheMiss ==
  /\ pc = "stat" /\ rows # <<>> /\ ~IsCached(Head(rows).test)
  /\ mtime' = file[Head(rows).test].mtime
  /\ pc' = "list"
  /\ UNCHANGED <<groupVars, site, file, cache, durations, edits, failures, rows, mapped,
                 specs, listing, window>>

\* Mutant of Tag: the mtime is taken once the listing is there.
MutTag(t) == file[t].mtime

\* The mtime a listing is cached under.
Tag(t) == mtime

\* Mutant of Cached: a failed listing is cached too.
MutCached(t, list) == [cache EXCEPT ![t] = [list |-> list, mtime |-> Tag(t)]]

\* A listing that is not empty is cached.
Cached(t, list) ==
  IF list = <<>> THEN cache ELSE [cache EXCEPT ![t] = [list |-> list, mtime |-> Tag(t)]]

\* list-tests runs, on the file and the tree it lists from as they are now ...
ListTests ==
  /\ pc = "list"
  /\ listing' = file[Head(rows).test].content /\ pc' = "store"
  /\ UNCHANGED <<groupVars, site, file, cache, durations, edits, failures, rows, mtime,
                 mapped, specs, window>>

\* ... or cannot be spawned, or exits non-zero.
ListFails ==
  /\ pc = "list" /\ failures < MaxFailures
  /\ listing' = <<>> /\ pc' = "store" /\ failures' = failures + 1
  /\ UNCHANGED <<groupVars, site, file, cache, durations, edits, rows, mtime, mapped, specs,
                 window>>

\* Its output is cached and makes the row's spec.
StoreListing ==
  /\ pc = "store"
  /\ cache' = Cached(Head(rows).test, listing) /\ Listed(listing)
  /\ pc' = "stat" /\ mtime' = 0 /\ listing' = <<>>
  /\ UNCHANGED <<groupVars, site, file, durations, edits, failures, mapped, window>>

-----------------------------------------------------------------------------
\* The cells of the matrix in the order in which they are visited: age, spec, subtest,
\* kernel.
Cells ==
  LET ages == Max({0} \cup {Len(specs[s].commits) : s \in DOMAIN specs})
      ofSpec(age, s) ==
        IF age > Len(specs[s].commits) THEN <<>>
        ELSE FlattenSeq([t \in DOMAIN specs[s].subtests |->
                           [k \in DOMAIN specs[s].kernels |-> <<age, s, t, k>>]])
  IN FlattenSeq([age \in 1..ages |->
                   FlattenSeq([s \in DOMAIN specs |-> ofSpec(age, s)])])

\* The status of a subtest on a commit; None when it has no result.
Recorded(commit, key) ==
  IF commit \in DOMAIN site.results /\ key \in DOMAIN site.results[commit]
  THEN site.results[commit][key].status ELSE None

KeyOf(job) == [commit |-> job.commit, test |-> job.test, subtest |-> job.subtest,
               kernel |-> job.kernel, env |-> job.env]

\* The job of one cell.  The niceness is looked up without kernel and env, the duration
\* with both.
JobAt(cell) ==
  LET sp  == specs[cell[2]]
      sub == sp.subtests[cell[3]]
      ker == sp.kernels[cell[4]]
      own == test_stats(mapped, subtest_result_key(sp.test, sub, ker, sp.env))
  IN [commit |-> sp.commits[cell[1]], test |-> sp.test, subtest |-> sub, kernel |-> ker,
      env |-> sp.env, age |-> cell[1] - 1,
      nice |-> job_nice(sp.tg, test_stats(mapped, subtest_result_key(sp.test, sub, 0, <<>>))),
      duration |-> IF own = None THEN DurationDef ELSE own.duration]

Wanted(job) ==
  job_wanted(Recorded(job.commit,
                      subtest_result_key(job.test, job.subtest, job.kernel, job.env)))

Candidates ==
  LET cells == Cells
      jobs == [i \in DOMAIN cells |-> JobAt(cells[i])]
  IN Picked(jobs, {i \in DOMAIN jobs : Wanted(jobs[i])})

job_weight(job) == job.age + job.nice

\* What sort_by() compares.
SortKey(job) ==
  <<job_weight(job), job.commit, job.test, job.kernel>> \o job.env \o <<0, job.duration>>

\* A stable sort.
Sorted(jobs) ==
  LET before(i, j) == \/ LexLess(SortKey(jobs[i]), SortKey(jobs[j]))
                      \/ SortKey(jobs[i]) = SortKey(jobs[j]) /\ i < j
      order == Ordered(DOMAIN jobs, before)
  IN [i \in DOMAIN order |-> jobs[order[i]]]

\* The first job of each key.
Retained(jobs) ==
  Picked(jobs, {i \in DOMAIN jobs : \A j \in 1..(i - 1) : KeyOf(jobs[j]) # KeyOf(jobs[i])})

Truncated(jobs) == SubSeq(jobs, 1, Min({Len(jobs), site.limit}))

\* Mutant of Window: duplicates are removed in the order of emission.
MutWindow(jobs) == Truncated(Sorted(Retained(jobs)))

Window(jobs) == Truncated(Retained(Sorted(jobs)))

EndPass ==
  /\ pc = "stat" /\ rows = <<>>
  /\ window' = Window(Candidates)
  /\ pc' = "idle"
  /\ UNCHANGED <<groupVars, site, file, cache, durations, edits, failures, rows, mtime,
                 mapped, specs, listing>>

Next ==
  \/ ReadConfig
  \/ \E t \in DOMAIN file : Edit(t) \/ EditSourced(t)
  \/ GenAvgDuration
  \/ StartPass \/ CacheHit \/ CacheMiss \/ ListTests \/ ListFails \/ StoreListing
  \/ EndPass

Spec == Init /\ [][Next]_vars

\* The configuration is read, and the daemon's loop begins one pass after another.  That is
\* weak fairness of the pass: one of its steps is always possible, and a pass is finite.
FairSpec == Spec /\ WF_vars(ReadConfig) /\ []<><<StartPass>>_vars

-----------------------------------------------------------------------------
\* Types of the state of the configuration reader and of the pass.
TypeOK ==
  /\ outcome \in {"reading", "ok", "cycle", "undefined", "branch"}
  /\ left \subseteq Defined /\ Done \subseteq Defined
  /\ \A i \in 1..Len(stack) : stack[i] \in Defined
  /\ \A t \in DOMAIN file : cache[t] = None \/ cache[t].mtime \in 0..file[t].mtime
  /\ pc \in {"idle", "stat", "list", "store"} /\ edits \in 0..MaxEdits /\ failures \in 0..MaxFailures

\* get_subtests() never answers from the cache with a list that is older than the file's
\* mtime, although the file may be replaced between the stat and the listing: an entry under
\* the present mtime is a listing of the test since that mtime was set, and the present one
\* for a test that lists from its own file.
CacheIsCurrent ==
  \A t \in DOMAIN file :
    cache[t] # None /\ cache[t].mtime = file[t].mtime =>
      /\ cache[t].list \in file[t].since
      /\ t \notin site.sourcing => cache[t].list = file[t].content

\* The window is the best of the matrix: no job twice, no shorter than the limit and the
\* matrix allow, every job with the best weight of its key although branches that share
\* a commit and groups that share a test give it several, and none passed over for a
\* worse one.
WindowIsBest ==
  pc = "idle" =>
    LET all == Range(Candidates)
        got == {KeyOf(window[i]) : i \in DOMAIN window}
        best(key) == Min({job_weight(j) : j \in {j \in all : KeyOf(j) = key}})
        keys == {KeyOf(j) : j \in all}
    IN /\ Cardinality(got) = Len(window) /\ got \subseteq keys
       /\ Len(window) = Min({site.limit, Cardinality(keys)})
       /\ \A i \in DOMAIN window : job_weight(window[i]) = best(KeyOf(window[i]))
       /\ \A i \in DOMAIN window, key \in keys \ got : job_weight(window[i]) <= best(key)

\* The binary search finds exactly the rows of the table.
SearchFinds ==
  durations # None =>
    LET rowsOf(key) == {i \in DOMAIN durations : durations[i].test = key}
    IN \A t \in DOMAIN file, s, k \in 0..3 :
         LET key == subtest_result_key(t, s, k, <<>>)
         IN test_stats(durations, key) =
              IF rowsOf(key) = {} THEN None ELSE durations[CHOOSE i \in rowsOf(key) : TRUE]

\* What a group of a branch asks for when test t has the subtests lists[t].
AskedBy(b, g, lists) ==
  LET env == encode_env(resolved[g].env)
      kernels == IF Tg(g).kernels = <<>> THEN {0} ELSE Range(Tg(g).kernels)
      commits == {site.log[b][n] : n \in {n \in DOMAIN site.log[b] : n <= Tg(g).max_commits}}
      subtests == UNION {{t} \X Range(lists[t]) : t \in Range(Tg(g).tests)}
  IN IF env = None \/ site.log[b] = None THEN {}
     ELSE {[commit |-> c, test |-> ts[1], subtest |-> ts[2], kernel |-> k, env |-> env]
           : c \in commits, ts \in subtests, k \in kernels}

\* The pass that has just ended leaves what the configuration asks for, up to the limit.
CaughtUp(lists) ==
  LET asked == {key \in UNION {UNION {AskedBy(b, g, lists) : g \in Range(site.branches[b])}
                                : b \in DOMAIN site.branches} : Wanted(key)}
      got   == {KeyOf(window[i]) : i \in DOMAIN window}
  IN got \subseteq asked /\ (got = asked \/ Len(window) = site.limit)

\* One listing for each test that a cache of listings by mtime may hold.
Tagged == {lists \in [DOMAIN file -> UNION {file[t].since : t \in DOMAIN file}] :
             \A t \in DOMAIN file : /\ lists[t] \in file[t].since
                                    /\ t \notin site.sourcing => lists[t] = file[t].content}

\* Once the files are left alone, the window is what the configuration asks for: no test
\* stays out of the matrix for a listing that once failed or was empty, and none stays in
\* it under a name that was gone when its .ktest file was last written.
MatrixCatchesUp ==
  <>[](outcome = "ok" /\ pc = "idle" => \E lists \in Tagged : CaughtUp(lists))

=============================================================================
