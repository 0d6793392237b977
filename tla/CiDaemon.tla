------------------------------- MODULE CiDaemon -------------------------------
(***************************************************************************)
(* ci-daemon (src/bin/ci-daemon.rs): the main thread tops up a window of   *)
(* jobs from the wanted matrix (src/jobs.rs), executors claim batches of   *)
(* one test file's subtests, run them in VMs on a worker and record the    *)
(* verdicts in the TestResultsStore.  The daemon may be killed and         *)
(* restarted at any point; rm-results may delete results behind its back.  *)
(*                                                                         *)
(* The job queue (jobkit's Choir) is a library: jobSt, jobKey, Claim and    *)
(* Report are modelled from how ci-daemon.rs uses it.  The worker side     *)
(* (supervisor and VM) is the nondeterministic outcome of RunVM.           *)
(***************************************************************************)
EXTENDS TestResultsStore, Integers, FiniteSets

CONSTANTS
  Executors,   \* one per worker slot
  Sources,     \* (user, repo) pairs of the configuration
  Tests,       \* (test file, kernel, env): what a batch has in common
  TestOf,      \* TestOf[k]: the test a result key belongs to
  HasUrl,      \* sources whose repo has a url the workers can fetch from
  Walks,       \* Walks[s]: the sets of commits a walk of s's branch may yield
  VMTexts,     \* texts the supervisor may leave for a subtest it reached
  JobIds,      \* ids of the Choir
  Window,      \* most jobs desired_jobs() returns
  MaxCrashes,  \* bound: times the daemon dies
  MaxRm,       \* bound: invocations of rm-results
  MaxGc,       \* bound: runs of gc-results
  Rank,        \* Rank[c]: place of a commit in the order a walk meets them, newest highest
  KeepCommits  \* keep_results_commits: how deep gc-results walks a branch

JobKeys == [source : Sources, commit : Commits, key : Keys]

ASSUME ConstantsOK ==
  /\ IsFiniteSet(JobIds) /\ None \notin JobIds /\ None \notin Status /\ None \notin StatusText
  /\ None \notin JobKeys /\ None \notin Commits
  /\ TestOf \in [Keys -> Tests]
  /\ HasUrl \subseteq Sources
  /\ Walks \in [Sources -> SUBSET SUBSET Commits]
  /\ \A s \in Sources : Walks[s] # {}
  /\ VMTexts \subseteq StatusText
  /\ Window \in Nat /\ MaxCrashes \in Nat /\ MaxRm \in Nat /\ MaxGc \in Nat
  /\ Rank \in [Commits -> Nat] /\ (\A c, d \in Commits : Rank[c] = Rank[d] => c = d)
  /\ KeepCommits \in Nat /\ MaxWriteErrors \in Nat

VARIABLES
  jobSt,       \* jobSt[id]: "none", "pending", "running" or "finished"
  jobKey,      \* jobKey[id]: the JobKey it was submitted for, None for "none"
  job_map,     \* job_map[jk]: the id tracked for a JobKey, or None
  main,        \* where the main thread is
  todo,        \* commits load() or desired_jobs() has still to look at
  specs,       \* (source, commit) pairs this refill's matrix was built from
  desired,     \* jobs this refill still has to look at
  clear,       \* --clear-failed-to-run, while load() runs
  loading,     \* commit whose stale entries load() is dropping, or None
  kept,        \* load()'s map of that commit, not written yet
  branches,    \* branches[s]: commits on s's branch, as the local ref has them
  pc,          \* pc[e]: where executor e is in run_executor
  batch,       \* batch[e]: the job ids it claimed and has not reported yet
  at,          \* at[e]: the commit of its batch
  remaining,   \* remaining[e]: subtests still owed a verdict
  did_clean,   \* did_clean[e]: the batch's one git-clean was spent
  boots,       \* boots[e]: VMs this batch has booted (history)
  worker,      \* worker[e][k]: status text in its ktest-out that a pull can read
  crashes, rms, gcs, \* bounds
  rmAt,        \* commit whose .capnp rm-results is about to rebuild, or None
  gcLive,      \* commits gc-results spares; None when it does not run
  unread       \* sources whose branch some gc-results could not read (history)

choirVars == <<jobSt, jobKey>>
mainVars == <<main, todo, specs, desired, clear, loading, kept>>
execVars == <<pc, batch, at, remaining, did_clean, boots, worker>>
gcVars == <<gcLive, gcs, unread>>
envVars == <<branches, crashes, rms, rmAt, gcVars>>
vars == <<storeVars, choirVars, job_map, mainVars, execVars, envVars>>

EmptyWorker == [k \in Keys |-> None]

Init ==
  /\ StoreInit
  /\ jobSt = [id \in JobIds |-> "none"] /\ jobKey = [id \in JobIds |-> None]
  /\ job_map = [jk \in JobKeys |-> None]
  /\ main = "down" /\ todo = {} /\ specs = {} /\ desired = {} /\ clear = FALSE
  /\ loading = None /\ kept = NoResults
  /\ branches \in [Sources -> SUBSET Commits]
  /\ \A s \in Sources : branches[s] \in Walks[s]
  /\ pc = [e \in Executors |-> "idle"] /\ batch = [e \in Executors |-> {}]
  /\ at = [e \in Executors |-> None] /\ remaining = [e \in Executors |-> {}]
  /\ did_clean = [e \in Executors |-> FALSE] /\ boots = [e \in Executors |-> 0]
  /\ worker = [e \in Executors |-> EmptyWorker]
  /\ crashes = 0 /\ rms = 0 /\ rmAt = None /\ gcLive = None /\ gcs = 0
  /\ unread = {}

-------------------------------------------------------------------------------
(* The daemon's life: start, load, death.                                  *)

\* main() up to load(): which commit directories there are to look at.
Start ==
  /\ main = "down"
  /\ main' = "load" /\ todo' = dirs /\ clear' \in BOOLEAN
  /\ UNCHANGED <<storeVars, choirVars, job_map, specs, desired, loading, kept, execVars,
                 envVars>>

\* load() walks the commit directories in no particular order, and skips one that is
\* gone when its turn comes.
LoadGone(c) ==
  /\ main = "load" /\ loading = None /\ c \in todo \ dirs
  /\ todo' = todo \ {c}
  /\ UNCHANGED <<storeVars, choirVars, job_map, main, specs, desired, clear, loading, kept,
                 execVars, envVars>>

\* The .capnp of a commit without stale entries is only read.
LoadFresh(c) ==
  /\ main = "load" /\ loading = None /\ c \in todo \cap dirs
  /\ Stale(c, clear) = {}
  /\ by_commit' = [by_commit EXCEPT ![c] = capnp[c]]
  /\ todo' = todo \ {c}
  /\ UNCHANGED <<capnp, status, dirs, write_errors, choirVars, job_map, main, specs, desired,
                 clear, loading, kept, execVars, envVars>>

\* Stale entries leave the map just read, and their directories go ...
LoadStale(c) ==
  /\ main = "load" /\ loading = None /\ c \in todo \cap dirs
  /\ Stale(c, clear) # {}
  /\ RemoveDirs(c, Stale(c, clear))
  /\ loading' = c /\ kept' = Kept(c, clear)
  /\ UNCHANGED <<by_commit, capnp, dirs, write_errors, choirVars, job_map, main, todo, specs,
                 desired, clear, execVars, envVars>>

\* Mutant of LoadRewrite: the published file keeps the stale entries.
MutLoadNoRewrite ==
  /\ loading # None
  /\ by_commit' = [by_commit EXCEPT ![loading] = kept]
  /\ todo' = todo \ {loading} /\ loading' = None /\ kept' = NoResults
  /\ UNCHANGED <<capnp, status, dirs, write_errors, choirVars, job_map, main, specs, desired,
                 clear, execVars, envVars>>

\* ... before the .capnp is rewritten from it.
LoadRewrite ==
  /\ loading # None
  /\ by_commit' = [by_commit EXCEPT ![loading] = kept]
  /\ results_to_capnp(loading, kept)
  /\ todo' = todo \ {loading} /\ loading' = None /\ kept' = NoResults
  /\ UNCHANGED <<status, dirs, choirVars, job_map, main, specs, desired, clear, execVars,
                 envVars>>

Loaded ==
  /\ main = "load" /\ todo = {}
  /\ main' = "refill" /\ clear' = FALSE
  /\ UNCHANGED <<storeVars, choirVars, job_map, todo, specs, desired, loading, kept,
                 execVars, envVars>>

\* The process dies: everything but the files is gone, and perhaps the gc-results it
\* was waiting for.
Crash ==
  /\ main # "down" /\ crashes < MaxCrashes
  /\ main' = "down" /\ todo' = {} /\ specs' = {} /\ desired' = {} /\ clear' = FALSE
  /\ loading' = None /\ kept' = NoResults
  /\ by_commit' = [c \in Commits |-> NoResults]
  /\ jobSt' = [id \in JobIds |-> "none"] /\ jobKey' = [id \in JobIds |-> None]
  /\ job_map' = [jk \in JobKeys |-> None]
  /\ pc' = [e \in Executors |-> "idle"] /\ batch' = [e \in Executors |-> {}]
  /\ at' = [e \in Executors |-> None] /\ remaining' = [e \in Executors |-> {}]
  /\ did_clean' = [e \in Executors |-> FALSE] /\ boots' = [e \in Executors |-> 0]
  /\ worker' = [e \in Executors |-> EmptyWorker]
  /\ crashes' = crashes + 1 /\ gcLive' \in {gcLive, None}
  /\ UNCHANGED <<capnp, status, dirs, write_errors, branches, rms, gcs, unread, rmAt>>

\* spawn_repo_fetcher(): a ref is pointed at what was fetched, rewinds included.
FetchBranch(s) ==
  /\ main \notin {"down", "load"}
  /\ \E w \in Walks[s] \ {branches[s]} : branches' = [branches EXCEPT ![s] = w]
  /\ UNCHANGED <<storeVars, choirVars, job_map, mainVars, execVars, crashes, rms, rmAt,
                 gcVars>>

-------------------------------------------------------------------------------
(* refill() and desired_jobs(), interleaved with the executors.            *)

Existing == {id \in JobIds : jobSt[id] # "none"}
Unfinished == {id \in JobIds : jobSt[id] \in {"pending", "running"}}
Pending == {id \in JobIds : jobSt[id] = "pending"}

\* Mutant: job_map is checked against the status snapshot, which omits pending jobs.
MutRetainStatus ==
  job_map' = [jk \in JobKeys |->
                IF job_map[jk] \in Unfinished \ Pending THEN job_map[jk] ELSE None]

\* Tracked jobs that are still in the Choir once the finished ones are removed.
RetainExisting ==
  job_map' = [jk \in JobKeys |->
                IF job_map[jk] \in Unfinished THEN job_map[jk] ELSE None]

\* build_test_specs(): the commits each source's local refs lead to.  Every test of
\* the configuration is wanted of every commit.
build_test_specs == {sc \in Sources \X Commits : sc[2] \in branches[sc[1]]}

\* Finished jobs are dropped, job_map follows, and the matrix is laid out.
RefillRetain ==
  /\ main = "refill"
  /\ jobSt' = [id \in JobIds |-> IF id \in Unfinished THEN jobSt[id] ELSE "none"]
  /\ jobKey' = [id \in JobIds |-> IF id \in Unfinished THEN jobKey[id] ELSE None]
  /\ RetainExisting
  /\ specs' = build_test_specs /\ todo' = {sc[2] : sc \in build_test_specs}
  /\ main' = "read" /\ desired' = {}
  /\ UNCHANGED <<storeVars, clear, loading, kept, execVars, envVars>>

\* The matrix row of one commit, minus what its snapshot of the store settles.
WantedAt(c) ==
  {jk \in JobKeys : /\ jk.commit = c /\ <<jk.source, c>> \in specs
                    /\ job_wanted(by_commit[c][jk.key])}

\* commit_results(): one commit's results, fetched once for every spec.
RefillRead(c) ==
  /\ main = "read" /\ c \in todo
  /\ desired' = desired \cup WantedAt(c)
  /\ todo' = todo \ {c}
  /\ UNCHANGED <<storeVars, choirVars, job_map, main, specs, clear, loading, kept, execVars,
                 envVars>>

\* Sort and truncate: the Window best jobs (their order is not modelled here).
RefillTruncate ==
  /\ main = "read" /\ todo = {}
  /\ \E best \in SUBSET desired :
       /\ Cardinality(best) =
            IF Cardinality(desired) < Window THEN Cardinality(desired) ELSE Window
       /\ desired' = best
  /\ main' = "submit"
  /\ UNCHANGED <<storeVars, choirVars, job_map, todo, specs, clear, loading, kept, execVars,
                 envVars>>

\* Mutant of Tracked: nothing is known to be tracked.
MutTracked(jk) == FALSE

\* job_map.contains_key()
Tracked(jk) == job_map[jk] # None

RefillSubmit(jk) ==
  /\ main = "submit" /\ jk \in desired
  /\ desired' = desired \ {jk}
  /\ \/ Tracked(jk) /\ UNCHANGED <<choirVars, job_map>>
     \/ /\ ~Tracked(jk) /\ JobIds \ Existing # {}
        /\ LET id == CHOOSE i \in JobIds : i \notin Existing
           IN /\ jobSt' = [jobSt EXCEPT ![id] = "pending"]
              /\ jobKey' = [jobKey EXCEPT ![id] = jk]
              /\ job_map' = [job_map EXCEPT ![jk] = id]
  /\ UNCHANGED <<storeVars, main, todo, specs, clear, loading, kept, execVars,
                 envVars>>

RefillDone ==
  /\ main = "submit" /\ desired = {}
  /\ main' = "idle" /\ specs' = {}
  /\ UNCHANGED <<storeVars, choirVars, job_map, todo, desired, clear, loading, kept, execVars,
                 envVars>>

\* branch_get_commits(): the KeepCommits newest commits of a branch that has w.
branch_get_commits(w) == {c \in w : Cardinality({d \in w : Rank[d] > Rank[c]}) < KeepCommits}

\* Mutant of get_live_commits: only linux_repo, which has no url, is walked.
MutLiveLinuxOnly(read) == UNION {branch_get_commits(branches[s]) : s \in read \ HasUrl}

\* get_live_commits(): what is not too deep on the branches that could be read.
get_live_commits(read) == UNION {branch_get_commits(branches[s]) : s \in read}

\* run_maintenance("gc-results") when the last one is long enough ago.  It reads the
\* configuration again, and goes on without a source whose user's file is broken, whose
\* repo has no path or cannot be opened, or whose branch is not there.
Upkeep ==
  /\ main = "submit" /\ desired = {}
  /\ gcs < MaxGc /\ gcLive = None
  /\ main' = "upkeep" /\ specs' = {}
  /\ \E read \in SUBSET Sources :
       gcLive' = get_live_commits(read) /\ unread' = unread \cup (Sources \ read)
  /\ gcs' = gcs + 1
  /\ UNCHANGED <<storeVars, choirVars, job_map, todo, desired, clear, loading, kept, execVars,
                 branches, crashes, rms, rmAt>>

\* The status loop: refill once the window has drained.
Drained ==
  /\ main = "idle" /\ Cardinality(Pending) <= Window \div 4
  /\ main' = "refill"
  /\ UNCHANGED <<storeVars, choirVars, job_map, todo, specs, desired, clear, loading,
                 kept, execVars, envVars>>

-------------------------------------------------------------------------------
(* run_executor(), run_ktest_job() and run_ktest_job_inner().              *)

KeysOf(ids) == {jobKey[id].key : id \in ids}
BatchKeys(e) == KeysOf(batch[e])

\* make_job_spec(): jobs with one batch key may share a VM.
batch_key(id) == <<jobKey[id].source, jobKey[id].commit, TestOf[jobKey[id].key]>>

Goto(e, label) == pc' = [pc EXCEPT ![e] = label]

\* claim(): some pending jobs of one batch key, as many as the budget allows.
Claim(e) ==
  /\ pc[e] = "idle"
  /\ \E ids \in SUBSET Pending \ {{}} :
       /\ \A i, j \in ids : batch_key(i) = batch_key(j)
       /\ jobSt' = [id \in JobIds |-> IF id \in ids THEN "running" ELSE jobSt[id]]
       /\ batch' = [batch EXCEPT ![e] = ids]
       /\ \E c \in {jobKey[id].commit : id \in ids} : at' = [at EXCEPT ![e] = c]
       /\ remaining' = [remaining EXCEPT ![e] = KeysOf(ids)]
  /\ Goto(e, "claimed")
  /\ UNCHANGED <<storeVars, jobKey, job_map, mainVars, did_clean, boots, worker, envVars>>

\* A repo without a url is refused; otherwise every subtest is announced, in
\* the result directory first.
Announce(e) ==
  /\ pc[e] = "claimed"
  /\ LET configured == \A id \in batch[e] : jobKey[id].source \in HasUrl
     IN \/ /\ ~configured /\ Goto(e, "fail") /\ UNCHANGED <<status, dirs>>
        \/ /\ configured /\ Goto(e, "announce")
           /\ WriteStatus(at[e], remaining[e], "IN_PROGRESS")
  /\ UNCHANGED <<by_commit, capnp, write_errors, choirVars, job_map, mainVars, batch, at,
                 remaining, did_clean, boots, worker, envVars>>

\* ... then in the store.
AnnounceStore(e) ==
  /\ pc[e] = "announce" /\ Goto(e, "setup")
  /\ update(at[e], [k \in remaining[e] |-> "Inprogress"])
  /\ UNCHANGED <<status, dirs, choirVars, job_map, mainVars, batch, at, remaining,
                 did_clean, boots, worker, envVars>>

\* Checkout, ktest sync and supervisor build: each may fail and end the batch.
Setup(e) ==
  /\ pc[e] = "setup"
  /\ Goto(e, "prepare") \/ Goto(e, "fail")
  /\ UNCHANGED <<storeVars, choirVars, job_map, mainVars, batch, at, remaining,
                 did_clean, boots, worker, envVars>>

\* The worker's ktest-out is wiped and every subtest marked there.
Prepare(e) ==
  /\ pc[e] = "prepare"
  /\ \/ /\ Goto(e, "run")
        /\ worker' = [worker EXCEPT ![e] =
             [k \in Keys |-> IF k \in remaining[e] THEN "IN_PROGRESS" ELSE None]]
     \/ Goto(e, "fail") /\ UNCHANGED worker
  /\ UNCHANGED <<storeVars, choirVars, job_map, mainVars, batch, at, remaining,
                 did_clean, boots, envVars>>

\* One VM over the remaining subtests.  The supervisor leaves a text for those
\* it reached; its exit status is ignored.  Only not launching it is an error.
RunVM(e) ==
  /\ pc[e] = "run"
  /\ \/ /\ Goto(e, "pull")
        /\ \E out \in [remaining[e] -> VMTexts \cup {"IN_PROGRESS"}] :
             worker' = [worker EXCEPT ![e] =
               [k \in Keys |-> IF k \in remaining[e] THEN out[k] ELSE @[k]]]
        /\ boots' = [boots EXCEPT ![e] = @ + 1]
     \/ Goto(e, "fail") /\ UNCHANGED <<worker, boots>>
  /\ UNCHANGED <<storeVars, choirVars, job_map, mainVars, batch, at, remaining,
                 did_clean, envVars>>

\* The result directories arrive.  A broken transfer delivers some of them, and
\* may still look successful: the pipeline's exit status is that of tar -x.
Pull(e) ==
  /\ pc[e] = "pull"
  /\ \E got \in SUBSET remaining[e] :
       /\ status' = [status EXCEPT ![at[e]] =
            [k \in Keys |-> IF k \in got THEN worker[e][k] ELSE @[k]]]
  /\ dirs' = dirs \cup {at[e]}
  /\ Goto(e, "merge") \/ Goto(e, "fail")
  /\ UNCHANGED <<by_commit, capnp, write_errors, choirVars, job_map, mainVars, batch, at,
                 remaining, did_clean, boots, worker, envVars>>

\* The pulled status of a subtest; a missing one counts as never reached.
PulledStatus(e, k) ==
  IF status[at[e]][k] = None THEN "Inprogress" ELSE read_test_result(at[e], k)

\* Subtests of the batch the VM never reached.
Unreached(e) == {k \in remaining[e] : PulledStatus(e, k) = "Inprogress"}

\* Mutants of NextLeg: the git-clean is never spent; a fruitless run is not noticed.
MutNextLegCleansForever(e) ==
  IF Unreached(e) = remaining[e]
  THEN Goto(e, "clean") /\ UNCHANGED <<remaining, did_clean>>
  ELSE /\ Goto(e, IF Unreached(e) = {} THEN "report" ELSE "run")
       /\ remaining' = [remaining EXCEPT ![e] = Unreached(e)]
       /\ UNCHANGED did_clean
MutNextLegGivesUpQuietly(e) ==
  /\ Goto(e, IF Unreached(e) \in {{}, remaining[e]} THEN "report" ELSE "run")
  /\ remaining' = [remaining EXCEPT ![e] = Unreached(e)]
  /\ UNCHANGED did_clean

\* A fruitless run is retried once after a git-clean, then it is an error.
NextLeg(e) ==
  IF Unreached(e) = remaining[e]
  THEN /\ Goto(e, IF did_clean[e] THEN "fail" ELSE "clean")
       /\ did_clean' = [did_clean EXCEPT ![e] = TRUE]
       /\ UNCHANGED remaining
  ELSE /\ Goto(e, IF Unreached(e) = {} THEN "report" ELSE "run")
       /\ remaining' = [remaining EXCEPT ![e] = Unreached(e)]
       /\ UNCHANGED did_clean

\* The pulled statuses go into the store; the unreached subtests are retried.
Merge(e) ==
  /\ pc[e] = "merge"
  /\ update(at[e], [k \in remaining[e] |-> PulledStatus(e, k)])
  /\ NextLeg(e)
  /\ worker' = [worker EXCEPT ![e] =
       [k \in Keys |-> IF k \in Unreached(e) THEN @[k] ELSE None]]
  /\ UNCHANGED <<status, dirs, choirVars, job_map, mainVars, batch, at, boots, envVars>>

Clean(e) ==
  /\ pc[e] = "clean"
  /\ Goto(e, "run") \/ Goto(e, "fail")
  /\ UNCHANGED <<storeVars, choirVars, job_map, mainVars, batch, at, remaining,
                 did_clean, boots, worker, envVars>>

\* Subtests of a failed batch the store still has in progress.
Stuck(e) == {k \in BatchKeys(e) : by_commit[at[e]][k] = "Inprogress"}

\* Mutants of Terminal: nothing, or the whole batch, is made terminal.
MutTerminalNone(e) == {}
MutTerminalAll(e) == BatchKeys(e)

\* The subtests run_ktest_job() makes FailedToRun when the inner part failed.
Terminal(e) == Stuck(e)

\* Mutant of FailBatch: the status files of the whole batch are overwritten.
MutFailBatchFiles(e) ==
  /\ pc[e] = "fail" /\ Goto(e, "report")
  /\ WriteStatus(at[e], BatchKeys(e), "FAILED_TO_RUN")
  /\ update(at[e], [k \in Terminal(e) |-> "FailedToRun"])
  /\ UNCHANGED <<choirVars, job_map, mainVars, batch, at, remaining, did_clean, boots,
                 worker, envVars>>

\* The tail of run_ktest_job() after an error.
FailBatch(e) ==
  /\ pc[e] = "fail" /\ Goto(e, "report")
  /\ WriteStatus(at[e], Terminal(e), "FAILED_TO_RUN")
  /\ update(at[e], [k \in Terminal(e) |-> "FailedToRun"])
  /\ UNCHANGED <<choirVars, job_map, mainVars, batch, at, remaining, did_clean, boots,
                 worker, envVars>>

\* report(): one job after the other; then the call's locals are gone and the
\* executor claims again.
Report(e) ==
  /\ pc[e] = "report"
  /\ \E id \in batch[e] :
       /\ jobSt' = [jobSt EXCEPT ![id] = "finished"]
       /\ batch' = [batch EXCEPT ![e] = @ \ {id}]
       /\ IF batch[e] = {id}
          THEN /\ Goto(e, "idle")
               /\ at' = [at EXCEPT ![e] = None]
               /\ remaining' = [remaining EXCEPT ![e] = {}]
               /\ did_clean' = [did_clean EXCEPT ![e] = FALSE]
               /\ boots' = [boots EXCEPT ![e] = 0]
               /\ worker' = [worker EXCEPT ![e] = EmptyWorker]
          ELSE UNCHANGED <<pc, at, remaining, did_clean, boots, worker>>
  /\ UNCHANGED <<storeVars, jobKey, job_map, mainVars, envVars>>

-------------------------------------------------------------------------------
(* rm-results, run by an operator beside the daemon.                       *)

RmDirs(c) ==
  /\ rms < MaxRm /\ rmAt = None /\ c \in dirs
  /\ \E ks \in SUBSET {k \in Keys : status[c][k] # None} \ {{}} : RemoveDirs(c, ks)
  /\ rmAt' = c /\ rms' = rms + 1
  /\ UNCHANGED <<by_commit, capnp, dirs, write_errors, choirVars, job_map, mainVars, execVars,
                 branches, crashes, gcVars>>

RmUpdate ==
  /\ rmAt # None
  /\ commit_update_results(rmAt)
  /\ rmAt' = None
  /\ UNCHANGED <<choirVars, job_map, mainVars, execVars, branches, crashes, rms, gcVars>>

-------------------------------------------------------------------------------
(* gc-results, beside the executors.  It goes through output_dir once; an    *)
(* entry younger than an hour is left alone, so any of them may be.         *)

\* remove_dir_all() of a dead commit takes one subtest after the other ...
GcSubtest(c, k) ==
  /\ gcLive # None /\ c \in dirs \ gcLive /\ status[c][k] # None
  /\ RemoveDirs(c, {k})
  /\ UNCHANGED <<by_commit, capnp, dirs, write_errors, choirVars, job_map, mainVars, execVars,
                 envVars>>

\* ... and then the directory, which fails when an executor filled it again.
GcDir(c) ==
  /\ gcLive # None /\ c \in dirs \ gcLive
  /\ \A k \in Keys : status[c][k] = None
  /\ dirs' = dirs \ {c}
  /\ UNCHANGED <<by_commit, capnp, status, write_errors, choirVars, job_map, mainVars, execVars,
                 envVars>>

\* The .capnp of a dead commit is an entry of its own.
GcCapnp(c) ==
  /\ gcLive # None /\ c \notin gcLive /\ capnp[c] # NoResults
  /\ capnp' = [capnp EXCEPT ![c] = NoResults]
  /\ UNCHANGED <<by_commit, status, dirs, write_errors, choirVars, job_map, mainVars, execVars,
                 envVars>>

\* It exits, and the main thread, if it is still there, goes on.
GcDone ==
  /\ gcLive # None /\ gcLive' = None
  /\ main' = IF main = "upkeep" THEN "idle" ELSE main
  /\ UNCHANGED <<storeVars, choirVars, job_map, todo, specs, desired, clear, loading, kept,
                 execVars, branches, crashes, rms, rmAt, gcs, unread>>

-------------------------------------------------------------------------------
MainStep ==
  \/ Start \/ LoadRewrite \/ Loaded \/ RefillRetain \/ RefillTruncate \/ RefillDone \/ Upkeep
  \/ Drained
  \/ \E c \in Commits : LoadGone(c) \/ LoadFresh(c) \/ LoadStale(c) \/ RefillRead(c)
  \/ \E jk \in JobKeys : RefillSubmit(jk)

ExecStep(e) ==
  \/ Claim(e) \/ Announce(e) \/ AnnounceStore(e) \/ Setup(e) \/ Prepare(e) \/ RunVM(e)
  \/ Pull(e) \/ Merge(e) \/ Clean(e) \/ FailBatch(e) \/ Report(e)

GcStep ==
  \/ GcDone
  \/ \E c \in Commits : GcDir(c) \/ GcCapnp(c) \/ \E k \in Keys : GcSubtest(c, k)

Next ==
  \/ MainStep
  \/ \E e \in Executors : ExecStep(e)
  \/ \E s \in Sources : FetchBranch(s)
  \/ \E c \in Commits : RmDirs(c)
  \/ RmUpdate
  \/ GcStep
  \/ Crash

Spec == Init /\ [][Next]_vars

\* Every thread of the daemon keeps running, a dead daemon is restarted, and gc-results
\* comes to the end of its directory.
FairSpec ==
  /\ Spec /\ WF_vars(MainStep) /\ WF_vars(GcDone)
  /\ \A e \in Executors : WF_vars(ExecStep(e))

-------------------------------------------------------------------------------
(* Correctness.                                                            *)

PCs == {"idle", "claimed", "announce", "setup", "prepare", "run", "pull", "merge",
        "clean", "fail", "report"}

\* The type invariant: what each variable of the daemon can hold.
TypeOK ==
  /\ StoreTypeOK
  /\ jobSt \in [JobIds -> {"none", "pending", "running", "finished"}]
  /\ jobKey \in [JobIds -> JobKeys \cup {None}]
  /\ job_map \in [JobKeys -> JobIds \cup {None}]
  /\ main \in {"down", "load", "refill", "read", "submit", "upkeep", "idle"}
  /\ todo \subseteq Commits /\ specs \subseteq Sources \X Commits
  /\ desired \subseteq JobKeys /\ clear \in BOOLEAN
  /\ loading \in Commits \cup {None} /\ kept \in Results
  /\ branches \in [Sources -> SUBSET Commits]
  /\ pc \in [Executors -> PCs] /\ batch \in [Executors -> SUBSET JobIds]
  /\ at \in [Executors -> Commits \cup {None}]
  /\ remaining \in [Executors -> SUBSET Keys]
  /\ did_clean \in [Executors -> BOOLEAN] /\ boots \in [Executors -> Nat]
  /\ worker \in [Executors -> [Keys -> StatusText \cup {None}]]
  /\ crashes \in Nat /\ rms \in Nat /\ rmAt \in Commits \cup {None}
  /\ gcLive \in (SUBSET Commits) \cup {None} /\ gcs \in Nat /\ unread \subseteq Sources

\* No JobKey is in the Choir twice while unfinished: refill's dedup by existence
\* in job_map holds against executors claiming and reporting in between.
NoDuplicateJobs ==
  \A i, j \in Unfinished : jobKey[i] = jobKey[j] => i = j

\* No subtest of a commit is in two executors' batches at once: two VMs never
\* run, and two threads never write, the same result directory.
NoDoubleRun ==
  \A e, f \in Executors :
    e # f /\ at[e] = at[f] /\ at[e] # None => BatchKeys(e) \cap BatchKeys(f) = {}

\* "In progress" in the store always has an executor that still owes the verdict;
\* otherwise job_wanted() would skip the subtest for ever.
InprogressIsOwned ==
  \A c \in Commits, k \in Keys :
    by_commit[c][k] = "Inprogress" =>
      \E e \in Executors : at[e] = c /\ k \in remaining[e] /\ pc[e] # "report"

\* load() is done with the commit: its entry of by_commit is what the daemon goes by.
IsLoaded(c) == main \notin {"down", "load"} \/ (main = "load" /\ c \notin todo)

RunVerdicts == {"Passed", "Failed", "Notrun"}

\* A .capnp whose write failed is out of date, never wrong: a run's verdict that it
\* shows is the one the daemon has, whatever writes were lost, before this start of the
\* daemon or since.  (A FailedToRun may be shown that --clear-failed-to-run dropped.)
PublishedIsTrue ==
  \A c \in Commits, k \in Keys :
    IsLoaded(c) /\ capnp[c][k] \in RunVerdicts => by_commit[c][k] = capnp[c][k]

\* A verdict of a VM that is in the store can be rebuilt from its status file
\* (commit_update_results does so), whatever the batch did after recording it.
\* FailedToRun is left out: its text reads back as Failed, see from_str().
VerdictOnDisk ==
  \A c \in Commits, k \in Keys :
    by_commit[c][k] \in RunVerdicts =>
      read_test_result(c, k) = by_commit[c][k]

\* The resume loop is bounded: a batch boots at most one VM per subtest, plus one.
BootsBounded ==
  \A e \in Executors :
    pc[e] # "report" => boots[e] <= Cardinality(batch[e]) + 1

\* The first verdict stands: while the daemon lives, no step of any thread changes
\* a recorded verdict.
VerdictStands ==
  [][\A c \in Commits, k \in Keys :
       result_is_done(by_commit[c][k]) /\ main' # "down" =>
         by_commit'[c][k] = by_commit[c][k]]_vars

\* Commits whose file is not what the running daemon has.
Behind == {c \in Commits : IsLoaded(c) /\ capnp[c] # by_commit[c]}

\* Results published to the dashboard follow the ledger's life cycle, crashes, restarts
\* and failed writes included.
Ledger == INSTANCE ResultLedger WITH ledger <- capnp, behind <- Behind
LedgerRefined == Ledger!LedgerSpec

\* Every subtest on a branch eventually has a verdict.
EveryJobGetsAVerdict ==
  \A s \in Sources, c \in Commits, k \in Keys :
    [](c \in branches[s]) => <>[](result_is_done(by_commit[c][k]))

\* The same for the subtests of sources that workers can fetch from: jobs of another
\* source that fail before they are announced, and so come back with every refill,
\* do not keep them out of the window (as long as the window has room for both).
ConfiguredJobGetsAVerdict ==
  \A s \in HasUrl, c \in Commits, k \in Keys :
    [](c \in branches[s]) => <>[](result_is_done(by_commit[c][k]))

\* Fewer than keep_results_commits commits of s's branch are newer than c.
WithinReach(s, c) ==
  c \in branches[s] /\ Cardinality({d \in branches[s] : Rank[d] > Rank[c]}) < KeepCommits

\* gc-results keeps what it should find: a commit that stays within reach on a branch,
\* from whichever source, never loses its published results, batches and restarts
\* notwithstanding, as long as every gc-results could read that branch and nobody runs
\* rm-results.  While no write fails the file is also the daemon's map.
BranchResultsKept ==
  \A s \in Sources, c \in Commits :
    [](WithinReach(s, c) /\ s \notin unread /\ rms = 0) =>
      []((main \notin {"down", "load"} /\ write_errors = 0 => capnp[c] = by_commit[c])
         /\ (capnp[c] # NoResults => c \in dirs))

-------------------------------------------------------------------------------
(* The inductive invariant behind the theorems of CiDaemon_proofs.         *)

\* Commits a source's branch may ever hold.
Reach(s) == UNION Walks[s]

\* No commit is tested on behalf of two sources.  Results are keyed by commit
\* and subtest, jobs by source as well: only then do the two agree.
Exclusive == \A s, t \in Sources : s # t => Reach(s) \cap Reach(t) = {}

Busy(e) == pc[e] \notin {"idle", "report"}

\* A job has a key, and while it is unfinished job_map tracks it under that key.
ChoirInv ==
  /\ \A id \in JobIds : jobSt[id] = "none" <=> jobKey[id] = None
  /\ \A id \in Unfinished : job_map[jobKey[id]] = id

\* A batch holds running jobs of one commit, no job is in two batches, and a busy
\* executor owes verdicts for subtests of its own batch only.
BatchInv ==
  /\ \A e \in Executors : \A id \in batch[e] :
       jobSt[id] = "running" /\ jobKey[id].commit = at[e]
  /\ \A e, f \in Executors : e # f => batch[e] \cap batch[f] = {}
  /\ \A e \in Executors : pc[e] = "idle" <=> batch[e] = {}
  /\ \A e \in Executors : pc[e] = "idle" <=> at[e] = None
  /\ \A e \in Executors : Busy(e) => remaining[e] # {} /\ remaining[e] \subseteq BatchKeys(e)

\* Jobs, specs and wanted jobs only concern commits of their own source.
ScopeInv ==
  /\ \A s \in Sources : branches[s] \subseteq Reach(s)
  /\ \A sc \in specs : sc[2] \in Reach(sc[1])
  /\ \A jk \in desired : jk.commit \in Reach(jk.source)
  /\ \A id \in Unfinished : jobKey[id].commit \in Reach(jobKey[id].source)

\* Nothing runs before the results are loaded, and load() fills an empty map
\* without the stale entries.
LoadInv ==
  /\ main \in {"down", "load"} => Existing = {} /\ desired = {}
  /\ main = "down" => \A c \in Commits : by_commit[c] = NoResults
  /\ main = "load" => \A c \in todo : by_commit[c] = NoResults
  /\ loading # None => main = "load" /\ loading \in todo
  /\ \A k \in Keys : kept[k] # "Inprogress"
  /\ \A e \in Executors : pc[e] # "idle" => main \notin {"down", "load"}

\* A job that waits, and a wanted job that is not tracked, has no verdict.
FreshInv ==
  /\ \A id \in Pending : ~result_is_done(by_commit[jobKey[id].commit][jobKey[id].key])
  /\ \A jk \in desired :
       job_map[jk] = None => ~result_is_done(by_commit[jk.commit][jk.key])

\* A batch owes no subtest that has a verdict; once announced, what it owes is in
\* progress in the store.
OwedInv ==
  \A e \in Executors : \A k \in remaining[e] :
    /\ pc[e] \in {"claimed", "announce"} => ~result_is_done(by_commit[at[e]][k])
    /\ pc[e] \in {"setup", "prepare", "run", "pull", "merge", "clean"} =>
         by_commit[at[e]][k] = "Inprogress"

\* What is in progress in the store is owed by an executor.
OwnedInv ==
  \A c \in Commits, k \in Keys :
    by_commit[c][k] = "Inprogress" =>
      \E e \in Executors : Busy(e) /\ at[e] = c /\ k \in remaining[e]

\* A published commit has its directory, so that load() will look at it.
DirInv ==
  /\ \A c \in Commits : capnp[c] # NoResults => c \in dirs
  /\ \A e \in Executors : pc[e] \notin {"idle", "claimed", "fail"} => at[e] \in dirs

\* The .capnp files show no other verdict of a run than the map, as far as load() got;
\* while no write failed they are the map.
RenderInv ==
  /\ PublishedIsTrue
  /\ write_errors = 0 => \A c \in Commits : IsLoaded(c) => capnp[c] = by_commit[c]
  /\ main = "load" => todo \subseteq dirs
  /\ loading # None => kept = Kept(loading, clear)
  /\ rmAt = None /\ gcLive = None

\* What makes the verdicts right, whatever rm-results and gc-results do to the files.
SafeInv ==
  TypeOK /\ ChoirInv /\ BatchInv /\ ScopeInv /\ LoadInv /\ OwnedInv /\ FreshInv /\ OwedInv

\* The invariant the proofs use: the Choir, job_map, the executors' batches, the
\* store and the published files agree at every step of every thread.
IndInv == SafeInv /\ DirInv /\ RenderInv

===============================================================================
