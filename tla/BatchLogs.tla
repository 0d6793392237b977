------------------------------ MODULE BatchLogs ------------------------------
(***************************************************************************)
(* The full_log.br of each subtest of a commit (run_ktest_job and its      *)
(* resume loop, src/bin/ci-daemon.rs).  A VM run has one log: a file in    *)
(* the directory of the first subtest of the run, and a symbolic link to   *)
(* it in the directories of the others.  Batches of several executors,     *)
(* retries, re-runs of Unknown verdicts, rm-results and restarts work on   *)
(* the same directories.                                                   *)
(*                                                                         *)
(* The scheduling around it is CiDaemon, the verdicts of a run are         *)
(* Supervisor.                                                             *)
(***************************************************************************)
EXTENDS TestStatus, Naturals, Sequences, FiniteSetsExt

CONSTANTS
  Subtests,    \* the subtests of a test file, in order
  Executors,
  MaxRuns,     \* bounds: VM runs,
  MaxErrors,   \* failing steps of batches,
  MaxRemovals  \* and directories removed by rm-results or restarts of the daemon

Names == {Subtests[i] : i \in 1..Len(Subtests)}

\* A full_log.br: a file with the log of VM run log, or with a batch's own messages when log
\* is 0; or a symbolic link to the one of subtest s.
File(log) == [log |-> log, to |-> None]
Link(s) == [log |-> 0, to |-> s]
Files == {File(log) : log \in 0..MaxRuns}
Links == {Link(s) : s \in Names}

\* The test file has subtests, and no name, number or file is None.
ASSUME SubtestsOK ==
  /\ Subtests \in Seq(Names)
  /\ MaxRuns \in Nat /\ MaxErrors \in Nat /\ MaxRemovals \in Nat
  /\ None \notin Names /\ None \notin 0..MaxRuns /\ None \notin Files \cup Links
  /\ None \notin Status

VARIABLES
  status,      \* status[s]: the recorded status, or None
  by,          \* by[s]: history: the VM run that a recorded verdict is from; 0: none, or
               \* the directory was removed since
  dirs,        \* the subtests that have a directory
  br,          \* br[s]: the full_log.br: None, a File or a Link
  at,          \* at[e]: where the batch of executor e is; "idle" when it has none
  jobs,        \* jobs[e]: its subtests,
  remaining,   \* remaining[e]: those without a verdict,
  run,         \* run[e]: its latest VM run,
  got,         \* got[e]: what that run says of each,
  did_clean,   \* and whether the workspace was cleaned
  primary,     \* history: primary[r]: the first subtest of VM run r
  reran,       \* history: VM runs whose first subtest was run or removed afterwards
  through,     \* history: subtests whose full_log.br another's fallback made, through a link
  errors, removals

batchVars == <<at, jobs, remaining, run, got, did_clean>>
vars == <<status, by, dirs, br, batchVars, primary, reran, through, errors, removals>>

\* Nothing was reached.
Nothing == [s \in Names |-> "Inprogress"]

NoBatches ==
  /\ at' = [e \in Executors |-> "idle"] /\ jobs' = [e \in Executors |-> {}]
  /\ remaining' = [e \in Executors |-> {}] /\ run' = [e \in Executors |-> 0]
  /\ got' = [e \in Executors |-> Nothing] /\ did_clean' = [e \in Executors |-> FALSE]

Init ==
  /\ status = [s \in Names |-> None] /\ by = [s \in Names |-> 0]
  /\ dirs = {} /\ br = [s \in Names |-> None]
  /\ at = [e \in Executors |-> "idle"] /\ jobs = [e \in Executors |-> {}]
  /\ remaining = [e \in Executors |-> {}] /\ run = [e \in Executors |-> 0]
  /\ got = [e \in Executors |-> Nothing] /\ did_clean = [e \in Executors |-> FALSE]
  /\ primary = <<>> /\ reran = {} /\ through = {} /\ errors = 0 /\ removals = 0

-----------------------------------------------------------------------------
\* Where the link at s leads; None when there is no link.
To(s) == IF br[s] \in Links THEN br[s].to ELSE None

\* The subtests that an open() of s/full_log.br comes by, following links.
Reach(s) ==
  {t \in Names : \A S \in SUBSET Names :
                   s \in S /\ (\A u \in S : To(u) \in S \cup {None}) => t \in S}

\* Where it ends.
End(s) == CHOOSE t \in Reach(s) : To(t) = None

\* The log that is served for s, or None.
Served(s) == IF br[End(s)] = None THEN None ELSE br[End(s)].log

\* The first of S in the order of the test file.
First(S) == Subtests[Min({i \in 1..Len(Subtests) : Subtests[i] \in S})]

Kept == <<errors, removals>>
History == <<primary, reran, through>>
RunsOf(S) == {r \in 1..Len(primary) : primary[r] \in S}

-----------------------------------------------------------------------------
Busy == UNION {jobs[e] : e \in Executors}

\* An executor claims wanted subtests and marks them.
Claim(e) ==
  /\ at[e] = "idle" /\ Len(primary) < MaxRuns
  /\ \E S \in SUBSET {s \in Names \ Busy : job_wanted(status[s])} :
       /\ S # {}
       /\ jobs' = [jobs EXCEPT ![e] = S] /\ remaining' = [remaining EXCEPT ![e] = S]
       /\ status' = [s \in Names |-> IF s \in S THEN "Inprogress" ELSE status[s]]
       /\ dirs' = dirs \cup S
  /\ at' = [at EXCEPT ![e] = "steps"]
  /\ UNCHANGED <<by, br, run, got, did_clean, History, Kept>>

\* The supervisor runs over what remains, in one VM.
Run(e) ==
  /\ at[e] = "steps" /\ Len(primary) < MaxRuns
  /\ primary' = Append(primary, First(remaining[e]))
  /\ at' = [at EXCEPT ![e] = "ran"] /\ run' = [run EXCEPT ![e] = Len(primary) + 1]
  /\ UNCHANGED <<status, by, dirs, br, jobs, remaining, got, did_clean, reran, through, Kept>>

\* Mutant of Dropped: the links of the iteration before stay.
MutDropped(e) == br

\* The full_log.br of an earlier iteration or batch go.
Dropped(e) == [s \in Names |-> IF s \in remaining[e] THEN None ELSE br[s]]

\* The result directories come back.  Any of the subtests may have got a verdict, or an
\* unreadable one: on the host lines of the console are lost.
Pull(e) ==
  /\ at[e] = "ran"
  /\ \E g \in [remaining[e] -> {"Inprogress", "Passed", "Unknown"}] :
       got' = [got EXCEPT ![e] = [s \in Names |-> IF s \in remaining[e] THEN g[s] ELSE "Inprogress"]]
  /\ at' = [at EXCEPT ![e] = "pulled"]
  /\ dirs' = dirs \cup remaining[e] /\ br' = Dropped(e)
  /\ reran' = reran \cup (RunsOf(remaining[e]) \ {run[e]})
  /\ through' = through \ remaining[e]
  /\ UNCHANGED <<status, by, jobs, remaining, run, did_clean, primary, Kept>>

\* The log of the run goes into the directory of its first subtest.
WriteLog(e) ==
  /\ at[e] = "pulled"
  /\ LET first == First(remaining[e])
     IN br' = IF first \in dirs THEN [br EXCEPT ![End(first)] = File(run[e])] ELSE br
  /\ at' = [at EXCEPT ![e] = "written"]
  /\ UNCHANGED <<status, by, dirs, jobs, remaining, run, got, did_clean, History, Kept>>

\* Mutant of Linked: the first too, over what is there.
MutLinked(e) ==
  [s \in Names |-> IF s \in remaining[e] \cap dirs THEN Link(First(remaining[e])) ELSE br[s]]

\* The others link to it; symlink() fails on what is there.
Linked(e) ==
  LET first == First(remaining[e])
  IN [s \in Names |-> IF s \in (remaining[e] \ {first}) \cap dirs /\ br[s] = None
                      THEN Link(first) ELSE br[s]]

LinkLogs(e) ==
  /\ at[e] = "written" /\ br' = Linked(e)
  /\ at' = [at EXCEPT ![e] = "linked"]
  /\ UNCHANGED <<status, by, dirs, jobs, remaining, run, got, did_clean, History, Kept>>

\* The verdict of s that is found, if its directory is there.
Found(e, s) == IF s \in dirs THEN got[e][s] ELSE "Inprogress"

\* The verdicts are read and recorded; those never reached go into another VM, after a clean
\* workspace if nothing was reached, which helps once.
Record(e) ==
  /\ at[e] = "linked"
  /\ LET next == {s \in remaining[e] : Found(e, s) = "Inprogress"}
         stuck == next = remaining[e]
     IN /\ status' = [s \in Names |-> IF s \in remaining[e] THEN Found(e, s) ELSE status[s]]
        /\ by' = [s \in Names |-> IF s \in remaining[e] \ next THEN run[e] ELSE by[s]]
        /\ remaining' = [remaining EXCEPT ![e] = next]
        /\ did_clean' = [did_clean EXCEPT ![e] = @ \/ stuck]
        /\ at' = [at EXCEPT ![e] = IF next = {} THEN "ended"
                                   ELSE IF stuck /\ did_clean[e] THEN "failed" ELSE "steps"]
  /\ UNCHANGED <<dirs, br, jobs, run, got, History, Kept>>

\* A step fails: checkout, sync, build, prepare, the start of a run, the pull.
StepError(e) ==
  /\ at[e] \in {"steps", "ran"}
  /\ errors < MaxErrors /\ errors' = errors + 1
  /\ at' = [at EXCEPT ![e] = "failed"]
  /\ UNCHANGED <<status, by, dirs, br, jobs, remaining, run, got, did_clean, History, removals>>

\* Mutant of Missing: no fallback.
MutMissing(e) == {}

\* The subtests of a batch without a log.
Missing(e) == {s \in jobs[e] : Served(s) = None}

\* They get one with the batch's own messages.  File::create() follows a link: where it
\* leads nowhere, the file is made in the directory of another subtest, if there is one.
Fallback(e) ==
  /\ at[e] \in {"failed", "ended"}
  /\ dirs' = dirs \cup Missing(e)
  /\ LET made == {End(s) : s \in Missing(e)} \cap dirs'
     IN /\ br' = [s \in Names |-> IF s \in made THEN File(0) ELSE br[s]]
        /\ through' = through \cup (made \ Missing(e))
  /\ at' = [at EXCEPT ![e] = IF at[e] = "failed" THEN "settle" ELSE "over"]
  /\ UNCHANGED <<status, by, jobs, remaining, run, got, did_clean, primary, reran, Kept>>

\* After an error, what is still in progress has failed to run.
Settle(e) ==
  /\ at[e] \in {"settle", "over"}
  /\ LET open == {s \in jobs[e] : at[e] = "settle" /\ status[s] = "Inprogress"}
     IN /\ status' = [s \in Names |-> IF s \in open THEN "FailedToRun" ELSE status[s]]
        /\ by' = [s \in Names |-> IF s \in open THEN 0 ELSE by[s]]
        /\ dirs' = dirs \cup open
  /\ at' = [at EXCEPT ![e] = "idle"] /\ jobs' = [jobs EXCEPT ![e] = {}]
  /\ remaining' = [remaining EXCEPT ![e] = {}] /\ run' = [run EXCEPT ![e] = 0]
  /\ got' = [got EXCEPT ![e] = Nothing] /\ did_clean' = [did_clean EXCEPT ![e] = FALSE]
  /\ UNCHANGED <<br, History, Kept>>

-----------------------------------------------------------------------------
\* Directories go.
Removed(S) ==
  /\ removals < MaxRemovals /\ removals' = removals + 1
  /\ dirs' = dirs \ S /\ br' = [s \in Names |-> IF s \in S THEN None ELSE br[s]]
  /\ reran' = reran \cup RunsOf(S)

\* rm-results; the daemon's memory is not told.
RmResults(s) ==
  /\ s \in dirs /\ Removed({s}) /\ by' = [by EXCEPT ![s] = 0]
  /\ UNCHANGED <<status, batchVars, primary, through, errors>>

\* The daemon dies and is started again, with --clear-failed-to-run or without.
Restart(clear) ==
  LET stale == {s \in Names : status[s] = "Inprogress" \/ (clear /\ status[s] = "FailedToRun")}
  IN /\ Removed(stale)
     /\ status' = [s \in Names |-> IF s \in stale THEN None ELSE status[s]]
     /\ NoBatches
     /\ UNCHANGED <<by, primary, through, errors>>

Next ==
  \/ \E e \in Executors : \/ Claim(e) \/ Run(e) \/ Pull(e) \/ WriteLog(e) \/ LinkLogs(e)
                          \/ Record(e) \/ StepError(e) \/ Fallback(e) \/ Settle(e)
  \/ \E s \in Names : RmResults(s)
  \/ \E clear \in BOOLEAN : Restart(clear)

Spec == Init /\ [][Next]_vars

-----------------------------------------------------------------------------
\* The types of the state; links lead to subtests and never in a circle (symlink() to
\* the first subtest of a run): among any subtests with links one leads out.
TypeOK ==
  /\ status \in [Names -> Status \cup {None}] /\ by \in [Names -> 0..MaxRuns]
  /\ dirs \subseteq Names /\ reran \subseteq 1..Len(primary) /\ through \subseteq Names
  /\ errors \in 0..MaxErrors /\ removals \in 0..MaxRemovals
  /\ br \in [Names -> {None} \cup Files \cup Links]
  /\ \A S \in SUBSET Names : S # {} => \E s \in S : To(s) \notin S

\* The full log served for a verdict is that of the VM run that gave the verdict, until the
\* subtest that holds the file is run again or removed, or a fallback finds its way there
\* through an old link (the links of an earlier iteration
\* are dropped before, and made anew after the log is written).
LogIsOfItsRun ==
  \A s \in Names : status[s] \in {"Passed", "Unknown"} /\ by[s] # 0 =>
    Served(s) = by[s] \/ by[s] \in reran \/ End(s) \in through

\* A subtest that failed to run has a log to look at, whatever step failed and whatever was
\* linked before (the fallback of run_ktest_job): there is none only after removals, or
\* while the file it links to is being written anew.
FailureHasLog ==
  \A s \in Names : status[s] = "FailedToRun" /\ removals = 0 =>
    \/ Served(s) # None
    \/ \E e \in Executors : at[e] \in {"pulled", "written"} /\ End(s) \in remaining[e]

=============================================================================
