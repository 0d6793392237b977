----------------------- MODULE CiDaemonVerdicts_proofs -----------------------
(***************************************************************************)
(* Proofs about the verdicts of CiDaemon: who owes them, that they are     *)
(* final, and that the published files follow the ResultLedger.            *)
(***************************************************************************)
EXTENDS CiDaemon_proofs

USE DEF storeVars, choirVars, mainVars, execVars, gcVars, envVars, commitdir_get_results_fs,
        build_test_specs

\* What update() leaves in the in-memory map.
LEMMA UpdateEffect ==
  ASSUME by_commit \in [Commits -> Results], NEW c \in Commits, NEW upd, update(c, upd)
  PROVE  \A d \in Commits, k \in Keys :
           by_commit'[d][k] = IF d = c /\ k \in DOMAIN upd THEN upd[k] ELSE by_commit[d][k]
  BY DEF update, Merged, Results

\* The three steps of an executor that write to the store, and what they write.
LEMMA AnnounceEffect ==
  ASSUME BaseInv, NEW e \in Executors, AnnounceStore(e)
  PROVE  \A d \in Commits, k \in Keys :
           by_commit'[d][k] = IF d = at[e] /\ k \in remaining[e] THEN "Inprogress"
                              ELSE by_commit[d][k]
  <1>1. at[e] \in Commits /\ by_commit \in [Commits -> Results]
    BY Handles DEF AnnounceStore, BaseInv, TypeOK, StoreTypeOK
  <1>2. QED
    BY <1>1, UpdateEffect DEF AnnounceStore

LEMMA MergeEffect ==
  ASSUME BaseInv, NEW e \in Executors, Merge(e)
  PROVE  \A d \in Commits, k \in Keys :
           by_commit'[d][k] = IF d = at[e] /\ k \in remaining[e] THEN PulledStatus(e, k)
                              ELSE by_commit[d][k]
  <1>1. at[e] \in Commits /\ by_commit \in [Commits -> Results]
    BY Handles DEF Merge, BaseInv, TypeOK, StoreTypeOK
  <1>2. QED
    BY <1>1, UpdateEffect DEF Merge

LEMMA FailEffect ==
  ASSUME BaseInv, NEW e \in Executors, FailBatch(e)
  PROVE  \A d \in Commits, k \in Keys :
           by_commit'[d][k] = IF d = at[e] /\ k \in Stuck(e) THEN "FailedToRun"
                              ELSE by_commit[d][k]
  <1>1. at[e] \in Commits /\ by_commit \in [Commits -> Results]
    BY Handles DEF FailBatch, BaseInv, TypeOK, StoreTypeOK
  <1>2. update(at[e], [k \in Stuck(e) |-> "FailedToRun"])
    BY DEF FailBatch, Terminal
  <1>3. QED
    BY <1>1, <1>2, UpdateEffect

\* An entry that is in the map has a status: it is not None.
LEMMA InprogressNotNone == "Inprogress" # None /\ \A k \in Keys : NoResults[k] # "Inprogress"
  BY ConstantsOK DEF Status, NoResults

-------------------------------------------------------------------------------
(* Nothing runs before load() is through, and load() starts from nothing.  *)

LoadedInv == BaseInv /\ LoadInv

LEMMA InitLoaded == Init => LoadInv
  BY InprogressNotNone DEF Init, StoreInit, LoadInv, Existing

\* The executors only work once the results are loaded.
LEMMA ExecLoaded ==
  ASSUME LoadedInv, NEW e \in Executors, ExecStep(e)
  PROVE  LoadInv' /\ main \notin {"down", "load"} /\ UNCHANGED mainVars
  <1>1. main \notin {"down", "load"}
    <2>1. CASE pc[e] # "idle"
      BY <2>1 DEF LoadedInv, LoadInv
    <2>2. CASE pc[e] = "idle"
      <3>1. Claim(e)
        BY <2>2 DEF ExecStep, Announce, AnnounceStore, Setup, Prepare, RunVM, Pull, Merge,
                    Clean, FailBatch, Report
      <3>2. Existing # {}
        BY <3>1 DEF Claim, Pending, Existing
      <3>3. QED
        BY <3>2 DEF LoadedInv, LoadInv
    <2>3. QED
      BY <2>1, <2>2
  <1>2. UNCHANGED mainVars
    BY DEF ExecStep, Claim, Announce, AnnounceStore, Setup, Prepare, RunVM, Pull, Merge,
           Clean, FailBatch, Report
  <1>3. QED
    BY <1>1, <1>2 DEF LoadedInv, LoadInv

\* load() puts entries into the map of the commits it is done with, and no other
\* step touches the map before it is through.
LEMMA MainLoaded ==
  ASSUME LoadedInv, MainStep
  PROVE  LoadInv'
  <1> USE DEF LoadedInv
  <1>0. by_commit \in [Commits -> Results] /\ capnp \in [Commits -> Results]
    BY DEF BaseInv, TypeOK, StoreTypeOK
  <1>1. CASE Start
    BY <1>1 DEF Start, LoadInv, Existing, BaseInv, TypeOK, StoreTypeOK
  <1>2. CASE LoadRewrite
    BY <1>0, <1>2, InprogressNotNone DEF LoadRewrite, LoadInv, Existing, BaseInv, TypeOK
  <1>3. CASE Loaded
    BY <1>3 DEF Loaded, LoadInv
  <1>4. CASE RefillRetain \/ RefillTruncate \/ RefillDone \/ Upkeep \/ Drained
    BY <1>4 DEF RefillRetain, RefillTruncate, RefillDone, Upkeep, Drained, LoadInv
  <1>5. ASSUME NEW c \in Commits, LoadFresh(c)
        PROVE  LoadInv'
    BY <1>0, <1>5 DEF LoadFresh, LoadInv, Existing
  <1>6. ASSUME NEW c \in Commits, LoadStale(c)
        PROVE  LoadInv'
    <2>1. \A k \in Keys : Kept(c, clear)[k] # "Inprogress"
      BY InprogressNotNone DEF Kept, Stale, drop_status
    <2>2. QED
      BY <1>6, <2>1 DEF LoadStale, LoadInv, Existing
  <1>7. ASSUME NEW c \in Commits, RefillRead(c)
        PROVE  LoadInv'
    BY <1>7 DEF RefillRead, LoadInv
  <1>8. ASSUME NEW jk \in JobKeys, RefillSubmit(jk)
        PROVE  LoadInv'
    BY <1>8 DEF RefillSubmit, LoadInv
  <1>9. ASSUME NEW c \in Commits, LoadGone(c)
        PROVE  LoadInv'
    BY <1>9 DEF LoadGone, LoadInv, Existing
  <1>10. QED
    BY <1>1, <1>2, <1>3, <1>4, <1>5, <1>6, <1>7, <1>8, <1>9 DEF MainStep

LEMMA EnvLoaded ==
  ASSUME LoadedInv,
         Crash \/ (\E s \in Sources : FetchBranch(s)) \/ (\E c \in Commits : RmDirs(c))
           \/ RmUpdate \/ GcStep \/ UNCHANGED vars
  PROVE  LoadInv'
  <1>1. CASE Crash
    BY <1>1, InprogressNotNone DEF Crash, LoadInv, Existing
  <1>2. CASE ~Crash
    BY <1>2 DEF LoadedInv, LoadInv, Existing, FetchBranch, RmDirs, RmUpdate,
                commit_update_results, GcStep, GcDone, GcDir, GcCapnp, GcSubtest, vars
  <1>3. QED
    BY <1>1, <1>2

-------------------------------------------------------------------------------
(* What is in progress is owed.                                             *)

\* An executor that does not give up the subtests it owes keeps them owned.
LEMMA OwnedFrame ==
  ASSUME OwnedInv,
         \A c \in Commits, k \in Keys :
           by_commit'[c][k] = "Inprogress" => by_commit[c][k] = "Inprogress",
         \A e \in Executors : Busy(e) => Busy(e)' /\ at'[e] = at[e] /\ remaining'[e] = remaining[e]
  PROVE  OwnedInv'
  BY DEF OwnedInv

\* The main thread only loads entries that are not in progress.
LEMMA MainOwned ==
  ASSUME LoadedInv, OwnedInv, MainStep
  PROVE  OwnedInv'
  <1>0. by_commit \in [Commits -> Results] /\ capnp \in [Commits -> Results]
    BY DEF LoadedInv, BaseInv, TypeOK, StoreTypeOK
  <1>1. UNCHANGED execVars
    BY DEF MainStep, Start, LoadRewrite, Loaded, RefillRetain, RefillTruncate, RefillDone,
           Drained, LoadFresh, LoadStale, RefillRead, RefillSubmit, LoadGone, Upkeep
  <1>2. \A c \in Commits, k \in Keys :
          by_commit'[c][k] = "Inprogress" => by_commit[c][k] = "Inprogress"
    <2>1. CASE LoadRewrite
      BY <1>0, <2>1 DEF LoadRewrite, LoadedInv, LoadInv
    <2>2. ASSUME NEW c \in Commits, LoadFresh(c)
          PROVE  \A d \in Commits, k \in Keys :
                   by_commit'[d][k] = "Inprogress" => by_commit[d][k] = "Inprogress"
      BY <1>0, <2>2 DEF LoadFresh, Stale, drop_status
    <2>3. CASE ~LoadRewrite /\ \A c \in Commits : ~LoadFresh(c)
      <3>1. UNCHANGED by_commit
        BY <2>3 DEF MainStep, Start, Loaded, RefillRetain, RefillTruncate, RefillDone,
                    Drained, LoadStale, RefillRead, RefillSubmit, LoadGone, Upkeep
      <3>2. QED
        BY <3>1
    <2>4. QED
      BY <2>1, <2>2, <2>3
  <1>3. QED
    BY <1>1, <1>2, OwnedFrame DEF Busy

\* Only the executor that owes a subtest takes it out of progress, or starts it.
LEMMA ExecOwned ==
  ASSUME LoadedInv, OwnedInv, NEW e \in Executors, ExecStep(e)
  PROVE  OwnedInv'
  <1> USE DEF LoadedInv, BaseInv
  <1>0. /\ by_commit \in [Commits -> Results] /\ pc \in [Executors -> PCs]
        /\ at \in [Executors -> Commits \cup {None}]
        /\ remaining \in [Executors -> SUBSET Keys]
    BY DEF TypeOK, StoreTypeOK
  <1>1. CASE Claim(e)
    BY <1>0, <1>1, OwnedFrame DEF Claim, Busy, Goto
  <1>2. CASE Announce(e) \/ Setup(e) \/ Prepare(e) \/ RunVM(e) \/ Pull(e) \/ Clean(e)
    <2>1. UNCHANGED <<by_commit, at, remaining>>
      BY <1>2 DEF Announce, Setup, Prepare, RunVM, Pull, Clean
    <2>2. \A f \in Executors : Busy(f) => Busy(f)'
      BY <1>0, <1>2 DEF Announce, Setup, Prepare, RunVM, Pull, Clean, Goto, Busy
    <2>3. QED
      BY <2>1, <2>2, OwnedFrame
  <1>3. CASE AnnounceStore(e)
    <2>1. at[e] \in Commits /\ pc' = [pc EXCEPT ![e] = "setup"] /\ UNCHANGED <<at, remaining>>
      BY <1>3, Handles DEF AnnounceStore, Goto
    <2>2. \A d \in Commits, k \in Keys :
            by_commit'[d][k] = IF d = at[e] /\ k \in remaining[e] THEN "Inprogress"
                               ELSE by_commit[d][k]
      BY <1>3, AnnounceEffect
    <2>3. QED
      BY <1>0, <2>1, <2>2 DEF OwnedInv, Busy
  <1>4. CASE Merge(e)
    <2>1. at[e] \in Commits /\ UNCHANGED at /\ pc[e] = "merge"
      BY <1>4, Handles DEF Merge
    <2>2. \A d \in Commits, k \in Keys :
            by_commit'[d][k] = IF d = at[e] /\ k \in remaining[e] THEN PulledStatus(e, k)
                               ELSE by_commit[d][k]
      BY <1>4, MergeEffect
    <2>3. PICK l \in PCs : pc' = [pc EXCEPT ![e] = l] /\ l # "idle"
                           /\ (l = "report" => Unreached(e) = {})
      BY <1>4, <2>1 DEF Merge, NextLeg, Goto, PCs, BatchInv, Busy
    <2>4. remaining' = remaining \/ remaining' = [remaining EXCEPT ![e] = Unreached(e)]
      BY <1>4 DEF Merge, NextLeg
    <2>5. Unreached(e) \subseteq remaining[e]
      BY DEF Unreached
    <2>6. ASSUME NEW c \in Commits, NEW k \in Keys, by_commit'[c][k] = "Inprogress"
          PROVE  \E f \in Executors : Busy(f)' /\ at'[f] = c /\ k \in remaining'[f]
      <3>1. CASE c = at[e] /\ k \in remaining[e]
        <4>1. k \in Unreached(e)
          BY <2>2, <2>6, <3>1 DEF Unreached
        <4>2. Busy(e)' /\ k \in remaining'[e]
          BY <1>0, <2>3, <2>4, <2>5, <4>1 DEF Busy
        <4>3. QED
          BY <2>1, <3>1, <4>2
      <3>2. CASE ~(c = at[e] /\ k \in remaining[e])
        <4>1. PICK f \in Executors : Busy(f) /\ at[f] = c /\ k \in remaining[f]
          BY <2>2, <2>6, <3>2 DEF OwnedInv
        <4>2. f # e
          BY <3>2, <4>1
        <4>3. Busy(f)' /\ remaining'[f] = remaining[f]
          BY <1>0, <2>3, <2>4, <4>1, <4>2 DEF Busy
        <4>4. QED
          BY <2>1, <4>1, <4>3
      <3>3. QED
        BY <3>1, <3>2
    <2>7. QED
      BY <2>6 DEF OwnedInv
  <1>5. CASE FailBatch(e)
    <2>1. at[e] \in Commits /\ UNCHANGED <<at, remaining>> /\ pc[e] = "fail"
          /\ pc' = [pc EXCEPT ![e] = "report"]
      BY <1>5, Handles DEF FailBatch, Goto
    <2>2. \A d \in Commits, k \in Keys :
            by_commit'[d][k] = IF d = at[e] /\ k \in Stuck(e) THEN "FailedToRun"
                               ELSE by_commit[d][k]
      BY <1>5, FailEffect
    <2>3. remaining[e] \subseteq BatchKeys(e)
      BY <2>1 DEF BatchInv, Busy
    <2>4. ASSUME NEW c \in Commits, NEW k \in Keys, by_commit'[c][k] = "Inprogress"
          PROVE  \E f \in Executors : Busy(f)' /\ at'[f] = c /\ k \in remaining'[f]
      <3>1. by_commit[c][k] = "Inprogress" /\ ~(c = at[e] /\ k \in BatchKeys(e))
        BY <2>2, <2>4 DEF Stuck
      <3>2. PICK f \in Executors : Busy(f) /\ at[f] = c /\ k \in remaining[f]
        BY <3>1 DEF OwnedInv
      <3>3. f # e
        BY <2>3, <3>1, <3>2
      <3>4. QED
        BY <1>0, <2>1, <3>2, <3>3 DEF Busy
    <2>5. QED
      BY <2>4 DEF OwnedInv
  <1>6. CASE Report(e)
    <2>1. UNCHANGED by_commit /\ pc[e] = "report"
      BY <1>6 DEF Report
    <2>2. \A f \in Executors \ {e} :
            pc'[f] = pc[f] /\ at'[f] = at[f] /\ remaining'[f] = remaining[f]
      BY <1>0, <1>6 DEF Report, Goto
    <2>3. QED
      BY <2>1, <2>2, OwnedFrame DEF Busy
  <1>7. QED
    BY <1>1, <1>2, <1>3, <1>4, <1>5, <1>6 DEF ExecStep

LEMMA EnvOwned ==
  ASSUME LoadedInv, OwnedInv,
         Crash \/ (\E s \in Sources : FetchBranch(s)) \/ (\E c \in Commits : RmDirs(c))
           \/ RmUpdate \/ GcStep \/ UNCHANGED vars
  PROVE  OwnedInv'
  <1>1. CASE Crash
    BY <1>1, InprogressNotNone DEF Crash, OwnedInv
  <1>2. CASE ~Crash
    <2>1. UNCHANGED <<by_commit, execVars>>
      BY <1>2 DEF FetchBranch, RmDirs, RmUpdate, commit_update_results, GcStep, GcDone, GcDir,
                  GcCapnp, GcSubtest, vars
    <2>2. QED
      BY <2>1 DEF OwnedInv, Busy
  <1>3. QED
    BY <1>1, <1>2

OwingInv == LoadedInv /\ OwnedInv

LEMMA OwingStep ==
  ASSUME OwingInv, [Next]_vars
  PROVE  OwingInv'
  <1>1. BaseInv'
    BY BaseStep DEF OwingInv, LoadedInv
  <1>2. LoadInv' /\ OwnedInv'
    BY MainLoaded, ExecLoaded, EnvLoaded, MainOwned, ExecOwned, EnvOwned DEF OwingInv, Next
  <1>3. QED
    BY <1>1, <1>2 DEF OwingInv, LoadedInv

LEMMA OwingInvariant == Spec => []OwingInv
  <1>1. Init => OwingInv
    BY InitBase, InitLoaded, InprogressNotNone DEF OwingInv, LoadedInv, OwnedInv, Init, StoreInit
  <1>2. QED
    BY <1>1, OwingStep, PTL DEF Spec

\* A subtest the store has in progress is never forgotten: some executor still owes
\* its verdict, for any number of executors, crashes, restarts and rm-results runs.
THEOREM InprogressOwned == Spec => []InprogressIsOwned
  <1>1. OwingInv => InprogressIsOwned
    BY DEF OwingInv, OwnedInv, InprogressIsOwned, Busy
  <1>2. QED
    BY <1>1, OwingInvariant, PTL

-------------------------------------------------------------------------------
(* Jobs stay within the commits of their own source.                        *)

LEMMA InitScope == Init => ScopeInv
  BY DEF Init, ScopeInv, Reach, Unfinished

LEMMA ScopeStep ==
  ASSUME BaseInv, ScopeInv, [Next]_vars
  PROVE  ScopeInv'
  <1> USE DEF BaseInv
  <1>0. /\ branches \in [Sources -> SUBSET Commits]
        /\ jobSt \in [JobIds -> {"none", "pending", "running", "finished"}]
        /\ jobKey \in [JobIds -> JobKeys \cup {None}]
        /\ desired \subseteq JobKeys
    BY DEF TypeOK
  <1>1. CASE RefillRetain
    <2>1. \A id \in Unfinished' : id \in Unfinished /\ jobKey'[id] = jobKey[id]
      BY <1>0, <1>1 DEF RefillRetain, Unfinished
    <2>2. \A sc \in specs' : sc[2] \in branches[sc[1]] /\ sc[1] \in Sources
      BY <1>1 DEF RefillRetain
    <2>3. UNCHANGED branches /\ desired' = {}
      BY <1>1 DEF RefillRetain
    <2>4. QED
      BY <2>1, <2>2, <2>3 DEF ScopeInv, Reach
  <1>2. ASSUME NEW c \in Commits, RefillRead(c)
        PROVE  ScopeInv'
    <2>1. \A jk \in WantedAt(c) : jk.commit \in Reach(jk.source)
      BY DEF WantedAt, ScopeInv
    <2>2. QED
      BY <1>2, <2>1 DEF RefillRead, ScopeInv, Unfinished
  <1>3. ASSUME NEW jk \in JobKeys, RefillSubmit(jk)
        PROVE  ScopeInv'
    <2>1. CASE UNCHANGED choirVars
      BY <1>3, <2>1 DEF RefillSubmit, ScopeInv, Unfinished
    <2>2. CASE ~UNCHANGED choirVars
      <3> DEFINE id == CHOOSE i \in JobIds : i \notin Existing
      <3>1. id \in JobIds
        BY <1>3, <2>2, FreeId DEF RefillSubmit
      <3>2. /\ jobSt' = [jobSt EXCEPT ![id] = "pending"]
            /\ jobKey' = [jobKey EXCEPT ![id] = jk]
        BY <1>3, <2>2 DEF RefillSubmit
      <3>3. jk \in desired /\ desired' \subseteq desired /\ UNCHANGED <<branches, specs>>
        BY <1>3 DEF RefillSubmit
      <3> HIDE DEF id
      <3>4. \A j \in Unfinished' : jobKey'[j] = jk \/ (j \in Unfinished /\ jobKey'[j] = jobKey[j])
        BY <1>0, <3>1, <3>2 DEF Unfinished
      <3>5. QED
        BY <3>3, <3>4 DEF ScopeInv
    <2>3. QED
      BY <2>1, <2>2
  <1>4. CASE RefillTruncate \/ RefillDone \/ Upkeep
    BY <1>4 DEF RefillTruncate, RefillDone, Upkeep, ScopeInv, Unfinished
  <1>5. ASSUME NEW s \in Sources, FetchBranch(s)
        PROVE  ScopeInv'
    <2>1. \A t \in Sources : branches'[t] = branches[t] \/ branches'[t] \in Walks[t]
      BY <1>0, <1>5 DEF FetchBranch
    <2>2. QED
      BY <1>5, <2>1 DEF FetchBranch, ScopeInv, Unfinished, Reach
  <1>6. ASSUME NEW e \in Executors, ExecStep(e)
        PROVE  ScopeInv'
    <2>1. UNCHANGED <<mainVars, branches, jobKey>>
      BY <1>6 DEF ExecStep, Claim, Announce, AnnounceStore, Setup, Prepare, RunVM, Pull,
                  Merge, Clean, FailBatch, Report
    <2>2. Unfinished' \subseteq Unfinished
      <3>1. CASE Claim(e)
        BY <1>0, <3>1 DEF Claim, Unfinished, Pending
      <3>2. CASE Report(e)
        BY <1>0, <3>2 DEF Report, Unfinished
      <3>3. CASE ~Claim(e) /\ ~Report(e)
        BY <1>6, <3>3 DEF ExecStep, Announce, AnnounceStore, Setup, Prepare, RunVM, Pull,
                          Merge, Clean, FailBatch, Unfinished
      <3>4. QED
        BY <3>1, <3>2, <3>3
    <2>3. QED
      BY <2>1, <2>2 DEF ScopeInv
  <1>7. CASE Crash
    BY <1>7 DEF Crash, ScopeInv, Unfinished
  <1>8. CASE Start \/ LoadRewrite \/ Loaded \/ Drained \/ RmUpdate \/ GcStep \/ UNCHANGED vars
             \/ \E c \in Commits : LoadGone(c) \/ LoadFresh(c) \/ LoadStale(c) \/ RmDirs(c)
    <2>1. UNCHANGED <<specs, desired, branches, choirVars>>
      BY <1>8 DEF Start, LoadRewrite, Loaded, Drained, RmUpdate, LoadFresh, LoadStale,
                  LoadGone, RmDirs, GcStep, GcDone, GcDir, GcCapnp, GcSubtest, vars
    <2>2. QED
      BY <2>1 DEF ScopeInv, Unfinished
  <1>9. QED
    BY <1>1, <1>2, <1>3, <1>4, <1>5, <1>6, <1>7, <1>8 DEF Next, MainStep

-------------------------------------------------------------------------------
(* A verdict is final.  Results are kept per commit and subtest, jobs per   *)
(* source as well: as long as no commit belongs to two sources, a commit    *)
(* and a subtest determine the job, and with it the executor that runs it.  *)

VerdictInv == OwingInv /\ ScopeInv /\ FreshInv /\ OwedInv

\* The one job that a subtest of a batch can be asked for by.
LEMMA SameJob ==
  ASSUME Exclusive, BaseInv, ScopeInv, NEW e \in Executors, NEW k \in BatchKeys(e),
         NEW jk \in JobKeys, jk.commit = at[e], jk.key = k, at[e] \in Reach(jk.source)
  PROVE  \E id \in batch[e] : jobKey[id] = jk /\ jobSt[id] = "running" /\ job_map[jk] = id
  <1>1. PICK id \in batch[e] : jobKey[id].key = k
    BY DEF BatchKeys, KeysOf
  <1>2. id \in JobIds /\ jobKey[id] \in JobKeys /\ id \in Unfinished
        /\ jobKey[id].commit = at[e] /\ jobSt[id] = "running"
    BY Handles DEF BaseInv, BatchInv, Unfinished
  <1>3. at[e] \in Reach(jobKey[id].source)
    BY <1>2 DEF ScopeInv
  <1>4. jobKey[id].source = jk.source
    BY <1>2, <1>3 DEF Exclusive, JobKeys
  <1>5. jobKey[id] = jk
    BY <1>1, <1>2, <1>4 DEF JobKeys
  <1>6. QED
    BY <1>2, <1>5 DEF BaseInv, ChoirInv

\* Two executors at one commit have no subtest in common.
LEMMA Disjoint ==
  ASSUME Exclusive, BaseInv, ScopeInv, NEW e \in Executors, NEW f \in Executors, e # f,
         at[e] = at[f]
  PROVE  BatchKeys(e) \cap BatchKeys(f) = {}
  <1> SUFFICES ASSUME NEW k \in BatchKeys(e), k \in BatchKeys(f) PROVE FALSE
    OBVIOUS
  <1>1. PICK i \in batch[e] : jobKey[i].key = k
    BY DEF BatchKeys, KeysOf
  <1>2. i \in Unfinished /\ jobKey[i] \in JobKeys /\ jobKey[i].commit = at[f]
    BY Handles DEF BaseInv, BatchInv, Unfinished
  <1>3. at[f] \in Reach(jobKey[i].source)
    BY <1>2 DEF ScopeInv
  <1>4. \E j \in batch[f] : job_map[jobKey[i]] = j
    BY <1>1, <1>2, <1>3, SameJob
  <1>5. i \in batch[f]
    BY <1>2, <1>4 DEF BaseInv, ChoirInv
  <1>6. QED
    BY <1>1, <1>5 DEF BaseInv, BatchInv

\* An executor only writes to subtests of its own batch.
LEMMA ExecWrites ==
  ASSUME OwingInv, NEW e \in Executors, ExecStep(e),
         NEW c \in Commits, NEW k \in Keys, by_commit'[c][k] # by_commit[c][k]
  PROVE  c = at[e] /\ k \in BatchKeys(e) /\ Busy(e)
  <1> USE DEF OwingInv, LoadedInv, BaseInv
  <1>1. CASE AnnounceStore(e)
    BY <1>1, AnnounceEffect DEF AnnounceStore, BatchInv, Busy
  <1>2. CASE Merge(e)
    <2>1. c = at[e] /\ k \in remaining[e]
      BY <1>2, MergeEffect
    <2>2. pc[e] = "merge"
      BY <1>2 DEF Merge
    <2>3. QED
      BY <2>1, <2>2 DEF BatchInv, Busy
  <1>3. CASE FailBatch(e)
    <2>1. c = at[e] /\ k \in Stuck(e)
      BY <1>3, FailEffect
    <2>2. QED
      BY <1>3, <2>1 DEF FailBatch, Stuck, Busy
  <1>4. CASE ~AnnounceStore(e) /\ ~Merge(e) /\ ~FailBatch(e)
    <2>1. UNCHANGED by_commit
      BY <1>4 DEF ExecStep, Claim, Announce, Setup, Prepare, RunVM, Pull, Clean, Report
    <2>2. QED
      BY <2>1
  <1>5. QED
    BY <1>1, <1>2, <1>3, <1>4

\* Nothing but an executor or load() writes to the map while the daemon lives.
LEMMA MainWrites ==
  ASSUME LoadedInv, MainStep, main # "load"
  PROVE  UNCHANGED by_commit
  BY DEF MainStep, Start, LoadRewrite, LoadFresh, LoadStale, Loaded, RefillRetain,
         RefillTruncate, RefillDone, Drained, RefillRead, RefillSubmit, LoadGone, Upkeep,
         LoadedInv, LoadInv

\* A waiting job gets no verdict from somebody else's batch.
LEMMA ExecFresh ==
  ASSUME Exclusive, VerdictInv, NEW e \in Executors, ExecStep(e)
  PROVE  FreshInv'
  <1> USE DEF VerdictInv, OwingInv, LoadedInv
  <1>0. /\ jobSt \in [JobIds -> {"none", "pending", "running", "finished"}]
        /\ desired \subseteq JobKeys
    BY DEF BaseInv, TypeOK
  <1>1. UNCHANGED <<jobKey, job_map, desired>>
    BY DEF ExecStep, Claim, Announce, AnnounceStore, Setup, Prepare, RunVM, Pull, Merge,
           Clean, FailBatch, Report
  <1>2. Pending' \subseteq Pending
    <2>1. CASE Claim(e)
      BY <1>0, <2>1 DEF Claim, Pending
    <2>2. CASE Report(e)
      BY <1>0, <2>2 DEF Report, Pending
    <2>3. CASE ~Claim(e) /\ ~Report(e)
      BY <2>3 DEF ExecStep, Announce, AnnounceStore, Setup, Prepare, RunVM, Pull, Merge,
                  Clean, FailBatch, Pending
    <2>4. QED
      BY <2>1, <2>2, <2>3
  <1>3. ASSUME NEW jk \in JobKeys, jk.commit \in Reach(jk.source),
               by_commit'[jk.commit][jk.key] # by_commit[jk.commit][jk.key]
        PROVE  \E id \in batch[e] : jobSt[id] = "running" /\ job_map[jk] = id
    <2>1. jk.commit = at[e] /\ jk.key \in BatchKeys(e)
      BY <1>3, ExecWrites DEF JobKeys
    <2>2. QED
      BY <1>3, <2>1, SameJob
  <1>4. ASSUME NEW id \in Pending
        PROVE  ~result_is_done(by_commit'[jobKey[id].commit][jobKey[id].key])
    <2>1. id \in Unfinished /\ jobKey[id] \in JobKeys /\ jobSt[id] = "pending"
      BY Handles DEF Pending, Unfinished
    <2>2. job_map[jobKey[id]] = id /\ jobKey[id].commit \in Reach(jobKey[id].source)
      BY <2>1 DEF BaseInv, ChoirInv, ScopeInv
    <2>3. by_commit'[jobKey[id].commit][jobKey[id].key]
            = by_commit[jobKey[id].commit][jobKey[id].key]
      BY <1>3, <2>1, <2>2
    <2>4. QED
      BY <2>3 DEF FreshInv
  <1>5. ASSUME NEW jk \in desired, job_map[jk] = None
        PROVE  ~result_is_done(by_commit'[jk.commit][jk.key])
    <2>1. jk \in JobKeys /\ jk.commit \in Reach(jk.source)
      BY <1>0 DEF ScopeInv
    <2>2. \A id \in batch[e] : id # None
      BY Handles, ConstantsOK
    <2>3. by_commit'[jk.commit][jk.key] = by_commit[jk.commit][jk.key]
      BY <1>3, <1>5, <2>1, <2>2
    <2>4. QED
      BY <1>5, <2>3 DEF FreshInv
  <1>6. QED
    BY <1>1, <1>2, <1>4, <1>5 DEF FreshInv

\* refill() only submits what has no verdict, although it looks at the results of
\* one commit after the other while executors record new ones.
LEMMA MainFresh ==
  ASSUME VerdictInv, MainStep
  PROVE  FreshInv'
  <1> USE DEF VerdictInv, OwingInv, LoadedInv
  <1>0. /\ jobSt \in [JobIds -> {"none", "pending", "running", "finished"}]
        /\ jobKey \in [JobIds -> JobKeys \cup {None}]
        /\ job_map \in [JobKeys -> JobIds \cup {None}]
        /\ desired \subseteq JobKeys
    BY DEF BaseInv, TypeOK
  <1>1. CASE main \in {"down", "load"}
    <2>1. UNCHANGED <<jobSt, desired>>
      BY <1>1 DEF MainStep, Start, LoadRewrite, LoadFresh, LoadStale, Loaded, RefillRetain,
                  RefillTruncate, RefillDone, Drained, RefillRead, RefillSubmit, LoadGone,
                  Upkeep, LoadInv
    <2>2. Existing = {} /\ desired = {}
      BY <1>1 DEF LoadInv
    <2>3. QED
      BY <2>1, <2>2 DEF FreshInv, Pending, Existing
  <1>2. CASE main \notin {"down", "load"}
    <2>1. UNCHANGED by_commit
      BY <1>2, MainWrites
    <2>2. CASE RefillRetain
      <3>1. \A id \in Pending' : id \in Pending /\ jobKey'[id] = jobKey[id]
        BY <1>0, <2>2 DEF RefillRetain, Pending, Unfinished
      <3>2. QED
        BY <2>1, <2>2, <3>1 DEF RefillRetain, FreshInv
    <2>3. ASSUME NEW c \in Commits, RefillRead(c)
          PROVE  FreshInv'
      <3>1. \A jk \in WantedAt(c) : ~result_is_done(by_commit[jk.commit][jk.key])
        BY ConstantsOK DEF WantedAt, job_wanted, result_is_done, Status
      <3>2. QED
        BY <2>1, <2>3, <3>1 DEF RefillRead, FreshInv, Pending
    <2>4. ASSUME NEW jk \in JobKeys, RefillSubmit(jk)
          PROVE  FreshInv'
      <3>1. CASE UNCHANGED <<choirVars, job_map>>
        BY <2>1, <2>4, <3>1 DEF RefillSubmit, FreshInv, Pending
      <3>2. CASE ~UNCHANGED <<choirVars, job_map>>
        <4> DEFINE id == CHOOSE i \in JobIds : i \notin Existing
        <4>1. id \in JobIds
          BY <2>4, <3>2, FreeId DEF RefillSubmit
        <4>2. /\ jobSt' = [jobSt EXCEPT ![id] = "pending"]
              /\ jobKey' = [jobKey EXCEPT ![id] = jk]
              /\ job_map' = [job_map EXCEPT ![jk] = id]
              /\ job_map[jk] = None /\ jk \in desired /\ desired' = desired \ {jk}
          BY <2>4, <3>2 DEF RefillSubmit, Tracked
        <4> HIDE DEF id
        <4>3. \A j \in Pending' : jobKey'[j] = jk \/ (j \in Pending /\ jobKey'[j] = jobKey[j])
          BY <1>0, <4>1, <4>2 DEF Pending
        <4>4. \A q \in desired' : q \in desired /\ job_map'[q] = job_map[q]
          BY <1>0, <4>2
        <4>5. QED
          BY <2>1, <4>2, <4>3, <4>4 DEF FreshInv
      <3>3. QED
        BY <3>1, <3>2
    <2>5. CASE RefillTruncate \/ RefillDone \/ Upkeep \/ Drained
      BY <2>1, <2>5 DEF RefillTruncate, RefillDone, Upkeep, Drained, FreshInv, Pending
    <2>6. QED
      BY <1>2, <2>2, <2>3, <2>4, <2>5
         DEF MainStep, Start, Loaded, LoadGone, LoadFresh, LoadStale, LoadRewrite, LoadInv
  <1>3. QED
    BY <1>1, <1>2

\* An executor's step leaves the subtests that others owe as they are.
LEMMA OthersOwed ==
  ASSUME Exclusive, VerdictInv, NEW e \in Executors, ExecStep(e),
         NEW f \in Executors, f # e, NEW k \in remaining[f], Busy(f)
  PROVE  by_commit'[at[f]][k] = by_commit[at[f]][k]
  <1> USE DEF VerdictInv, OwingInv, LoadedInv
  <1>1. at[f] \in Commits /\ k \in Keys /\ k \in BatchKeys(f)
    BY Handles DEF BaseInv, BatchInv, Busy, TypeOK
  <1>2. SUFFICES ASSUME by_commit'[at[f]][k] # by_commit[at[f]][k] PROVE FALSE
    OBVIOUS
  <1>3. at[f] = at[e] /\ k \in BatchKeys(e)
    BY <1>1, <1>2, ExecWrites
  <1>4. QED
    BY <1>1, <1>3, Disjoint

\* Working through a batch keeps its debts: no verdict before the announcement, in
\* progress afterwards.
LEMMA ExecOwed ==
  ASSUME Exclusive, VerdictInv, NEW e \in Executors, ExecStep(e)
  PROVE  OwedInv'
  <1> USE DEF VerdictInv, OwingInv, LoadedInv
  <1>0. /\ pc \in [Executors -> PCs] /\ at \in [Executors -> Commits \cup {None}]
        /\ remaining \in [Executors -> SUBSET Keys]
    BY DEF BaseInv, TypeOK
  <1> DEFINE Debt(f, k) ==
        /\ pc[f] \in {"claimed", "announce"} => ~result_is_done(by_commit[at[f]][k])
        /\ pc[f] \in {"setup", "prepare", "run", "pull", "merge", "clean"} =>
             by_commit[at[f]][k] = "Inprogress"
  <1>1. ASSUME NEW f \in Executors \ {e}, NEW k \in remaining'[f]
        PROVE  Debt(f, k)'
    <2>1. pc'[f] = pc[f] /\ at'[f] = at[f] /\ remaining'[f] = remaining[f]
      <3>1. CASE Merge(e)
        BY <1>0, <3>1 DEF Merge, NextLeg, Goto
      <3>2. CASE Claim(e)
        BY <1>0, <3>2 DEF Claim, Goto
      <3>3. CASE Report(e)
        BY <1>0, <3>3 DEF Report, Goto
      <3>4. CASE ~Merge(e) /\ ~Claim(e) /\ ~Report(e)
        BY <1>0, <3>4 DEF ExecStep, Announce, AnnounceStore, Setup, Prepare, RunVM, Pull,
                          Clean, FailBatch, Goto
      <3>5. QED
        BY <3>1, <3>2, <3>3, <3>4
    <2>2. CASE ~Busy(f)
      BY <2>1, <2>2 DEF Busy
    <2>3. CASE Busy(f)
      <3>1. by_commit'[at[f]][k] = by_commit[at[f]][k]
        BY <1>1, <2>1, <2>3, OthersOwed
      <3>2. QED
        BY <1>1, <2>1, <3>1 DEF OwedInv
    <2>4. QED
      BY <2>2, <2>3
  <1>2. ASSUME NEW k \in remaining'[e]
        PROVE  Debt(e, k)'
    <2>1. CASE Claim(e)
      <3>1. PICK ids \in SUBSET Pending \ {{}} :
              /\ \A i, j \in ids : batch_key(i) = batch_key(j)
              /\ \E c \in {jobKey[id].commit : id \in ids} : at' = [at EXCEPT ![e] = c]
              /\ remaining' = [remaining EXCEPT ![e] = KeysOf(ids)]
        BY <2>1 DEF Claim
      <3>2. PICK id \in ids : jobKey[id].key = k
        BY <1>0, <1>2, <3>1 DEF KeysOf
      <3>3. at'[e] = jobKey[id].commit
        BY <1>0, <3>1 DEF batch_key
      <3>4. pc'[e] = "claimed" /\ UNCHANGED by_commit
        BY <1>0, <2>1 DEF Claim, Goto
      <3>5. ~result_is_done(by_commit[jobKey[id].commit][jobKey[id].key])
        BY DEF FreshInv
      <3>6. QED
        BY <3>2, <3>3, <3>4, <3>5
    <2>2. CASE Announce(e)
      BY <1>0, <1>2, <2>2 DEF Announce, Goto, OwedInv
    <2>3. CASE AnnounceStore(e)
      <3>1. pc'[e] = "setup" /\ at'[e] = at[e] /\ k \in remaining[e] /\ k \in Keys
        BY <1>0, <1>2, <2>3 DEF AnnounceStore, Goto
      <3>2. at[e] \in Commits
        BY <2>3, Handles DEF AnnounceStore
      <3>3. by_commit'[at[e]][k] = "Inprogress"
        BY <2>3, <3>1, <3>2, AnnounceEffect
      <3>4. QED
        BY <3>1, <3>3
    <2>4. CASE Setup(e) \/ Prepare(e) \/ RunVM(e) \/ Pull(e) \/ Clean(e)
      <3>1. UNCHANGED <<by_commit, at, remaining>>
            /\ pc[e] \in {"setup", "prepare", "run", "pull", "clean"}
        BY <2>4 DEF Setup, Prepare, RunVM, Pull, Clean
      <3>2. pc'[e] \notin {"claimed", "announce"}
        BY <1>0, <2>4 DEF Setup, Prepare, RunVM, Pull, Clean, Goto
      <3>3. QED
        BY <1>2, <3>1, <3>2 DEF OwedInv
    <2>5. CASE Merge(e)
      <3>1. at'[e] = at[e] /\ pc[e] = "merge" /\ at[e] \in Commits
        BY <2>5, Handles DEF Merge
      <3>2. pc'[e] \in {"run", "clean", "fail", "report"}
        BY <1>0, <2>5 DEF Merge, NextLeg, Goto
      <3>3. remaining'[e] = Unreached(e)
        BY <1>0, <2>5 DEF Merge, NextLeg
      <3>4. k \in remaining[e] /\ k \in Keys /\ PulledStatus(e, k) = "Inprogress"
        BY <1>0, <1>2, <3>3 DEF Unreached
      <3>5. by_commit'[at[e]][k] = "Inprogress"
        BY <2>5, <3>1, <3>4, MergeEffect
      <3>6. QED
        BY <3>1, <3>2, <3>5
    <2>6. CASE FailBatch(e)
      BY <1>0, <2>6 DEF FailBatch, Goto
    <2>7. CASE Report(e)
      BY <1>0, <2>7 DEF Report, Goto
    <2>8. QED
      BY <2>1, <2>2, <2>3, <2>4, <2>5, <2>6, <2>7 DEF ExecStep
  <1>3. QED
    BY <1>1, <1>2 DEF OwedInv

\* While load() writes to the map, no executor owes anything.
LEMMA MainOwed ==
  ASSUME VerdictInv, MainStep
  PROVE  OwedInv'
  <1> USE DEF VerdictInv, OwingInv, LoadedInv
  <1>1. UNCHANGED execVars
    BY DEF MainStep, Start, LoadRewrite, Loaded, RefillRetain, RefillTruncate, RefillDone,
           Drained, LoadFresh, LoadStale, RefillRead, RefillSubmit, LoadGone, Upkeep
  <1>2. CASE main = "load"
    BY <1>1, <1>2 DEF LoadInv, OwedInv
  <1>3. CASE main # "load"
    BY <1>1, <1>3, MainWrites DEF OwedInv
  <1>4. QED
    BY <1>2, <1>3

LEMMA EnvVerdicts ==
  ASSUME VerdictInv,
         Crash \/ (\E s \in Sources : FetchBranch(s)) \/ (\E c \in Commits : RmDirs(c))
           \/ RmUpdate \/ GcStep \/ UNCHANGED vars
  PROVE  FreshInv' /\ OwedInv'
  <1>1. CASE Crash
    BY <1>1 DEF Crash, FreshInv, OwedInv, Pending
  <1>2. CASE ~Crash
    <2>1. UNCHANGED <<by_commit, choirVars, job_map, desired, execVars>>
      BY <1>2 DEF FetchBranch, RmDirs, RmUpdate, commit_update_results, GcStep, GcDone, GcDir,
                  GcCapnp, GcSubtest, vars
    <2>2. QED
      BY <2>1 DEF VerdictInv, FreshInv, OwedInv, Pending
  <1>3. QED
    BY <1>1, <1>2

LEMMA VerdictStep ==
  ASSUME Exclusive, VerdictInv, [Next]_vars
  PROVE  VerdictInv'
  <1>1. OwingInv' /\ ScopeInv'
    BY OwingStep, ScopeStep DEF VerdictInv, OwingInv, LoadedInv
  <1>2. FreshInv' /\ OwedInv'
    BY MainFresh, ExecFresh, MainOwed, ExecOwed, EnvVerdicts DEF Next
  <1>3. QED
    BY <1>1, <1>2 DEF VerdictInv

LEMMA VerdictInvariant ==
  ASSUME Exclusive
  PROVE  Spec => []VerdictInv
  <1>1. Init => VerdictInv
    <2>1. Init => OwingInv
      BY InitBase, InitLoaded, InprogressNotNone
         DEF OwingInv, LoadedInv, OwnedInv, Init, StoreInit
    <2>2. Init => FreshInv /\ OwedInv
      BY DEF Init, FreshInv, OwedInv, Pending
    <2>3. QED
      BY <2>1, <2>2, InitScope DEF VerdictInv
  <1>2. VerdictInv /\ [Next]_vars => VerdictInv'
    BY VerdictStep
  <1>3. QED
    BY <1>1, <1>2, PTL DEF Spec

\* When no commit belongs to two sources, no subtest is ever in two VMs: batches at
\* one commit are disjoint.
THEOREM NoDoubleRuns ==
  ASSUME Exclusive
  PROVE  Spec => []NoDoubleRun
  <1>1. VerdictInv => NoDoubleRun
    BY Disjoint DEF VerdictInv, OwingInv, LoadedInv, NoDoubleRun
  <1>2. QED
    BY <1>1, VerdictInvariant, PTL

\* The first verdict stands, under the same condition: no executor, refill, rm-results or
\* gc-results run changes a verdict of a daemon that stays up.
THEOREM VerdictsStand ==
  ASSUME Exclusive
  PROVE  Spec => VerdictStands
  <1>1. ASSUME VerdictInv, [Next]_vars, NEW c \in Commits, NEW k \in Keys,
               result_is_done(by_commit[c][k]), main' # "down"
        PROVE  by_commit'[c][k] = by_commit[c][k]
    <2> USE DEF VerdictInv, OwingInv, LoadedInv
    <2>0. by_commit \in [Commits -> Results]
      BY <1>1 DEF BaseInv, TypeOK, StoreTypeOK
    <2>1. CASE MainStep
      <3>1. CASE main # "load"
        BY <1>1, <2>1, <3>1, MainWrites
      <3>2. CASE main = "load"
        <4>1. c \notin todo
          BY <1>1, <3>2, ConstantsOK DEF LoadInv, NoResults, result_is_done, Status
        <4>2. \A d \in Commits \ todo : by_commit'[d] = by_commit[d]
          BY <1>1, <2>0, <2>1, <3>2 DEF MainStep, Start, LoadRewrite, LoadFresh, LoadStale, Loaded,
               RefillRetain, RefillTruncate, RefillDone, Drained, RefillRead, RefillSubmit, LoadGone,
               Upkeep, LoadInv
        <4>3. QED
          BY <4>1, <4>2
      <3>3. QED
        BY <3>1, <3>2
    <2>2. ASSUME NEW e \in Executors, ExecStep(e)
          PROVE  by_commit'[c][k] = by_commit[c][k]
      <3>1. CASE AnnounceStore(e)
        BY <1>1, <3>1, AnnounceEffect DEF AnnounceStore, OwedInv
      <3>2. CASE Merge(e)
        <4>1. ~(c = at[e] /\ k \in remaining[e])
          BY <1>1, <3>2 DEF Merge, OwedInv, result_is_done
        <4>2. QED
          BY <1>1, <3>2, <4>1, MergeEffect
      <3>3. CASE FailBatch(e)
        <4>1. ~(c = at[e] /\ k \in Stuck(e))
          BY <1>1 DEF Stuck, result_is_done
        <4>2. QED
          BY <1>1, <3>3, <4>1, FailEffect
      <3>4. CASE ~AnnounceStore(e) /\ ~Merge(e) /\ ~FailBatch(e)
        BY <2>2, <3>4 DEF ExecStep, Claim, Announce, Setup, Prepare, RunVM, Pull, Clean, Report
      <3>5. QED
        BY <3>1, <3>2, <3>3, <3>4
    <2>3. CASE ~MainStep /\ \A e \in Executors : ~ExecStep(e)
      BY <1>1, <2>3 DEF Next, Crash, FetchBranch, RmDirs, RmUpdate, commit_update_results, GcStep,
                        GcDone, GcDir, GcCapnp, GcSubtest, vars
    <2>4. QED
      BY <2>1, <2>2, <2>3
  <1>2. VerdictInv /\ [Next]_vars =>
          [\A c \in Commits, k \in Keys :
             result_is_done(by_commit[c][k]) /\ main' # "down" =>
               by_commit'[c][k] = by_commit[c][k]]_vars
    BY <1>1
  <1>3. QED
    BY <1>2, VerdictInvariant, PTL DEF Spec, VerdictStands

-----------------------------------------------------------------------------
(* The published .capnp files, as long as no rm-results rewrites them      *)
(* (MaxRm = 0) and no gc-results removes them (MaxGc = 0).  A write may be  *)
(* lost; what a file shows is still never wrong, and the files implement   *)
(* the ResultLedger.                                                       *)

RenderedInv == LoadedInv /\ DirInv /\ RenderInv

\* update() writes the map it just merged, or leaves the file as it was.
LEMMA UpdateRenders ==
  ASSUME NEW c \in Commits, NEW upd, update(c, upd), write_errors \in Nat,
         by_commit \in [Commits -> Results], capnp \in [Commits -> Results]
  PROVE  /\ \A d \in Commits \ {c} : capnp'[d] = capnp[d] /\ by_commit'[d] = by_commit[d]
         /\ capnp'[c] \in {capnp[c], by_commit'[c]}
         /\ write_errors' = 0 =>
              /\ write_errors = 0
              /\ capnp'[c] = by_commit'[c] \/ (capnp'[c] = capnp[c] /\ by_commit'[c] = by_commit[c])
  <1>1. CASE DOMAIN upd = {}
    BY <1>1 DEF update
  <1>2. CASE DOMAIN upd # {}
    <2>1. /\ by_commit' = [by_commit EXCEPT ![c] = Merged(c, upd)]
          /\ results_to_capnp(c, Merged(c, upd))
      BY <1>2 DEF update
    <2>2. /\ capnp' \in {capnp, [capnp EXCEPT ![c] = Merged(c, upd)]}
          /\ write_errors' = 0 =>
               write_errors = 0 /\ capnp' = [capnp EXCEPT ![c] = Merged(c, upd)]
      BY <2>1, WriteEffect
    <2>3. QED
      BY <2>1, <2>2
  <1>3. QED
    BY <1>1, <1>2

\* What an executor's step does to the files: nothing, or an update() of its commit.
LEMMA ExecFile ==
  ASSUME LoadedInv, NEW e \in Executors, ExecStep(e)
  PROVE  /\ \A c \in Commits : c # at[e] => capnp'[c] = capnp[c] /\ by_commit'[c] = by_commit[c]
         /\ \A c \in Commits : capnp'[c] \in {capnp[c], by_commit'[c]}
         /\ write_errors' = 0 =>
              /\ write_errors = 0
              /\ \A c \in Commits : \/ capnp'[c] = by_commit'[c]
                                    \/ capnp'[c] = capnp[c] /\ by_commit'[c] = by_commit[c]
  <1>0. /\ by_commit \in [Commits -> Results] /\ capnp \in [Commits -> Results]
        /\ write_errors \in Nat
    BY DEF LoadedInv, BaseInv, TypeOK, StoreTypeOK
  <1>1. CASE AnnounceStore(e) \/ Merge(e) \/ FailBatch(e)
    <2>1. at[e] \in Commits
      BY <1>1, Handles DEF AnnounceStore, Merge, FailBatch, LoadedInv
    <2>2. PICK upd : update(at[e], upd)
      BY <1>1 DEF AnnounceStore, Merge, FailBatch
    <2>3. /\ \A d \in Commits \ {at[e]} : capnp'[d] = capnp[d] /\ by_commit'[d] = by_commit[d]
          /\ capnp'[at[e]] \in {capnp[at[e]], by_commit'[at[e]]}
          /\ write_errors' = 0 =>
               /\ write_errors = 0
               /\ \/ capnp'[at[e]] = by_commit'[at[e]]
                  \/ capnp'[at[e]] = capnp[at[e]] /\ by_commit'[at[e]] = by_commit[at[e]]
      BY <1>0, <2>1, <2>2, UpdateRenders
    <2>4. QED
      BY <2>3
  <1>2. CASE ~AnnounceStore(e) /\ ~Merge(e) /\ ~FailBatch(e)
    <2>1. UNCHANGED <<by_commit, capnp, write_errors>>
      BY <1>2 DEF ExecStep, Claim, Announce, Setup, Prepare, RunVM, Pull, Clean, Report
    <2>2. QED
      BY <2>1
  <1>3. QED
    BY <1>1, <1>2

\* What an executor's step does to the map is a move of the ledger.
LEMMA ExecMoves ==
  ASSUME VerdictInv, NEW e \in Executors, ExecStep(e), NEW c \in Commits, NEW k \in Keys
  PROVE  Ledger!MayMove(by_commit[c][k], by_commit'[c][k])
  <1> USE DEF VerdictInv, OwingInv, LoadedInv
  <1>1. CASE AnnounceStore(e)
    <2>1. k \in remaining[e] /\ c = at[e] => ~result_is_done(by_commit[c][k])
      BY <1>1 DEF AnnounceStore, OwedInv
    <2>2. by_commit[c][k] \in Status \cup {None}
      BY DEF BaseInv, TypeOK, StoreTypeOK, Results
    <2>3. QED
      BY <1>1, <2>1, <2>2, AnnounceEffect DEF Ledger!MayMove, result_is_done, Status
  <1>2. CASE Merge(e)
    <2>1. k \in remaining[e] /\ c = at[e] => by_commit[c][k] = "Inprogress"
      BY <1>2 DEF Merge, OwedInv
    <2>2. QED
      BY <1>2, <2>1, MergeEffect DEF Ledger!MayMove
  <1>3. CASE FailBatch(e)
    <2>1. k \in Stuck(e) /\ c = at[e] => by_commit[c][k] = "Inprogress"
      BY DEF Stuck
    <2>2. QED
      BY <1>3, <2>1, FailEffect DEF Ledger!MayMove
  <1>4. CASE ~AnnounceStore(e) /\ ~Merge(e) /\ ~FailBatch(e)
    <2>1. UNCHANGED by_commit
      BY <1>4 DEF ExecStep, Claim, Announce, Setup, Prepare, RunVM, Pull, Clean, Report
    <2>2. QED
      BY <2>1 DEF Ledger!MayMove
  <1>5. QED
    BY <1>1, <1>2, <1>3, <1>4

\* An executor publishes what it records, into a commit that has its directory.
LEMMA ExecRendered ==
  ASSUME VerdictInv, RenderedInv, NEW e \in Executors, ExecStep(e)
  PROVE  DirInv' /\ RenderInv'
  <1> USE DEF RenderedInv, LoadedInv, BaseInv
  <1>0. /\ pc \in [Executors -> PCs] /\ at \in [Executors -> Commits \cup {None}]
        /\ by_commit \in [Commits -> Results] /\ capnp \in [Commits -> Results]
    BY DEF TypeOK, StoreTypeOK
  <1>1. /\ main \notin {"down", "load"} /\ UNCHANGED mainVars
        /\ loading = None /\ rmAt = None /\ gcLive = None
        /\ UNCHANGED <<rmAt, gcLive>>
    <2>1. main \notin {"down", "load"} /\ UNCHANGED mainVars
      BY ExecLoaded
    <2>2. UNCHANGED <<rmAt, gcLive>>
      BY DEF ExecStep, Claim, Announce, AnnounceStore, Setup, Prepare, RunVM, Pull, Merge,
             Clean, FailBatch, Report
    <2>3. QED
      BY <2>1, <2>2 DEF RenderInv, LoadInv
  <1>2. \A c \in Commits : IsLoaded(c) /\ IsLoaded(c)'
    BY <1>1 DEF IsLoaded
  <1>3. PublishedIsTrue'
    <2> SUFFICES ASSUME NEW c \in Commits, NEW k \in Keys, capnp'[c][k] \in RunVerdicts
                 PROVE  by_commit'[c][k] = capnp'[c][k]
      BY DEF PublishedIsTrue, RunVerdicts
    <2>1. CASE capnp'[c] = by_commit'[c]
      BY <2>1
    <2>2. CASE capnp'[c] = capnp[c]
      <3>1. by_commit[c][k] = capnp[c][k] /\ by_commit[c][k] \in RunVerdicts
        BY <1>2, <2>2 DEF RenderInv, PublishedIsTrue
      <3>2. Ledger!MayMove(by_commit[c][k], by_commit'[c][k])
        BY ExecMoves
      <3>3. by_commit'[c][k] = by_commit[c][k]
        BY <3>1, <3>2, ConstantsOK DEF Ledger!MayMove, RunVerdicts, Status
      <3>4. QED
        BY <2>2, <3>1, <3>3
    <2>3. QED
      BY <2>1, <2>2, ExecFile
  <1>4. write_errors' = 0 => \A c \in Commits : capnp'[c] = by_commit'[c]
    <2> SUFFICES ASSUME write_errors' = 0, NEW c \in Commits PROVE capnp'[c] = by_commit'[c]
      OBVIOUS
    <2>1. write_errors = 0
      BY ExecFile
    <2>2. capnp[c] = by_commit[c]
      BY <1>2, <2>1 DEF RenderInv
    <2>3. QED
      BY <2>2, ExecFile
  <1>5. RenderInv'
    BY <1>1, <1>2, <1>3, <1>4 DEF RenderInv
  <1>6. CASE AnnounceStore(e) \/ Merge(e) \/ FailBatch(e)
    <2>1. at[e] \in Commits /\ pc[e] \in {"announce", "merge", "fail"} /\ UNCHANGED at
      BY <1>6, Handles DEF AnnounceStore, Merge, FailBatch
    <2>2. \A d \in Commits \ {at[e]} : capnp'[d] = capnp[d]
      BY ExecFile
    <2>3. FailBatch(e) => at[e] \in dirs'
      BY <2>1 DEF FailBatch, WriteStatus
    <2>4. at[e] \in dirs' /\ dirs \subseteq dirs'
      BY <1>6, <2>1, <2>3 DEF AnnounceStore, Merge, FailBatch, WriteStatus, DirInv
    <2>5. \A f \in Executors : pc'[f] \notin {"idle", "claimed", "fail"} => at[f] \in dirs'
      BY <1>0, <1>6, <2>4 DEF AnnounceStore, Merge, NextLeg, FailBatch, Goto, DirInv
    <2>6. QED
      BY <1>5, <2>1, <2>2, <2>4, <2>5 DEF DirInv, NoResults
  <1>7. CASE Claim(e) \/ Announce(e) \/ Setup(e) \/ Prepare(e) \/ RunVM(e) \/ Pull(e)
             \/ Clean(e) \/ Report(e)
    <2>1. UNCHANGED <<by_commit, capnp>> /\ dirs \subseteq dirs'
      BY <1>7 DEF Claim, Announce, Setup, Prepare, RunVM, Pull, Clean, Report, WriteStatus
    <2>3. ASSUME NEW f \in Executors, pc'[f] \notin {"idle", "claimed", "fail"}
          PROVE  at'[f] \in dirs'
      <3>1. CASE Claim(e)
        BY <1>0, <2>1, <2>3, <3>1 DEF Claim, Goto, DirInv
      <3>2. CASE Announce(e)
        BY <1>0, <2>1, <2>3, <3>2 DEF Announce, Goto, WriteStatus, DirInv
      <3>3. CASE Setup(e) \/ Prepare(e) \/ RunVM(e) \/ Pull(e) \/ Clean(e)
        BY <1>0, <2>1, <2>3, <3>3 DEF Setup, Prepare, RunVM, Pull, Clean, Goto, DirInv
      <3>4. CASE Report(e)
        BY <1>0, <2>1, <2>3, <3>4 DEF Report, Goto, DirInv
      <3>5. QED
        BY <1>7, <3>1, <3>2, <3>3, <3>4
    <2>4. DirInv'
      BY <2>1, <2>3 DEF DirInv, NoResults
    <2>5. QED
      BY <1>5, <2>4
  <1>8. QED
    BY <1>6, <1>7 DEF ExecStep

\* load() takes the verdicts of a run from the file as they are.
LEMMA KeptVerdicts ==
  ASSUME NEW c, NEW flag, NEW k \in Keys, capnp[c][k] \in RunVerdicts
  PROVE  Kept(c, flag)[k] = capnp[c][k]
  BY DEF Kept, Stale, drop_status, RunVerdicts

\* What the rewrite at the end of a commit's load leaves.
LEMMA LoadWrites ==
  ASSUME RenderedInv, LoadRewrite
  PROVE  /\ main = "load" /\ main' = "load" /\ loading \in todo /\ loading \in dirs
         /\ loading \in Commits
         /\ todo' = todo \ {loading} /\ loading' = None
         /\ by_commit' = [by_commit EXCEPT ![loading] = kept] /\ kept = Kept(loading, clear)
         /\ capnp' \in {capnp, [capnp EXCEPT ![loading] = kept]}
         /\ write_errors' = 0 => write_errors = 0 /\ capnp' = [capnp EXCEPT ![loading] = kept]
  <1>1. /\ main = "load" /\ main' = "load" /\ loading \in todo /\ loading \in dirs
        /\ loading \in Commits
        /\ todo' = todo \ {loading} /\ loading' = None
        /\ by_commit' = [by_commit EXCEPT ![loading] = kept] /\ kept = Kept(loading, clear)
    BY DEF LoadRewrite, RenderedInv, LoadedInv, LoadInv, RenderInv, BaseInv, TypeOK
  <1>2. results_to_capnp(loading, kept) /\ write_errors \in Nat
    BY DEF LoadRewrite, RenderedInv, LoadedInv, BaseInv, TypeOK, StoreTypeOK
  <1>3. QED
    BY <1>1, <1>2, WriteEffect

\* load() leaves every commit it is done with as true as it found it, and misses none
\* that has been published.
LEMMA MainRendered ==
  ASSUME MaxGc = 0, RenderedInv, MainStep
  PROVE  DirInv' /\ RenderInv'
  <1> USE DEF RenderedInv, LoadedInv, BaseInv
  <1>0. /\ by_commit \in [Commits -> Results] /\ capnp \in [Commits -> Results]
        /\ todo \subseteq Commits /\ dirs \subseteq Commits /\ rmAt = None /\ gcLive = None
        /\ UNCHANGED <<execVars, dirs, rmAt, gcLive>>
    <2>1. ~Upkeep
      BY DEF Upkeep, TypeOK
    <2>2. QED
      BY <2>1 DEF TypeOK, StoreTypeOK, MainStep, Start, LoadRewrite, LoadFresh, LoadStale, Loaded,
             LoadGone, RefillRetain, RefillTruncate, RefillDone, Drained, RefillRead, RefillSubmit,
             RenderInv
  <1>1. CASE Start
    <2>1. \A c \in Commits \ dirs : capnp[c] = by_commit[c]
      BY <1>1 DEF Start, DirInv, LoadInv
    <2>2. loading = None /\ UNCHANGED <<by_commit, capnp, loading>> /\ main' = "load" /\ todo' = dirs
      BY <1>1 DEF Start, LoadInv
    <2>3. \A c \in Commits : IsLoaded(c)' => capnp'[c] = by_commit'[c]
      BY <2>1, <2>2 DEF IsLoaded
    <2>4. RenderInv'
      BY <1>0, <2>2, <2>3 DEF RenderInv, PublishedIsTrue
    <2>5. QED
      BY <1>0, <2>2, <2>4 DEF DirInv, NoResults
  <1>2. CASE LoadRewrite
    <2>1. \A c \in Commits : c # loading => capnp'[c] = capnp[c] /\ by_commit'[c] = by_commit[c]
      BY <1>0, <1>2, LoadWrites
    <2>2. \A c \in Commits : c # loading /\ IsLoaded(c)' => IsLoaded(c)
      BY <1>2, LoadWrites DEF IsLoaded
    <2>3. \A k \in Keys : capnp'[loading][k] \in RunVerdicts => by_commit'[loading][k] = capnp'[loading][k]
      <3>1. by_commit'[loading] = kept /\ kept = Kept(loading, clear)
        BY <1>0, <1>2, LoadWrites
      <3>2. capnp'[loading] = kept \/ capnp'[loading] = capnp[loading]
        BY <1>0, <1>2, LoadWrites
      <3>3. QED
        BY <3>1, <3>2, KeptVerdicts
    <2>4. PublishedIsTrue'
      BY <2>1, <2>2, <2>3 DEF RenderInv, PublishedIsTrue, RunVerdicts
    <2>5. write_errors' = 0 => \A c \in Commits : IsLoaded(c)' => capnp'[c] = by_commit'[c]
      BY <1>0, <1>2, <2>1, <2>2, LoadWrites DEF RenderInv
    <2>6. RenderInv'
      <3>1. main' = "load" => todo' \subseteq dirs'
        BY <1>0, <1>2, LoadWrites DEF RenderInv
      <3>2. QED
        BY <1>0, <1>2, <2>4, <2>5, <3>1, LoadWrites DEF RenderInv
    <2>7. \A c \in Commits : capnp'[c] # NoResults => c \in dirs'
      BY <1>0, <1>2, <2>1, LoadWrites DEF DirInv
    <2>8. QED
      BY <1>0, <2>6, <2>7 DEF DirInv, NoResults
  <1>3. ASSUME NEW c \in Commits, LoadFresh(c)
        PROVE  DirInv' /\ RenderInv'
    <2>1. /\ UNCHANGED <<capnp, main, loading, write_errors>> /\ main = "load" /\ loading = None
          /\ by_commit' = [by_commit EXCEPT ![c] = capnp[c]] /\ todo' = todo \ {c}
      BY <1>3 DEF LoadFresh
    <2>2. by_commit'[c] = capnp'[c]
      BY <1>0, <2>1
    <2>3. \A d \in Commits \ {c} : by_commit'[d] = by_commit[d] /\ (IsLoaded(d)' => IsLoaded(d))
      BY <1>0, <2>1 DEF IsLoaded
    <2>4. PublishedIsTrue'
      BY <2>1, <2>2, <2>3 DEF RenderInv, PublishedIsTrue, RunVerdicts
    <2>5. RenderInv'
      BY <1>0, <2>1, <2>2, <2>3, <2>4 DEF RenderInv
    <2>6. QED
      BY <1>0, <2>1, <2>5 DEF DirInv, NoResults
  <1>4. ASSUME NEW c \in Commits, LoadGone(c)
        PROVE  DirInv' /\ RenderInv'
    BY <1>4 DEF LoadGone, RenderInv
  <1>5. ASSUME NEW c \in Commits, LoadStale(c)
        PROVE  DirInv' /\ RenderInv'
    <2>1. /\ UNCHANGED <<by_commit, capnp, main, todo, write_errors, clear>>
          /\ loading' = c /\ kept' = Kept(c, clear)
      BY <1>5 DEF LoadStale
    <2>2. kept' = Kept(loading, clear)'
      BY <2>1 DEF Kept, Stale
    <2>3. PublishedIsTrue' /\ \A d \in Commits : IsLoaded(d)' = IsLoaded(d)
      BY <2>1 DEF RenderInv, PublishedIsTrue, IsLoaded, RunVerdicts
    <2>4. RenderInv'
      BY <1>0, <2>1, <2>2, <2>3 DEF RenderInv
    <2>5. QED
      BY <1>0, <2>1, <2>4 DEF DirInv, NoResults
  <1>6. CASE Loaded
    <2>1. /\ UNCHANGED <<by_commit, capnp, write_errors, loading>> /\ loading = None
          /\ main' = "refill" /\ main = "load" /\ todo = {}
      BY <1>6 DEF Loaded, LoadInv
    <2>2. \A c \in Commits : IsLoaded(c)
      BY <2>1 DEF IsLoaded
    <2>3. RenderInv'
      BY <1>0, <2>1, <2>2 DEF RenderInv, PublishedIsTrue, RunVerdicts
    <2>4. QED
      BY <1>0, <2>1, <2>3 DEF DirInv, NoResults
  <1>7. CASE main \notin {"down", "load"}
    <2>1. UNCHANGED <<by_commit, capnp, write_errors, loading>> /\ loading = None
          /\ main' \notin {"down", "load"}
      BY <1>7 DEF LoadInv, MainStep, Start, LoadRewrite, LoadGone, LoadFresh, LoadStale, Loaded,
           RefillRetain, RefillTruncate, RefillDone, Upkeep, Drained, RefillRead, RefillSubmit
    <2>2. \A c \in Commits : IsLoaded(c)
      BY <1>7 DEF IsLoaded
    <2>3. RenderInv'
      BY <1>0, <2>1, <2>2 DEF RenderInv, PublishedIsTrue, RunVerdicts
    <2>4. QED
      BY <1>0, <2>1, <2>3 DEF DirInv, NoResults
  <1>8. QED
    BY <1>1, <1>2, <1>3, <1>4, <1>5, <1>6, <1>7
       DEF MainStep, RefillRetain, RefillTruncate, RefillDone, Upkeep, Drained, RefillRead,
           RefillSubmit

\* Files and directories outlive a crash; there is no rm-results and no gc-results.
LEMMA EnvRendered ==
  ASSUME MaxRm = 0, MaxGc = 0, RenderedInv,
         Crash \/ (\E s \in Sources : FetchBranch(s)) \/ (\E c \in Commits : RmDirs(c))
           \/ RmUpdate \/ GcStep \/ UNCHANGED vars
  PROVE  /\ DirInv' /\ RenderInv' /\ UNCHANGED capnp
         /\ Crash \/ UNCHANGED <<storeVars, mainVars>>
  <1> USE DEF RenderedInv, LoadedInv, BaseInv
  <1>1. CASE Crash
    BY <1>1 DEF Crash, DirInv, RenderInv, PublishedIsTrue, IsLoaded, NoResults
  <1>2. CASE ~Crash
    <2>1. rms \in Nat
      BY DEF TypeOK
    <2>2. \A c \in Commits : ~RmDirs(c)
      BY <2>1 DEF RmDirs
    <2>3. UNCHANGED <<storeVars, mainVars, execVars, rmAt, gcLive>>
      BY <1>2, <2>2 DEF FetchBranch, RmUpdate, GcStep, GcDone, GcDir, GcCapnp, GcSubtest,
                        RenderInv, vars
    <2>4. QED
      BY <2>3 DEF DirInv, RenderInv, PublishedIsTrue, RunVerdicts, IsLoaded, NoResults, Kept, Stale
  <1>3. QED
    BY <1>1, <1>2

LEMMA RenderedStep ==
  ASSUME MaxRm = 0, MaxGc = 0, VerdictInv, RenderedInv, [Next]_vars
  PROVE  RenderedInv'
  <1>1. BaseInv' /\ LoadInv'
    BY BaseStep, MainLoaded, ExecLoaded, EnvLoaded DEF RenderedInv, LoadedInv, Next
  <1>2. DirInv' /\ RenderInv'
    BY MainRendered, ExecRendered, EnvRendered DEF Next
  <1>3. QED
    BY <1>1, <1>2 DEF RenderedInv, LoadedInv

LEMMA InitRendered == Init => RenderedInv
  <1>1. Init => DirInv /\ RenderInv
    BY DEF Init, StoreInit, DirInv, RenderInv, PublishedIsTrue, IsLoaded, NoResults
  <1>2. QED
    BY <1>1, InitBase, InitLoaded DEF RenderedInv, LoadedInv

LEMMA RenderedInvariant ==
  ASSUME MaxRm = 0, MaxGc = 0, Exclusive
  PROVE  Spec => []RenderedInv
  <1>1. VerdictInv /\ RenderedInv /\ [Next]_vars => RenderedInv'
    BY RenderedStep
  <1>2. QED
    BY <1>1, InitRendered, VerdictInvariant, PTL DEF Spec

\* However many writes of .capnp files are lost, before or after a restart, a run's
\* verdict that a file shows is the verdict the daemon has, when no commit belongs to two
\* sources and neither rm-results nor gc-results runs.
THEOREM PublishedTrue ==
  ASSUME MaxRm = 0, MaxGc = 0, Exclusive
  PROVE  Spec => []PublishedIsTrue
  <1>1. RenderedInv => PublishedIsTrue
    BY DEF RenderedInv, RenderInv
  <1>2. QED
    BY <1>1, RenderedInvariant, PTL

-------------------------------------------------------------------------------
(* The published files implement the ledger.                                *)

\* Whether a commit's file is behind depends on its own entries only.
LEMMA BehindFrame ==
  ASSUME NEW c \in Commits,
         \A d \in Commits \ {c} : /\ capnp'[d] = capnp[d] /\ by_commit'[d] = by_commit[d]
                                  /\ IsLoaded(d)' = IsLoaded(d)
  PROVE  /\ ~(IsLoaded(c)' /\ capnp'[c] # by_commit'[c]) => Behind' = Behind \ {c}
         /\ IsLoaded(c)' /\ capnp'[c] # by_commit'[c] => Behind' = Behind \cup {c}
  BY DEF Behind

\* A step maps to a rewrite of one commit's file that took place or was lost, to a
\* restart, or to nothing.
LEMMA LedgerStep ==
  ASSUME MaxRm = 0, MaxGc = 0, Exclusive, VerdictInv, RenderedInv, RenderedInv', [Next]_vars
  PROVE  [Ledger!LedgerNext]_<<capnp, Behind>>
  <1> USE DEF RenderedInv, LoadedInv
  <1>0. /\ capnp \in [Commits -> [Keys -> Status \cup {None}]]
        /\ capnp' \in [Commits -> [Keys -> Status \cup {None}]]
        /\ capnp \in [Commits -> Results] /\ by_commit \in [Commits -> Results]
    BY DEF BaseInv, TypeOK, StoreTypeOK, Results
  <1>1. ASSUME NEW c \in Commits, \A d \in Commits \ {c} : capnp'[d] = capnp[d],
               Behind' = Behind \ {c},
               c \in Behind => \A k \in Keys : Ledger!MayCatchUp(capnp[c][k], capnp'[c][k]),
               c \notin Behind => \A k \in Keys : Ledger!MayMove(capnp[c][k], capnp'[c][k])
        PROVE  Ledger!LedgerNext
    BY <1>0, <1>1 DEF Ledger!LedgerNext, Ledger!Rewrite, Ledger!Status, Status
  <1>2. ASSUME NEW c \in Commits, capnp' = capnp, Behind' = Behind \cup {c}
        PROVE  Ledger!LedgerNext
    BY <1>2 DEF Ledger!LedgerNext, Ledger!Lose
  <1>3. CASE LoadRewrite
    <2>0. PICK c \in Commits : c = loading
      BY <1>3, LoadWrites
    <2>1. /\ IsLoaded(c)' /\ ~IsLoaded(c)
          /\ \A d \in Commits \ {c} : /\ capnp'[d] = capnp[d] /\ by_commit'[d] = by_commit[d]
                                      /\ IsLoaded(d)' = IsLoaded(d)
      BY <1>0, <1>3, <2>0, LoadWrites DEF IsLoaded
    <2>2. c \notin Behind
      BY <2>1 DEF Behind
    <2>3. CASE capnp'[c] = by_commit'[c]
      <3>1. capnp'[c] = Kept(c, clear)
        BY <1>0, <1>3, <2>0, <2>3, LoadWrites
      <3>2. \A k \in Keys : Ledger!MayMove(capnp[c][k], capnp'[c][k])
        BY <3>1 DEF Kept, Stale, drop_status, Ledger!MayMove
      <3>3. Behind' = Behind \ {c}
        BY <2>1, <2>3, BehindFrame
      <3>4. QED
        BY <1>1, <2>1, <2>2, <3>2, <3>3
    <2>4. CASE capnp'[c] # by_commit'[c]
      <3>1. capnp' = capnp
        BY <1>0, <1>3, <2>0, <2>4, LoadWrites
      <3>2. Behind' = Behind \cup {c}
        BY <2>1, <2>4, BehindFrame
      <3>3. QED
        BY <1>2, <3>1, <3>2
    <2>5. QED
      BY <2>3, <2>4
  <1>4. CASE MainStep /\ ~LoadRewrite
    <2>1. UNCHANGED capnp
      BY <1>4 DEF MainStep, Start, LoadGone, LoadFresh, LoadStale, Loaded, RefillRetain,
           RefillTruncate, RefillDone, Upkeep, Drained, RefillRead, RefillSubmit
    <2>2. CASE Start
      <3>1. \A c \in Commits : ~IsLoaded(c)
        BY <2>2 DEF Start, IsLoaded
      <3>2. \A c \in Commits : IsLoaded(c)' => capnp'[c] = by_commit'[c]
        BY <2>2 DEF Start, IsLoaded, DirInv, LoadInv
      <3>3. Behind = {} /\ Behind' = {}
        BY <3>1, <3>2 DEF Behind
      <3>4. QED
        BY <2>1, <3>3
    <2>3. ASSUME NEW c \in Commits, LoadFresh(c)
          PROVE  UNCHANGED <<capnp, Behind>>
      <3>1. /\ by_commit' = [by_commit EXCEPT ![c] = capnp[c]] /\ todo' = todo \ {c}
            /\ main = "load" /\ main' = "load" /\ c \in todo
        BY <2>3 DEF LoadFresh
      <3>2. \A d \in Commits \ {c} : /\ capnp'[d] = capnp[d] /\ by_commit'[d] = by_commit[d]
                                     /\ IsLoaded(d)' = IsLoaded(d)
        BY <1>0, <2>1, <3>1 DEF IsLoaded
      <3>3. capnp'[c] = by_commit'[c] /\ c \notin Behind
        BY <1>0, <2>1, <3>1 DEF Behind, IsLoaded
      <3>4. Behind' = Behind \ {c}
        BY <3>2, <3>3, BehindFrame
      <3>5. QED
        BY <2>1, <3>3, <3>4
    <2>4. ASSUME NEW c \in Commits, LoadGone(c)
          PROVE  UNCHANGED <<capnp, Behind>>
      BY <2>4 DEF LoadGone, RenderInv
    <2>5. CASE ~Start /\ \A c \in Commits : ~LoadFresh(c) /\ ~LoadGone(c)
      <3>1. UNCHANGED by_commit /\ \A c \in Commits : IsLoaded(c)' = IsLoaded(c)
        <4>1. CASE Loaded \/ \E c \in Commits : LoadStale(c)
          BY <4>1 DEF Loaded, LoadStale, IsLoaded
        <4>2. CASE ~Loaded /\ \A c \in Commits : ~LoadStale(c)
          <5>1. UNCHANGED by_commit /\ main \notin {"down", "load"} /\ main' \notin {"down", "load"}
            BY <1>4, <2>5, <4>2 DEF MainStep, RefillRetain, RefillTruncate, RefillDone, Upkeep,
               Drained, RefillRead, RefillSubmit
          <5>2. QED
            BY <5>1 DEF IsLoaded
        <4>3. QED
          BY <4>1, <4>2
      <3>2. QED
        BY <2>1, <3>1 DEF Behind
    <2>6. QED
      BY <2>2, <2>3, <2>4, <2>5
  <1>5. ASSUME NEW e \in Executors, ExecStep(e)
        PROVE  [Ledger!LedgerNext]_<<capnp, Behind>>
    <2>1. \A c \in Commits : IsLoaded(c) /\ IsLoaded(c)' /\ IsLoaded(c)' = IsLoaded(c)
      <3>1. main \notin {"down", "load"} /\ UNCHANGED mainVars
        BY <1>5, ExecLoaded
      <3>2. QED
        BY <3>1 DEF IsLoaded
    <2>2. CASE at[e] \notin Commits
      <3>1. \A c \in Commits : capnp'[c] = capnp[c] /\ by_commit'[c] = by_commit[c]
        BY <1>5, <2>2, ExecFile
      <3>2. capnp' = capnp /\ Behind' = Behind
        BY <1>0, <2>1, <3>1 DEF Behind
      <3>3. QED
        BY <3>2
    <2>3. CASE at[e] \in Commits
      <3>4. PICK c \in Commits : c = at[e]
        BY <2>3
      <3>1. \A d \in Commits \ {c} : /\ capnp'[d] = capnp[d] /\ by_commit'[d] = by_commit[d]
                                     /\ IsLoaded(d)' = IsLoaded(d)
        BY <1>5, <2>1, <3>4, ExecFile
      <3>2. \A k \in Keys : Ledger!MayMove(by_commit[c][k], by_commit'[c][k])
        BY <1>5, ExecMoves
      <3>3. capnp'[c] \in {capnp[c], by_commit'[c]}
        BY <1>5, ExecFile
      <3>5. CASE capnp'[c] = by_commit'[c]
        <4>1. Behind' = Behind \ {c}
          BY <3>1, <3>4, <3>5, BehindFrame
        <4>2. c \notin Behind => \A k \in Keys : Ledger!MayMove(capnp[c][k], capnp'[c][k])
          BY <2>1, <3>2, <3>4, <3>5 DEF Behind
        <4>3. ASSUME NEW k \in Keys, capnp[c][k] \in RunVerdicts
              PROVE  capnp'[c][k] = capnp[c][k]
          <5>1. by_commit[c][k] = capnp[c][k]
            BY <2>1, <3>4, <4>3 DEF RenderInv, PublishedIsTrue
          <5>2. QED
            BY <3>2, <3>5, <4>3, <5>1, ConstantsOK DEF Ledger!MayMove, RunVerdicts, Status
        <4>4. \A k \in Keys : Ledger!MayCatchUp(capnp[c][k], capnp'[c][k])
          BY <4>3 DEF Ledger!MayCatchUp, RunVerdicts
        <4>5. QED
          BY <1>1, <3>1, <3>4, <4>1, <4>2, <4>4
      <3>6. CASE capnp'[c] # by_commit'[c]
        <4>1. Behind' = Behind \cup {c}
          BY <2>1, <3>1, <3>4, <3>6, BehindFrame
        <4>2. capnp' = capnp
          BY <1>0, <3>1, <3>3, <3>4, <3>6
        <4>3. QED
          BY <1>2, <3>4, <4>1, <4>2
      <3>7. QED
        BY <3>5, <3>6
    <2>4. QED
      BY <2>2, <2>3
  <1>6. CASE ~MainStep /\ \A e \in Executors : ~ExecStep(e)
    <2>1. UNCHANGED capnp /\ (Crash \/ UNCHANGED <<storeVars, mainVars>>)
      BY <1>6, EnvRendered DEF Next
    <2>2. CASE Crash
      <3>1. Behind' = {}
        BY <2>2 DEF Crash, Behind, IsLoaded
      <3>2. QED
        BY <2>1, <3>1 DEF Ledger!LedgerNext, Ledger!Restart
    <2>3. CASE UNCHANGED <<storeVars, mainVars>>
      BY <2>3 DEF Behind, IsLoaded
    <2>4. QED
      BY <2>1, <2>2, <2>3
  <1>7. QED
    BY <1>3, <1>4, <1>5, <1>6

\* The files the dashboard reads implement the ResultLedger: announced first, then
\* one final verdict, across batches, crashes, restarts and lost writes, when no commit
\* belongs to two sources and neither rm-results nor gc-results runs.
THEOREM LedgerImplemented ==
  ASSUME MaxRm = 0, MaxGc = 0, Exclusive
  PROVE  Spec => LedgerRefined
  <1>1. Init => Ledger!LedgerInit
    BY DEF Init, StoreInit, NoResults, Ledger!LedgerInit, Behind, IsLoaded
  <1>2. VerdictInv /\ RenderedInv /\ RenderedInv' /\ [Next]_vars =>
          [Ledger!LedgerNext]_<<capnp, Behind>>
    BY LedgerStep
  <1>3. QED
    BY <1>1, <1>2, VerdictInvariant, RenderedInvariant, PTL
       DEF Spec, LedgerRefined, Ledger!LedgerSpec

===============================================================================
