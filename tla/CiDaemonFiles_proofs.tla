------------------------ MODULE CiDaemonFiles_proofs ------------------------
(***************************************************************************)
(* Proofs about the files of CiDaemon and the work of a batch: the         *)
(* inductive invariants as a whole, the verdicts that can be rebuilt from  *)
(* the status files, the results of live commits that gc-results spares,   *)
(* and the bound on the VMs one batch boots.                               *)
(***************************************************************************)
EXTENDS CiDaemonVerdicts_proofs, FiniteSetTheorems

USE DEF storeVars, choirVars, mainVars, execVars, gcVars, envVars

\* The Choir, job_map, the batches and the store agree at every step of every thread,
\* through crashes, rm-results and gc-results, when no commit belongs to two sources.
THEOREM SafeAlways ==
  ASSUME Exclusive
  PROVE  Spec => []SafeInv
  <1>1. VerdictInv => SafeInv
    BY DEF VerdictInv, OwingInv, LoadedInv, BaseInv, SafeInv
  <1>2. QED
    BY <1>1, VerdictInvariant, PTL

\* ... and so do the published files, when neither rm-results nor gc-results runs.
THEOREM IndAlways ==
  ASSUME MaxRm = 0, MaxGc = 0, Exclusive
  PROVE  Spec => []IndInv
  <1>1. VerdictInv /\ RenderedInv => IndInv
    BY DEF VerdictInv, OwingInv, LoadedInv, BaseInv, SafeInv, IndInv, RenderedInv
  <1>2. QED
    BY <1>1, VerdictInvariant, RenderedInvariant, PTL

-------------------------------------------------------------------------------
(* Verdicts on disk.                                                       *)

\* A verdict of a run that the daemon has, or a file shows, is what the status file
\* reads back as.
DiskInv ==
  /\ VerdictOnDisk
  /\ \A c \in Commits, k \in Keys :
       capnp[c][k] \in RunVerdicts => read_test_result(c, k) = capnp[c][k]

\* No status file of a recorded verdict changes, and no verdict is recorded.
LEMMA DiskFrame ==
  ASSUME VerdictOnDisk,
         \A c \in Commits, k \in Keys :
           by_commit'[c][k] \in RunVerdicts =>
             by_commit'[c][k] = by_commit[c][k] /\ status'[c][k] = status[c][k]
  PROVE  VerdictOnDisk'
  BY DEF VerdictOnDisk, read_test_result, RunVerdicts

LEMMA ExecDisk ==
  ASSUME VerdictInv, RenderedInv, DiskInv, NEW e \in Executors, ExecStep(e)
  PROVE  DiskInv'
  <1> USE DEF VerdictInv, OwingInv, LoadedInv
  <1>0. /\ by_commit \in [Commits -> Results]
        /\ status \in [Commits -> [Keys -> StatusText \cup {None}]]
        /\ remaining \in [Executors -> SUBSET Keys] /\ VerdictOnDisk
    BY DEF BaseInv, TypeOK, StoreTypeOK, DiskInv
  <1>1. SUFFICES VerdictOnDisk'
    <2>1. PublishedIsTrue'
      BY ExecRendered DEF RenderInv
    <2>2. \A c \in Commits : IsLoaded(c)'
      BY ExecLoaded DEF IsLoaded
    <2>3. \A c \in Commits, k \in Keys :
            capnp'[c][k] \in RunVerdicts => by_commit'[c][k] = capnp'[c][k]
      BY <2>1, <2>2 DEF PublishedIsTrue, RunVerdicts
    <2>4. QED
      BY <1>1, <2>3 DEF DiskInv, VerdictOnDisk, RunVerdicts
  <1>4. CASE Claim(e) \/ Setup(e) \/ Prepare(e) \/ RunVM(e) \/ Clean(e) \/ Report(e)
    <2>1. UNCHANGED <<by_commit, status>>
      BY <1>4 DEF Claim, Setup, Prepare, RunVM, Clean, Report
    <2>2. QED
      BY <1>0, <2>1, DiskFrame
  <1>5. CASE Announce(e)
    <2>1. UNCHANGED by_commit /\ pc[e] = "claimed"
      BY <1>5 DEF Announce
    <2>2. at[e] \in Commits /\ \A k \in remaining[e] : ~result_is_done(by_commit[at[e]][k])
      BY <2>1, Handles DEF OwedInv
    <2>3. \A c \in Commits, k \in Keys :
            status'[c][k] = status[c][k] \/ (c = at[e] /\ k \in remaining[e])
      BY <1>0, <1>5, <2>2 DEF Announce, WriteStatus
    <2>4. QED
      BY <1>0, <2>1, <2>2, <2>3, DiskFrame DEF RunVerdicts, result_is_done
  <1>6. CASE AnnounceStore(e)
    <2>1. UNCHANGED status
      BY <1>6 DEF AnnounceStore
    <2>2. \A c \in Commits, k \in Keys : by_commit'[c][k] \in {by_commit[c][k], "Inprogress"}
      BY <1>6, AnnounceEffect
    <2>3. QED
      BY <1>0, <2>1, <2>2, DiskFrame DEF RunVerdicts
  <1>7. CASE Pull(e)
    <2>1. UNCHANGED by_commit /\ pc[e] = "pull"
      BY <1>7 DEF Pull
    <2>2. at[e] \in Commits /\ \A k \in remaining[e] : by_commit[at[e]][k] = "Inprogress"
      BY <2>1, Handles DEF OwedInv
    <2>3. \A c \in Commits, k \in Keys :
            status'[c][k] = status[c][k] \/ (c = at[e] /\ k \in remaining[e])
      BY <1>0, <1>7, <2>2 DEF Pull
    <2>4. QED
      BY <1>0, <2>1, <2>2, <2>3, DiskFrame DEF RunVerdicts
  <1>8. CASE Merge(e)
    <2>1. UNCHANGED status
      BY <1>8 DEF Merge
    <2>2. \A c \in Commits, k \in Keys :
            by_commit'[c][k] = IF c = at[e] /\ k \in remaining[e] THEN PulledStatus(e, k)
                               ELSE by_commit[c][k]
      BY <1>8, MergeEffect
    <2>3. \A k \in Keys : PulledStatus(e, k) \in RunVerdicts =>
                            read_test_result(at[e], k) = PulledStatus(e, k)
      BY DEF PulledStatus, RunVerdicts
    <2>4. \A c \in Commits, k \in Keys : read_test_result(c, k)' = read_test_result(c, k)
      BY <2>1 DEF read_test_result
    <2>5. QED
      BY <1>0, <2>2, <2>3, <2>4 DEF VerdictOnDisk, RunVerdicts
  <1>9. CASE FailBatch(e)
    <2>1. at[e] \in Commits
      BY <1>9, Handles DEF FailBatch
    <2>2. \A c \in Commits, k \in Keys :
            by_commit'[c][k] = IF c = at[e] /\ k \in Stuck(e) THEN "FailedToRun"
                               ELSE by_commit[c][k]
      BY <1>9, FailEffect
    <2>3. \A c \in Commits, k \in Keys :
            status'[c][k] = status[c][k] \/ (c = at[e] /\ k \in Stuck(e))
      BY <1>0, <1>9, <2>1 DEF FailBatch, WriteStatus, Terminal
    <2>4. QED
      BY <1>0, <2>2, <2>3, DiskFrame DEF RunVerdicts
  <1>10. QED
    BY <1>4, <1>5, <1>6, <1>7, <1>8, <1>9 DEF ExecStep

LEMMA MainDisk ==
  ASSUME RenderedInv, DiskInv, MainStep
  PROVE  DiskInv'
  <1>0. /\ capnp \in [Commits -> Results] /\ by_commit \in [Commits -> Results]
        /\ status \in [Commits -> [Keys -> StatusText \cup {None}]]
        /\ None \notin RunVerdicts
    BY ConstantsOK DEF RenderedInv, LoadedInv, BaseInv, TypeOK, StoreTypeOK, RunVerdicts, Status
  <1>1. CASE UNCHANGED status
    <2>1. \A c \in Commits, k \in Keys : read_test_result(c, k)' = read_test_result(c, k)
      BY <1>1 DEF read_test_result
    <2>2. \A c \in Commits, k \in Keys :
            /\ capnp'[c][k] \in RunVerdicts => capnp'[c][k] = capnp[c][k]
            /\ by_commit'[c][k] \in RunVerdicts => by_commit'[c][k] \in {by_commit[c][k], capnp[c][k]}
      <3>1. CASE LoadRewrite
        <4>1. \A k \in Keys : Kept(loading, clear)[k] \in {capnp[loading][k], None}
          BY DEF Kept
        <4>2. \A c \in Commits : by_commit'[c] = IF c = loading THEN Kept(loading, clear)
                                                 ELSE by_commit[c]
          BY <1>0, <3>1, LoadWrites
        <4>3. \A c \in Commits : capnp'[c] = capnp[c] \/ (c = loading /\ capnp'[c] = Kept(loading, clear))
          BY <1>0, <3>1, LoadWrites
        <4>4. QED
          BY <1>0, <4>1, <4>2, <4>3
      <3>2. ASSUME NEW c \in Commits, LoadFresh(c)
            PROVE  /\ UNCHANGED capnp
                   /\ \A d \in Commits : by_commit'[d] \in {by_commit[d], capnp[d]}
        BY <1>0, <3>2 DEF LoadFresh
      <3>3. CASE ~LoadRewrite /\ \A c \in Commits : ~LoadFresh(c)
        <4>1. UNCHANGED <<by_commit, capnp>>
          BY <3>3 DEF MainStep, Start, LoadGone, LoadStale, Loaded, RefillRetain,
               RefillTruncate, RefillDone, Upkeep, Drained, RefillRead, RefillSubmit
        <4>2. QED
          BY <4>1
      <3>4. QED
        BY <3>1, <3>2, <3>3
    <2>3. QED
      BY <2>1, <2>2 DEF DiskInv, VerdictOnDisk, RunVerdicts
  <1>2. CASE \E c \in Commits : LoadStale(c)
    <2>0. PICK c \in Commits : LoadStale(c)
      BY <1>2
    <2>1. UNCHANGED <<by_commit, capnp>> /\ c \in todo /\ main = "load"
      BY <2>0 DEF LoadStale
    <2>2. \A d \in Commits, k \in Keys :
            status'[d][k] = status[d][k] \/ (d = c /\ k \in Stale(c, clear))
      BY <1>0, <2>0 DEF LoadStale, RemoveDirs
    <2>3. \A k \in Stale(c, clear) : capnp[c][k] \notin RunVerdicts
      BY DEF Stale, drop_status, RunVerdicts
    <2>4. \A k \in Keys : by_commit[c][k] \notin RunVerdicts
      BY <1>0, <2>1 DEF RenderedInv, LoadedInv, LoadInv, NoResults
    <2>5. QED
      BY <2>1, <2>2, <2>3, <2>4 DEF DiskInv, VerdictOnDisk, read_test_result, RunVerdicts
  <1>3. QED
    BY <1>1, <1>2 DEF MainStep, Start, LoadRewrite, LoadGone, LoadFresh, Loaded, RefillRetain,
       RefillTruncate, RefillDone, Upkeep, Drained, RefillRead, RefillSubmit

LEMMA DiskStep ==
  ASSUME MaxRm = 0, MaxGc = 0, VerdictInv, RenderedInv, DiskInv, [Next]_vars
  PROVE  DiskInv'
  <1>1. CASE MainStep
    BY <1>1, MainDisk
  <1>2. ASSUME NEW e \in Executors, ExecStep(e) PROVE DiskInv'
    BY <1>2, ExecDisk
  <1>3. CASE Crash
    BY <1>3, ConstantsOK DEF Crash, DiskInv, VerdictOnDisk, read_test_result, RunVerdicts,
       NoResults, Status
  <1>4. CASE ~Crash /\ ~MainStep /\ \A e \in Executors : ~ExecStep(e)
    <2>1. UNCHANGED storeVars
      BY <1>4, EnvRendered DEF Next
    <2>2. QED
      BY <2>1 DEF DiskInv, VerdictOnDisk, read_test_result, RunVerdicts
  <1>5. QED
    BY <1>1, <1>2, <1>3, <1>4

\* Whatever a batch did after a verdict was recorded, commit_update_results() would read
\* the same verdict from the status file, across crashes, restarts and lost writes, as
\* long as neither rm-results nor gc-results deletes the directories.
THEOREM VerdictsOnDisk ==
  ASSUME MaxRm = 0, MaxGc = 0, Exclusive
  PROVE  Spec => []VerdictOnDisk
  <1>1. Init => DiskInv
    BY ConstantsOK DEF Init, StoreInit, NoResults, DiskInv, VerdictOnDisk, RunVerdicts, Status
  <1>2. VerdictInv /\ RenderedInv /\ DiskInv /\ [Next]_vars => DiskInv'
    BY DiskStep
  <1>3. DiskInv => VerdictOnDisk
    BY DEF DiskInv
  <1>4. QED
    BY <1>1, <1>2, <1>3, VerdictInvariant, RenderedInvariant, PTL DEF Spec

-------------------------------------------------------------------------------
(* What gc-results spares.                                                 *)

\* DirInv and RenderInv for one commit, which a running gc-results spares.
SparedInv(c) ==
  /\ rmAt = None /\ (gcLive # None => c \in gcLive)
  /\ capnp[c] # NoResults => c \in dirs
  /\ \A e \in Executors : at[e] = c /\ pc[e] \notin {"idle", "claimed", "fail"} => c \in dirs
  /\ write_errors = 0 /\ IsLoaded(c) => capnp[c] = by_commit[c]
  /\ main = "load" /\ c \in todo => c \in dirs

LEMMA ExecSpares ==
  ASSUME LoadedInv, NEW c \in Commits, SparedInv(c), NEW e \in Executors, ExecStep(e)
  PROVE  SparedInv(c)'
  <1>0. pc \in [Executors -> PCs] /\ at \in [Executors -> Commits \cup {None}]
    BY DEF LoadedInv, BaseInv, TypeOK
  <1>1. main \notin {"down", "load"} /\ UNCHANGED mainVars
    BY ExecLoaded
  <1>2. UNCHANGED <<rmAt, gcLive>> /\ dirs \subseteq dirs'
    BY DEF ExecStep, Claim, Announce, AnnounceStore, Setup, Prepare, RunVM, Pull, Merge,
           Clean, FailBatch, Report, WriteStatus
  <1>3. capnp'[c] # NoResults => c \in dirs'
    <2>1. CASE capnp'[c] = capnp[c]
      BY <1>2, <2>1 DEF SparedInv
    <2>2. CASE capnp'[c] # capnp[c]
      <3>1. at[e] = c
        BY <2>2, ExecFile
      <3>2. AnnounceStore(e) \/ Merge(e) \/ FailBatch(e)
        BY <2>2 DEF ExecStep, Claim, Announce, Setup, Prepare, RunVM, Pull, Clean, Report
      <3>3. CASE FailBatch(e)
        BY <3>1, <3>3 DEF FailBatch, WriteStatus
      <3>4. CASE AnnounceStore(e) \/ Merge(e)
        <4>1. pc[e] \in {"announce", "merge"}
          BY <3>4 DEF AnnounceStore, Merge
        <4>2. c \in dirs
          BY <3>1, <4>1 DEF SparedInv
        <4>3. QED
          BY <1>2, <4>2
      <3>5. QED
        BY <3>2, <3>3, <3>4
    <2>3. QED
      BY <2>1, <2>2
  <1>4. ASSUME NEW f \in Executors, at'[f] = c, pc'[f] \notin {"idle", "claimed", "fail"}
        PROVE  c \in dirs'
    <2>1. CASE Claim(e)
      BY <1>0, <1>2, <1>4, <2>1 DEF Claim, Goto, SparedInv
    <2>2. CASE Announce(e)
      BY <1>0, <1>2, <1>4, <2>2 DEF Announce, Goto, WriteStatus, SparedInv
    <2>3. CASE AnnounceStore(e) \/ Setup(e) \/ Prepare(e) \/ RunVM(e) \/ Pull(e) \/ Clean(e)
      BY <1>0, <1>2, <1>4, <2>3
         DEF AnnounceStore, Setup, Prepare, RunVM, Pull, Clean, Goto, SparedInv
    <2>4. CASE Merge(e)
      BY <1>0, <1>2, <1>4, <2>4 DEF Merge, NextLeg, Goto, SparedInv
    <2>5. CASE FailBatch(e)
      BY <1>0, <1>2, <1>4, <2>5 DEF FailBatch, WriteStatus, Goto, SparedInv
    <2>6. CASE Report(e)
      BY <1>0, <1>2, <1>4, <2>6 DEF Report, Goto, SparedInv
    <2>7. QED
      BY <2>1, <2>2, <2>3, <2>4, <2>5, <2>6 DEF ExecStep
  <1>5. write_errors' = 0 => capnp'[c] = by_commit'[c]
    <2> SUFFICES ASSUME write_errors' = 0 PROVE capnp'[c] = by_commit'[c]
      OBVIOUS
    <2>1. capnp[c] = by_commit[c]
      BY <1>1, ExecFile DEF SparedInv, IsLoaded
    <2>2. QED
      BY <2>1, ExecFile
  <1>6. QED
    BY <1>1, <1>2, <1>3, <1>4, <1>5 DEF SparedInv, NoResults

\* gc-results finds a commit that is within reach on a branch it can read.
LEMMA LiveFound ==
  ASSUME NEW s \in Sources, NEW c \in Commits, WithinReach(s, c),
         NEW read \in SUBSET Sources, s \in read
  PROVE  c \in get_live_commits(read)
  <1>1. c \in branch_get_commits(branches[s])
    BY DEF WithinReach, branch_get_commits
  <1>2. QED
    BY <1>1 DEF get_live_commits

LEMMA MainSpares ==
  ASSUME LoadedInv, NEW c \in Commits, SparedInv(c), NEW s \in Sources, WithinReach(s, c),
         s \notin unread', MainStep
  PROVE  SparedInv(c)'
  <1> USE DEF LoadedInv, BaseInv
  <1>0. /\ by_commit \in [Commits -> Results] /\ capnp \in [Commits -> Results]
        /\ todo \subseteq Commits /\ c # None /\ write_errors \in Nat
        /\ UNCHANGED <<execVars, dirs, rmAt>>
    BY ConstantsOK DEF TypeOK, StoreTypeOK, MainStep, Start, LoadRewrite, LoadFresh, LoadStale, Loaded,
       LoadGone, RefillRetain, RefillTruncate, RefillDone, Upkeep, Drained, RefillRead, RefillSubmit
  <1>1. gcLive' # None => c \in gcLive'
    <2>1. CASE Upkeep
      <3>1. PICK read \in SUBSET Sources :
              gcLive' = get_live_commits(read) /\ unread' = unread \cup (Sources \ read)
        BY <2>1 DEF Upkeep
      <3>2. QED
        BY <3>1, LiveFound
    <2>2. CASE ~Upkeep
      <3>1. UNCHANGED gcLive
        BY <2>2 DEF MainStep, Start, LoadRewrite, LoadGone, LoadFresh, LoadStale, Loaded,
           RefillRetain, RefillTruncate, RefillDone, Drained, RefillRead, RefillSubmit
      <3>2. QED
        BY <3>1 DEF SparedInv
    <2>3. QED
      BY <2>1, <2>2
  <1>2. capnp'[c] # NoResults => c \in dirs'
    <2>1. CASE LoadRewrite
      <3>1. results_to_capnp(loading, kept) /\ main = "load" /\ loading \in todo
        BY <2>1 DEF LoadRewrite, LoadInv
      <3>2. capnp' \in {capnp, [capnp EXCEPT ![loading] = kept]}
        BY <1>0, <3>1, WriteEffect
      <3>3. capnp'[c] = capnp[c] \/ c = loading
        BY <1>0, <3>2
      <3>4. QED
        BY <1>0, <3>1, <3>3 DEF SparedInv
    <2>2. CASE ~LoadRewrite
      <3>1. UNCHANGED capnp
        BY <2>2 DEF MainStep, Start, LoadGone, LoadFresh, LoadStale, Loaded,
           RefillRetain, RefillTruncate, RefillDone, Upkeep, Drained, RefillRead, RefillSubmit
      <3>2. QED
        BY <1>0, <3>1 DEF SparedInv
    <2>3. QED
      BY <2>1, <2>2
  <1>3. main' = "load" /\ c \in todo' => c \in dirs'
    BY <1>0 DEF SparedInv, MainStep, Start, LoadRewrite, LoadGone, LoadFresh, LoadStale, Loaded,
       RefillRetain, RefillTruncate, RefillDone, Upkeep, Drained, RefillRead, RefillSubmit, LoadInv
  <1>4. write_errors' = 0 /\ IsLoaded(c)' => capnp'[c] = by_commit'[c]
    <2> SUFFICES ASSUME write_errors' = 0, IsLoaded(c)' PROVE capnp'[c] = by_commit'[c]
      OBVIOUS
    <2>1. CASE LoadRewrite
      <3>1. /\ results_to_capnp(loading, kept) /\ main = "load" /\ main' = "load" /\ loading \in todo
            /\ by_commit' = [by_commit EXCEPT ![loading] = kept] /\ todo' = todo \ {loading}
        BY <2>1 DEF LoadRewrite, LoadInv
      <3>2. write_errors = 0 /\ capnp' = [capnp EXCEPT ![loading] = kept]
        BY <1>0, <3>1, WriteEffect
      <3>3. CASE c = loading
        BY <1>0, <3>1, <3>2, <3>3
      <3>4. CASE c # loading
        <4>1. IsLoaded(c)
          BY <3>1, <3>4 DEF IsLoaded
        <4>2. QED
          BY <1>0, <3>1, <3>2, <3>4, <4>1 DEF SparedInv
      <3>5. QED
        BY <3>3, <3>4
    <2>2. CASE ~LoadRewrite
      <3>0. UNCHANGED <<capnp, write_errors>>
        BY <2>2 DEF MainStep, Start, LoadGone, LoadFresh, LoadStale, Loaded,
           RefillRetain, RefillTruncate, RefillDone, Upkeep, Drained, RefillRead, RefillSubmit
      <3>1. CASE Start
        BY <1>0, <3>0, <3>1 DEF Start, LoadInv, SparedInv, IsLoaded
      <3>2. ASSUME NEW d \in Commits, LoadFresh(d)
            PROVE  capnp'[c] = by_commit'[c]
        BY <1>0, <3>0, <3>2 DEF LoadFresh, SparedInv, IsLoaded
      <3>3. ASSUME NEW d \in Commits, LoadGone(d)
            PROVE  capnp'[c] = by_commit'[c]
        BY <1>0, <3>0, <3>3 DEF LoadGone, SparedInv, IsLoaded, LoadInv
      <3>4. CASE ~Start /\ \A d \in Commits : ~LoadFresh(d) /\ ~LoadGone(d)
        <4>1. UNCHANGED by_commit
          BY <2>2, <3>4 DEF MainStep, LoadStale, Loaded, RefillRetain, RefillTruncate, RefillDone,
             Upkeep, Drained, RefillRead, RefillSubmit
        <4>2. IsLoaded(c)
          BY <2>2, <3>4 DEF MainStep, LoadStale, Loaded, RefillRetain, RefillTruncate, RefillDone,
             Upkeep, Drained, RefillRead, RefillSubmit, IsLoaded
        <4>3. QED
          BY <3>0, <4>1, <4>2 DEF SparedInv
      <3>5. QED
        BY <3>1, <3>2, <3>3, <3>4
    <2>3. QED
      BY <2>1, <2>2
  <1>5. QED
    BY <1>0, <1>1, <1>2, <1>3, <1>4 DEF SparedInv, NoResults

\* gc-results only removes what it does not spare, and rm-results does not run.
LEMMA EnvSpares ==
  ASSUME LoadedInv, NEW c \in Commits, SparedInv(c), rms = 0, rms' = 0,
         Crash \/ (\E s \in Sources : FetchBranch(s)) \/ (\E d \in Commits : RmDirs(d))
           \/ RmUpdate \/ GcStep \/ UNCHANGED vars
  PROVE  SparedInv(c)'
  <1>0. /\ capnp \in [Commits -> Results] /\ dirs \subseteq Commits /\ c # None
        /\ status \in [Commits -> [Keys -> StatusText \cup {None}]]
    BY ConstantsOK DEF LoadedInv, BaseInv, TypeOK, StoreTypeOK
  <1>1. CASE Crash
    BY <1>0, <1>1 DEF Crash, SparedInv, NoResults, IsLoaded
  <1>2. CASE (\E s \in Sources : FetchBranch(s)) \/ UNCHANGED vars
    BY <1>2 DEF FetchBranch, vars, SparedInv, NoResults, IsLoaded
  <1>3. CASE \E d \in Commits : RmDirs(d)
    BY <1>3 DEF RmDirs
  <1>4. CASE RmUpdate
    BY <1>4 DEF RmUpdate, SparedInv
  <1>5. CASE GcDone
    BY <1>5 DEF GcDone, SparedInv, NoResults, IsLoaded
  <1>6. ASSUME NEW d \in Commits, GcDir(d) PROVE SparedInv(c)'
    <2>1. d # c
      BY <1>6 DEF GcDir, SparedInv
    <2>2. QED
      BY <1>6, <2>1 DEF GcDir, SparedInv, NoResults, IsLoaded
  <1>7. ASSUME NEW d \in Commits, GcCapnp(d) PROVE SparedInv(c)'
    <2>1. d # c
      BY <1>7 DEF GcCapnp, SparedInv
    <2>2. capnp'[c] = capnp[c]
      BY <1>0, <1>7, <2>1 DEF GcCapnp
    <2>3. QED
      BY <1>7, <2>2 DEF GcCapnp, SparedInv, NoResults, IsLoaded
  <1>8. ASSUME NEW d \in Commits, NEW k \in Keys, GcSubtest(d, k) PROVE SparedInv(c)'
    BY <1>8 DEF GcSubtest, SparedInv, NoResults, IsLoaded
  <1>9. QED
    BY <1>1, <1>2, <1>3, <1>4, <1>5, <1>6, <1>7, <1>8 DEF GcStep

LEMMA LoadedInvariant == Spec => []LoadedInv
  <1>1. OwingInv => LoadedInv
    BY DEF OwingInv
  <1>2. QED
    BY <1>1, OwingInvariant, PTL

\* A commit that stays within reach on a branch that every gc-results could read keeps
\* its published file, which is the daemon's map while the daemon runs and no write
\* fails, and its directory, so that load() finds it: gc-results, batches, crashes and
\* restarts notwithstanding.
THEOREM LiveResultsKept == Spec => BranchResultsKept
  <1> SUFFICES ASSUME NEW s \in Sources, NEW c \in Commits
               PROVE  Spec => ([](WithinReach(s, c) /\ s \notin unread /\ rms = 0) =>
                        []((main \notin {"down", "load"} /\ write_errors = 0
                              => capnp[c] = by_commit[c])
                           /\ (capnp[c] # NoResults => c \in dirs)))
    BY DEF BranchResultsKept
  <1> DEFINE Live == WithinReach(s, c) /\ s \notin unread /\ rms = 0
             Good == /\ main \notin {"down", "load"} /\ write_errors = 0
                          => capnp[c] = by_commit[c]
                     /\ capnp[c] # NoResults => c \in dirs
             Spared == SparedInv(c)
  <1>1. Init => Spared
    BY ConstantsOK DEF Init, StoreInit, SparedInv, NoResults
  <1>2. LoadedInv /\ Live /\ Live' /\ Spared /\ [Next]_vars => Spared'
    BY MainSpares, ExecSpares, EnvSpares DEF Next
  <1>3. Spared => Good
    BY DEF SparedInv, IsLoaded
  <1>4. Spec => ([]Live => []Good)
    <2> HIDE DEF Live, Good, Spared
    <2>1. QED
      BY <1>1, <1>2, <1>3, LoadedInvariant, PTL DEF Spec
  <1>5. QED
    BY <1>4, PTL
-------------------------------------------------------------------------------
(* The resume loop.                                                        *)

Spent(e) == IF did_clean[e] THEN 1 ELSE 0

\* The VMs booted and the subtests still owed never exceed the batch and the git-clean
\* that was spent, but for the VM whose outcome is not merged yet.
LegInv(e) ==
  /\ pc[e] = "idle" => boots[e] = 0 /\ ~did_clean[e]
  /\ pc[e] \in {"claimed", "announce", "setup", "prepare", "run", "clean"} =>
       boots[e] + Cardinality(remaining[e]) <= Cardinality(batch[e]) + Spent(e)
  /\ pc[e] \in {"pull", "merge"} =>
       boots[e] + Cardinality(remaining[e]) <= Cardinality(batch[e]) + Spent(e) + 1
  /\ pc[e] = "fail" => boots[e] <= Cardinality(batch[e]) + 1

LegsInv == \A e \in Executors : LegInv(e)

\* A batch is finite, and it has no more subtests than jobs.
LEMMA KeysBound ==
  ASSUME NEW ids \in SUBSET JobIds
  PROVE  /\ IsFiniteSet(ids) /\ Cardinality(ids) \in Nat
         /\ IsFiniteSet(KeysOf(ids)) /\ Cardinality(KeysOf(ids)) \in Nat
         /\ Cardinality(KeysOf(ids)) <= Cardinality(ids)
  <1>1. IsFiniteSet(ids)
    BY ConstantsOK, FS_Subset
  <1> DEFINE f == [id \in ids |-> jobKey[id].key]
  <1>2. f \in Surjection(ids, KeysOf(ids))
    BY DEF KeysOf, Surjection
  <1> HIDE DEF f
  <1>3. IsFiniteSet(KeysOf(ids)) /\ Cardinality(KeysOf(ids)) <= Cardinality(ids)
    BY <1>1, <1>2, FS_Surjection
  <1>4. QED
    BY <1>1, <1>3, FS_CardinalityType

\* What a busy executor owes is finite and not nothing.
LEMMA OwesSome ==
  ASSUME BaseInv, NEW e \in Executors, Busy(e)
  PROVE  /\ IsFiniteSet(remaining[e]) /\ Cardinality(remaining[e]) \in Nat \ {0}
         /\ Cardinality(batch[e]) \in Nat
  <1>1. batch[e] \in SUBSET JobIds
    BY DEF BaseInv, TypeOK
  <1>2. remaining[e] # {} /\ remaining[e] \in SUBSET KeysOf(batch[e])
    BY DEF BaseInv, BatchInv, BatchKeys
  <1>3. IsFiniteSet(remaining[e])
    BY <1>1, <1>2, KeysBound, FS_Subset
  <1>4. QED
    BY <1>1, <1>2, <1>3, KeysBound, FS_CardinalityType, FS_EmptySet

\* Fewer subtests are owed after a run that reached one.
LEMMA FewerOwed ==
  ASSUME NEW S, IsFiniteSet(S), NEW T \in SUBSET S, T # S
  PROVE  Cardinality(T) \in Nat /\ Cardinality(T) + 1 <= Cardinality(S)
  <1>1. IsFiniteSet(T) /\ Cardinality(T) <= Cardinality(S) /\ Cardinality(T) # Cardinality(S)
    BY FS_Subset
  <1>2. Cardinality(T) \in Nat /\ Cardinality(S) \in Nat
    BY <1>1, FS_CardinalityType
  <1>3. QED
    BY <1>1, <1>2

\* The executor's own step keeps the bound.
LEMMA ExecLegs ==
  ASSUME BaseInv, NEW e \in Executors, LegInv(e), ExecStep(e)
  PROVE  LegInv(e)'
  <1>0. /\ pc \in [Executors -> PCs] /\ remaining \in [Executors -> SUBSET Keys]
        /\ batch \in [Executors -> SUBSET JobIds]
        /\ did_clean \in [Executors -> BOOLEAN] /\ boots \in [Executors -> Nat]
    BY DEF BaseInv, TypeOK
  <1>1. Spent(e) \in {0, 1}
    BY DEF Spent
  <1> DEFINE r == Cardinality(remaining[e])
             b == Cardinality(batch[e])
  <1>2. CASE Claim(e)
    <2>1. PICK ids \in SUBSET Pending \ {{}} :
            batch' = [batch EXCEPT ![e] = ids] /\ remaining' = [remaining EXCEPT ![e] = KeysOf(ids)]
      BY <1>2 DEF Claim
    <2>2. pc[e] = "idle" /\ pc'[e] = "claimed" /\ UNCHANGED <<boots, did_clean>>
      BY <1>0, <1>2 DEF Claim, Goto
    <2>3. ids \in SUBSET JobIds /\ batch'[e] = ids /\ remaining'[e] = KeysOf(ids)
      BY <1>0, <2>1 DEF Pending
    <2>4. boots'[e] = 0 /\ Spent(e)' = 0
      BY <2>2 DEF LegInv, Spent
    <2>5. boots'[e] + Cardinality(remaining'[e]) <= Cardinality(batch'[e]) + Spent(e)'
      BY <2>3, <2>4, KeysBound
    <2>6. QED
      BY <2>2, <2>5 DEF LegInv
  <1>3. CASE Report(e)
    <2>1. pc[e] = "report" /\ (pc'[e] = "report" \/ (pc'[e] = "idle" /\ boots'[e] = 0 /\ ~did_clean'[e]))
      BY <1>0, <1>3 DEF Report, Goto
    <2>2. QED
      BY <2>1 DEF LegInv
  <1>4. CASE pc[e] # "idle" /\ pc[e] # "report"
    <2>1. r \in Nat /\ r > 0 /\ b \in Nat /\ IsFiniteSet(remaining[e])
      BY <1>4, OwesSome DEF Busy
    <2>2. boots[e] \in Nat /\ UNCHANGED batch
      BY <1>0, <1>4 DEF ExecStep, Claim, Announce, AnnounceStore, Setup, Prepare, RunVM, Pull, Merge,
         Clean, FailBatch, Report
    <2> HIDE DEF r, b
    <2>3. CASE Announce(e) \/ AnnounceStore(e) \/ Setup(e) \/ Prepare(e) \/ Clean(e) \/ FailBatch(e)
      <3>1. /\ UNCHANGED <<boots, remaining, did_clean>>
            /\ \/ pc'[e] \in {"announce", "setup", "prepare", "run", "fail"}
                  /\ pc[e] \in {"claimed", "announce", "setup", "prepare", "run", "clean"}
               \/ pc'[e] = "report"
        BY <1>0, <2>3 DEF Announce, AnnounceStore, Setup, Prepare, Clean, FailBatch, Goto
      <3>2. Spent(e)' = Spent(e)
        BY <3>1 DEF Spent
      <3>3. pc'[e] # "report" => boots[e] + r <= b + Spent(e)
        BY <3>1 DEF LegInv, r, b
      <3>4. pc'[e] # "report" => boots[e] <= b + 1
        BY <1>1, <2>1, <2>2, <3>3
      <3>5. QED
        BY <2>2, <3>1, <3>2, <3>3, <3>4 DEF LegInv, r, b
    <2>4. CASE RunVM(e)
      <3>1. /\ UNCHANGED <<remaining, did_clean>> /\ pc[e] = "run"
            /\ \/ pc'[e] = "pull" /\ boots'[e] = boots[e] + 1
               \/ pc'[e] = "fail" /\ boots'[e] = boots[e]
        BY <1>0, <2>4 DEF RunVM, Goto
      <3>2. Spent(e)' = Spent(e)
        BY <3>1 DEF Spent
      <3>3. boots[e] + r <= b + Spent(e)
        BY <3>1 DEF LegInv, r, b
      <3>4. boots[e] + 1 + r <= b + Spent(e) + 1 /\ boots[e] <= b + 1
        BY <1>1, <2>1, <2>2, <3>3
      <3>5. QED
        BY <2>2, <3>1, <3>2, <3>4 DEF LegInv, r, b
    <2>5. CASE Pull(e)
      <3>1. /\ UNCHANGED <<boots, remaining, did_clean>> /\ pc[e] = "pull"
            /\ pc'[e] \in {"merge", "fail"}
        BY <1>0, <2>5 DEF Pull, Goto
      <3>2. Spent(e)' = Spent(e)
        BY <3>1 DEF Spent
      <3>3. boots[e] + r <= b + Spent(e) + 1
        BY <3>1 DEF LegInv, r, b
      <3>4. boots[e] <= b + 1
        BY <1>1, <2>1, <2>2, <3>3
      <3>5. QED
        BY <2>2, <3>1, <3>2, <3>3, <3>4 DEF LegInv, r, b
    <2>6. CASE Merge(e)
      <3>1. boots[e] + r <= b + Spent(e) + 1 /\ UNCHANGED boots
        BY <2>6 DEF Merge, LegInv, r, b
      <3>2. CASE Unreached(e) = remaining[e]
        <4>1. /\ UNCHANGED remaining /\ did_clean'[e]
              /\ \/ did_clean[e] /\ pc'[e] = "fail"
                 \/ ~did_clean[e] /\ pc'[e] = "clean"
          BY <1>0, <2>6, <3>2 DEF Merge, NextLeg, Goto
        <4>2. Spent(e)' = 1 /\ (pc'[e] = "clean" => Spent(e) = 0)
          BY <4>1 DEF Spent
        <4>3. boots[e] <= b + 1 /\ (pc'[e] = "clean" => boots[e] + r <= b + 1)
          BY <1>1, <2>1, <2>2, <3>1, <4>2
        <4>4. QED
          BY <2>2, <3>1, <4>1, <4>2, <4>3 DEF LegInv, r, b
      <3>3. CASE Unreached(e) # remaining[e]
        <4>1. /\ remaining'[e] = Unreached(e) /\ UNCHANGED did_clean
              /\ pc'[e] \in {"report", "run"}
          BY <1>0, <2>6, <3>3 DEF Merge, NextLeg, Goto
        <4>2. Spent(e)' = Spent(e)
          BY <4>1 DEF Spent
        <4>3. Cardinality(Unreached(e)) \in Nat /\ Cardinality(Unreached(e)) + 1 <= r
          BY <2>1, <3>3, FewerOwed DEF Unreached, r
        <4>4. boots[e] + Cardinality(Unreached(e)) <= b + Spent(e)
          BY <1>1, <2>1, <2>2, <3>1, <4>3
        <4>5. QED
          BY <2>2, <3>1, <4>1, <4>2, <4>4 DEF LegInv, b
      <3>4. QED
        BY <3>2, <3>3
    <2>7. QED
      BY <1>2, <1>3, <2>3, <2>4, <2>5, <2>6 DEF ExecStep
  <1>5. QED
    BY <1>2, <1>3, <1>4 DEF ExecStep, Claim, Announce, AnnounceStore, Setup, Prepare, RunVM, Pull, Merge,
       Clean, FailBatch, Report

\* An executor's step does not touch the locals of another one.
LEMMA OtherLegs ==
  ASSUME BaseInv, NEW e \in Executors, ExecStep(e), NEW f \in Executors, f # e, LegInv(f)
  PROVE  LegInv(f)'
  <1>0. /\ pc \in [Executors -> PCs] /\ remaining \in [Executors -> SUBSET Keys]
        /\ batch \in [Executors -> SUBSET JobIds]
        /\ did_clean \in [Executors -> BOOLEAN] /\ boots \in [Executors -> Nat]
    BY DEF BaseInv, TypeOK
  <1>1. pc'[f] = pc[f] /\ remaining'[f] = remaining[f] /\ batch'[f] = batch[f]
        /\ did_clean'[f] = did_clean[f] /\ boots'[f] = boots[f]
    BY <1>0 DEF ExecStep, Claim, Announce, AnnounceStore, Setup, Prepare, RunVM, Pull, Merge, NextLeg,
       Clean, FailBatch, Report, Goto
  <1>2. QED
    BY <1>1 DEF LegInv, Spent

LEMMA LegsStep ==
  ASSUME BaseInv, LegsInv, [Next]_vars PROVE LegsInv'
  <1>1. ASSUME NEW e \in Executors, ExecStep(e) PROVE LegsInv'
    BY <1>1, ExecLegs, OtherLegs DEF LegsInv
  <1>2. CASE Crash
    BY <1>2 DEF Crash, LegsInv, LegInv
  <1>3. CASE UNCHANGED execVars
    BY <1>3 DEF LegsInv, LegInv, Spent
  <1>4. QED
    BY <1>1, <1>2, <1>3 DEF Next, vars, MainStep, Start, LoadRewrite, LoadGone, LoadFresh, LoadStale,
       Loaded, RefillRetain, RefillTruncate, RefillDone, Upkeep, Drained, RefillRead, RefillSubmit,
       FetchBranch, RmDirs, RmUpdate, GcStep, GcDone, GcDir, GcCapnp, GcSubtest

\* However VMs die and transfers break, a batch boots at most one VM per subtest and one
\* more: each run settles a subtest or spends the batch's one git-clean.
THEOREM ResumeBounded == Spec => []BootsBounded
  <1>1. Init => LegsInv
    BY DEF Init, LegsInv, LegInv
  <1>2. BaseInv /\ LegsInv => BootsBounded
    <2> SUFFICES ASSUME BaseInv, NEW e \in Executors, LegInv(e), pc[e] # "report"
                 PROVE  boots[e] <= Cardinality(batch[e]) + 1
      BY DEF LegsInv, BootsBounded
    <2>1. boots[e] \in Nat /\ batch[e] \in SUBSET JobIds /\ pc[e] \in PCs
      BY DEF BaseInv, TypeOK
    <2>2. Cardinality(batch[e]) \in Nat
      BY <2>1, KeysBound
    <2>3. CASE pc[e] = "idle"
      BY <2>2, <2>3 DEF LegInv
    <2>4. CASE pc[e] # "idle"
      <3>1. Cardinality(remaining[e]) \in Nat \ {0}
        BY <2>4, OwesSome DEF Busy
      <3>2. Spent(e) \in {0, 1}
        BY DEF Spent
      <3>3. \/ boots[e] + Cardinality(remaining[e]) <= Cardinality(batch[e]) + Spent(e) + 1
            \/ boots[e] + Cardinality(remaining[e]) <= Cardinality(batch[e]) + Spent(e)
            \/ boots[e] <= Cardinality(batch[e]) + 1
        BY <2>1, <2>4 DEF LegInv, PCs
      <3>4. QED
        BY <2>1, <2>2, <3>1, <3>2, <3>3
    <2>5. QED
      BY <2>3, <2>4
  <1>3. QED
    BY <1>1, <1>2, LegsStep, BaseInvariant, PTL DEF Spec
===============================================================================
