--------------------------- MODULE CiDaemon_proofs ---------------------------
(***************************************************************************)
(* Proofs about CiDaemon for every number of executors, sources, commits,  *)
(* subtests, jobs, crashes, rm-results and gc-results runs.                *)
(***************************************************************************)
EXTENDS CiDaemon, TLAPS

USE DEF storeVars, choirVars, mainVars, execVars, gcVars, envVars, commitdir_get_results_fs,
        build_test_specs

\* from_str() always yields a status, and so does reading a present status file.
LEMMA FromStrType ==
  ASSUME NEW text PROVE from_str(text) \in Status
  BY DEF from_str, Status

LEMMA ReadType ==
  ASSUME NEW c, NEW k PROVE read_test_result(c, k) \in Status \cup {None}
  BY FromStrType DEF read_test_result

LEMMA PulledType ==
  ASSUME NEW e, NEW k PROVE PulledStatus(e, k) \in Status
  <1>1. "Inprogress" \in Status
    BY DEF Status
  <1>2. CASE status[at[e]][k] = None
    BY <1>1, <1>2 DEF PulledStatus
  <1>3. CASE status[at[e]][k] # None
    BY <1>3, FromStrType DEF PulledStatus, read_test_result
  <1>4. QED
    BY <1>2, <1>3

\* Writing a .capnp replaces it or leaves it alone.
LEMMA WriteEffect ==
  ASSUME NEW c, NEW m, results_to_capnp(c, m), write_errors \in Nat
  PROVE  /\ capnp' \in {capnp, [capnp EXCEPT ![c] = m]}
         /\ write_errors' \in Nat /\ write_errors' \in {write_errors, write_errors + 1}
         /\ write_errors' = 0 => write_errors = 0 /\ capnp' = [capnp EXCEPT ![c] = m]
  BY DEF results_to_capnp

\* An update with legal statuses keeps the two maps well-typed.
LEMMA UpdateType ==
  ASSUME by_commit \in [Commits -> Results], capnp \in [Commits -> Results],
         write_errors \in Nat,
         NEW c \in Commits, NEW upd, update(c, upd),
         \A k \in DOMAIN upd : upd[k] \in Status
  PROVE  /\ by_commit' \in [Commits -> Results] /\ capnp' \in [Commits -> Results]
         /\ write_errors' \in Nat
  <1>1. Merged(c, upd) \in Results
    BY DEF Merged, Results
  <1>2. QED
    BY <1>1, WriteEffect DEF update

\* Writing a legal text into status files keeps the directories well-typed.
LEMMA WriteType ==
  ASSUME status \in [Commits -> [Keys -> StatusText \cup {None}]], dirs \subseteq Commits,
         NEW c \in Commits, NEW ks, NEW text \in StatusText, WriteStatus(c, ks, text)
  PROVE  /\ status' \in [Commits -> [Keys -> StatusText \cup {None}]]
         /\ dirs' \subseteq Commits
  <1>1. [k \in Keys |-> IF k \in ks THEN text ELSE status[c][k]]
          \in [Keys -> StatusText \cup {None}]
    OBVIOUS
  <1>2. QED
    BY <1>1 DEF WriteStatus

-------------------------------------------------------------------------------
(* Type correctness.  A busy executor has a commit (BatchInv) and a job in   *)
(* the Choir has a key (ChoirInv), so the three are proved together.        *)

BaseInv == TypeOK /\ ChoirInv /\ BatchInv

\* A job in the Choir has a key; an executor that is not idle has a commit.
LEMMA Handles ==
  ASSUME BaseInv
  PROVE  /\ \A id \in JobIds : jobSt[id] # "none" => jobKey[id] \in JobKeys
         /\ \A e \in Executors : pc[e] # "idle" => at[e] \in Commits
         /\ \A e \in Executors : \A id \in batch[e] : id \in JobIds /\ jobKey[id] \in JobKeys
  BY ConstantsOK DEF BaseInv, TypeOK, ChoirInv, BatchInv

\* The initial state is well-typed: nothing is queued and nobody is at work.
LEMMA InitBase == Init => BaseInv
  <1> SUFFICES ASSUME Init PROVE BaseInv
    OBVIOUS
  <1>1. TypeOK
    <2>1. StoreTypeOK
      BY DEF Init, StoreInit, StoreTypeOK, Results, NoResults
    <2>2. gcLive \in (SUBSET Commits) \cup {None} /\ rmAt \in Commits \cup {None}
      BY DEF Init
    <2>3. QED
      BY <2>1, <2>2, ConstantsOK DEF Init, TypeOK, Results, NoResults, PCs, EmptyWorker, JobKeys
  <1>2. ChoirInv
    BY DEF Init, ChoirInv, Unfinished
  <1>3. BatchInv
    BY DEF Init, BatchInv, Busy
  <1>4. QED
    BY <1>1, <1>2, <1>3 DEF BaseInv

\* The free id submit() takes is a free id.
LEMMA FreeId ==
  ASSUME JobIds \ Existing # {}
  PROVE  (CHOOSE i \in JobIds : i \notin Existing) \in JobIds \ Existing
  OBVIOUS

\* The steps of the main thread keep the types.
LEMMA MainType ==
  ASSUME TypeOK, MainStep
  PROVE  TypeOK'
  <1> USE DEF TypeOK, StoreTypeOK
  <1>1. CASE Start
    BY <1>1 DEF Start
  <1>2. CASE LoadRewrite
    <2>1. loading \in Commits /\ NoResults \in Results
      BY <1>2 DEF LoadRewrite, NoResults, Results
    <2>2. capnp' \in [Commits -> Results] /\ write_errors' \in Nat
      <3>1. results_to_capnp(loading, kept) /\ kept \in Results
        BY <1>2 DEF LoadRewrite
      <3>2. [capnp EXCEPT ![loading] = kept] \in [Commits -> Results]
        BY <2>1, <3>1
      <3>3. QED
        BY <3>1, <3>2, WriteEffect
    <2>3. QED
      BY <1>2, <2>1, <2>2 DEF LoadRewrite
  <1>3. CASE Loaded
    BY <1>3 DEF Loaded
  <1>4. CASE RefillRetain
    <2>1. jobSt' \in [JobIds -> {"none", "pending", "running", "finished"}]
      BY <1>4 DEF RefillRetain
    <2>2. jobKey' \in [JobIds -> JobKeys \cup {None}]
      BY <1>4 DEF RefillRetain
    <2>3. job_map' \in [JobKeys -> JobIds \cup {None}]
      BY <1>4 DEF RefillRetain, RetainExisting
    <2>4. specs' \subseteq Sources \X Commits /\ todo' \subseteq Commits
      BY <1>4 DEF RefillRetain
    <2>5. QED
      BY <1>4, <2>1, <2>2, <2>3, <2>4 DEF RefillRetain
  <1>5. CASE RefillTruncate
    BY <1>5 DEF RefillTruncate
  <1>6. CASE RefillDone
    BY <1>6 DEF RefillDone
  <1>7. CASE Drained
    BY <1>7 DEF Drained
  <1>8. ASSUME NEW c \in Commits, LoadFresh(c) \/ LoadGone(c)
        PROVE  TypeOK'
    BY <1>8 DEF LoadFresh, LoadGone
  <1>9. ASSUME NEW c \in Commits, LoadStale(c)
        PROVE  TypeOK'
    <2>1. Kept(c, clear) \in Results
      BY DEF Kept, Results
    <2>2. status' \in [Commits -> [Keys -> StatusText \cup {None}]]
      BY <1>9 DEF LoadStale, RemoveDirs
    <2>3. QED
      BY <1>9, <2>1, <2>2 DEF LoadStale
  <1>10. ASSUME NEW c \in Commits, RefillRead(c)
         PROVE  TypeOK'
    BY <1>10 DEF RefillRead, WantedAt
  <1>11. ASSUME NEW jk \in JobKeys, RefillSubmit(jk)
         PROVE  TypeOK'
    <2>1. CASE Tracked(jk) /\ UNCHANGED <<choirVars, job_map>>
      BY <1>11, <2>1 DEF RefillSubmit
    <2>2. CASE ~(Tracked(jk) /\ UNCHANGED <<choirVars, job_map>>)
      <3> DEFINE id == CHOOSE i \in JobIds : i \notin Existing
      <3>1. id \in JobIds
        BY <1>11, <2>2, FreeId DEF RefillSubmit
      <3>2. /\ jobSt' = [jobSt EXCEPT ![id] = "pending"]
            /\ jobKey' = [jobKey EXCEPT ![id] = jk]
            /\ job_map' = [job_map EXCEPT ![jk] = id]
        BY <1>11, <2>2 DEF RefillSubmit
      <3> HIDE DEF id
      <3>3. QED
        BY <1>11, <3>1, <3>2 DEF RefillSubmit
    <2>3. QED
      BY <2>1, <2>2
  <1>12. CASE Upkeep
    <2>1. \A read \in SUBSET Sources : get_live_commits(read) \in SUBSET Commits
      BY DEF get_live_commits, branch_get_commits
    <2>2. gcLive' \in SUBSET Commits /\ unread' \subseteq Sources
      BY <1>12, <2>1 DEF Upkeep
    <2>3. QED
      BY <1>12, <2>2 DEF Upkeep
  <1>13. QED
    BY <1>1, <1>2, <1>3, <1>4, <1>5, <1>6, <1>7, <1>8, <1>9, <1>10, <1>11, <1>12
       DEF MainStep

\* So do a crash, the fetcher, rm-results and gc-results.
LEMMA EnvType ==
  ASSUME TypeOK,
         Crash \/ (\E s \in Sources : FetchBranch(s)) \/ (\E c \in Commits : RmDirs(c))
           \/ RmUpdate \/ GcStep
  PROVE  TypeOK'
  <1> USE DEF TypeOK, StoreTypeOK
  <1>1. CASE Crash
    <2>1. NoResults \in Results /\ EmptyWorker \in [Keys -> StatusText \cup {None}]
      BY DEF NoResults, Results, EmptyWorker
    <2>2. pc' \in [Executors -> PCs] /\ boots' \in [Executors -> Nat]
      BY <1>1 DEF Crash, PCs
    <2>3. StoreTypeOK'
      BY <1>1, <2>1 DEF Crash
    <2>4. /\ worker' \in [Executors -> [Keys -> StatusText \cup {None}]]
          /\ at' \in [Executors -> Commits \cup {None}]
          /\ batch' \in [Executors -> SUBSET JobIds] /\ remaining' \in [Executors -> SUBSET Keys]
          /\ did_clean' \in [Executors -> BOOLEAN]
      BY <1>1, <2>1 DEF Crash
    <2>5. /\ jobSt' \in [JobIds -> {"none", "pending", "running", "finished"}]
          /\ jobKey' \in [JobIds -> JobKeys \cup {None}]
          /\ job_map' \in [JobKeys -> JobIds \cup {None}]
      BY <1>1 DEF Crash
    <2>6. crashes' \in Nat
      BY <1>1 DEF Crash
    <2>6a. gcLive' \in (SUBSET Commits) \cup {None}
      BY <1>1 DEF Crash
    <2> HIDE DEF StoreTypeOK
    <2>7. QED
      BY <1>1, <2>1, <2>2, <2>3, <2>4, <2>5, <2>6, <2>6a DEF Crash
  <1>2. ASSUME NEW s \in Sources, FetchBranch(s)
        PROVE  TypeOK'
    <2>1. \A w \in Walks[s] : w \in SUBSET Commits
      BY ConstantsOK
    <2>2. branches' \in [Sources -> SUBSET Commits]
      BY <1>2, <2>1 DEF FetchBranch
    <2>3. QED
      BY <1>2, <2>2 DEF FetchBranch
  <1>3. ASSUME NEW c \in Commits, RmDirs(c)
        PROVE  TypeOK'
    BY <1>3 DEF RmDirs, RemoveDirs
  <1>4. CASE RmUpdate
    <2>1. rmAt \in Commits
      BY <1>4 DEF RmUpdate
    <2>2. capnp' \in [Commits -> Results] /\ write_errors' \in Nat
      <3> DEFINE m == commitdir_get_results_fs(rmAt)
      <3>1. m \in Results
        BY ReadType DEF Results
      <3>2. results_to_capnp(rmAt, m)
        BY <1>4 DEF RmUpdate, commit_update_results
      <3> HIDE DEF m
      <3>3. [capnp EXCEPT ![rmAt] = m] \in [Commits -> Results]
        BY <2>1, <3>1
      <3>4. QED
        BY <3>2, <3>3, WriteEffect
    <2>3. QED
      BY <1>4, <2>2 DEF RmUpdate, commit_update_results
  <1>5. CASE GcStep
    <2>1. CASE GcDone
      <3>1. main' \in {"down", "load", "refill", "read", "submit", "upkeep", "idle"}
        BY <2>1 DEF GcDone
      <3>2. gcLive' \in (SUBSET Commits) \cup {None}
        BY <2>1 DEF GcDone
      <3>3. QED
        BY <2>1, <3>1, <3>2 DEF GcDone
    <2>2. ASSUME NEW c \in Commits, GcDir(c)
          PROVE  TypeOK'
      BY <2>2 DEF GcDir
    <2>3. ASSUME NEW c \in Commits, GcCapnp(c)
          PROVE  TypeOK'
      BY <2>3 DEF GcCapnp, NoResults, Results
    <2>4. ASSUME NEW c \in Commits, NEW k \in Keys, GcSubtest(c, k)
          PROVE  TypeOK'
      BY <2>4 DEF GcSubtest, RemoveDirs
    <2>5. QED
      BY <1>5, <2>1, <2>2, <2>3, <2>4 DEF GcStep
  <1>6. QED
    BY <1>1, <1>2, <1>3, <1>4, <1>5

\* And so do the executors' steps.
LEMMA ExecType ==
  ASSUME BaseInv, NEW e \in Executors, ExecStep(e)
  PROVE  TypeOK'
  <1> USE DEF TypeOK, StoreTypeOK
  <1> TypeOK
    BY DEF BaseInv
  <1>0. pc[e] # "idle" => at[e] \in Commits
    BY Handles
  <1>1. ASSUME NEW l \in PCs, Goto(e, l)
        PROVE  pc' \in [Executors -> PCs]
    BY <1>1 DEF Goto
  <1>2. \A l \in {"claimed", "announce", "setup", "prepare", "run", "pull", "merge",
                  "clean", "fail", "report", "idle"} : l \in PCs
    BY DEF PCs
  <1>3. CASE Claim(e)
    <2>1. PICK ids \in SUBSET Pending \ {{}} :
            /\ jobSt' = [id \in JobIds |-> IF id \in ids THEN "running" ELSE jobSt[id]]
            /\ batch' = [batch EXCEPT ![e] = ids]
            /\ \E c \in {jobKey[id].commit : id \in ids} : at' = [at EXCEPT ![e] = c]
            /\ remaining' = [remaining EXCEPT ![e] = KeysOf(ids)]
      BY <1>3 DEF Claim
    <2>2. \A id \in ids : id \in JobIds /\ jobKey[id] \in JobKeys
      BY Handles DEF Pending
    <2>3. at' \in [Executors -> Commits \cup {None}]
      BY <2>1, <2>2 DEF JobKeys
    <2>4. remaining' \in [Executors -> SUBSET Keys]
      BY <2>1, <2>2 DEF JobKeys, KeysOf
    <2>5. jobSt' \in [JobIds -> {"none", "pending", "running", "finished"}]
      BY <2>1
    <2>6. batch' \in [Executors -> SUBSET JobIds]
      BY <2>1 DEF Pending
    <2>7. pc' \in [Executors -> PCs]
      BY <1>3, <1>1, <1>2 DEF Claim
    <2>8. QED
      BY <1>3, <2>3, <2>4, <2>5, <2>6, <2>7 DEF Claim
  <1>4. CASE Announce(e)
    <2>1. pc' \in [Executors -> PCs]
      BY <1>4, <1>1, <1>2 DEF Announce
    <2>2. status' \in [Commits -> [Keys -> StatusText \cup {None}]] /\ dirs' \subseteq Commits
      BY <1>4, <1>0, WriteType DEF Announce, StatusText
    <2>3. QED
      BY <1>4, <2>1, <2>2 DEF Announce
  <1>5. CASE AnnounceStore(e)
    <2>1. pc' \in [Executors -> PCs]
      BY <1>5, <1>1, <1>2 DEF AnnounceStore
    <2>2. /\ by_commit' \in [Commits -> Results] /\ capnp' \in [Commits -> Results]
          /\ write_errors' \in Nat
      <3>1. \A k \in remaining[e] : [q \in remaining[e] |-> "Inprogress"][k] \in Status
        BY DEF Status
      <3>2. QED
        BY <1>5, <1>0, <3>1, UpdateType DEF AnnounceStore
    <2>3. QED
      BY <1>5, <2>1, <2>2 DEF AnnounceStore
  <1>6. CASE Setup(e)
    <2>1. pc' \in [Executors -> PCs]
      BY <1>6, <1>1, <1>2 DEF Setup
    <2>2. QED
      BY <1>6, <2>1 DEF Setup
  <1>7. CASE Prepare(e)
    <2>1. pc' \in [Executors -> PCs]
      BY <1>7, <1>1, <1>2 DEF Prepare
    <2>2. worker' \in [Executors -> [Keys -> StatusText \cup {None}]]
      <3>1. [k \in Keys |-> IF k \in remaining[e] THEN "IN_PROGRESS" ELSE None]
              \in [Keys -> StatusText \cup {None}]
        BY DEF StatusText
      <3>2. QED
        BY <1>7, <3>1 DEF Prepare
    <2>3. QED
      BY <1>7, <2>1, <2>2 DEF Prepare
  <1>8. CASE RunVM(e)
    <2>1. pc' \in [Executors -> PCs]
      BY <1>8, <1>1, <1>2 DEF RunVM
    <2>2. \A t \in VMTexts \cup {"IN_PROGRESS"} : t \in StatusText
      BY ConstantsOK DEF StatusText
    <2>3. worker' \in [Executors -> [Keys -> StatusText \cup {None}]]
      <3>1. ASSUME NEW out \in [remaining[e] -> VMTexts \cup {"IN_PROGRESS"}]
            PROVE  [k \in Keys |-> IF k \in remaining[e] THEN out[k] ELSE worker[e][k]]
                     \in [Keys -> StatusText \cup {None}]
        <4>1. worker[e] \in [Keys -> StatusText \cup {None}]
          OBVIOUS
        <4> HIDE DEF TypeOK
        <4>2. QED
          BY <2>2, <4>1
      <3>2. QED
        BY <1>8, <3>1 DEF RunVM
    <2>4. boots' \in [Executors -> Nat]
      <3>1. boots' = [boots EXCEPT ![e] = boots[e] + 1] \/ boots' = boots
        BY <1>8 DEF RunVM
      <3>2. boots \in [Executors -> Nat]
        OBVIOUS
      <3> HIDE DEF TypeOK
      <3>3. QED
        BY <3>1, <3>2
    <2>5. QED
      BY <1>8, <2>1, <2>3, <2>4 DEF RunVM
  <1>9. CASE Pull(e)
    <2>1. pc' \in [Executors -> PCs]
      BY <1>9, <1>1, <1>2 DEF Pull
    <2>2. status' \in [Commits -> [Keys -> StatusText \cup {None}]] /\ dirs' \subseteq Commits
      BY <1>9, <1>0 DEF Pull
    <2>3. QED
      BY <1>9, <2>1, <2>2 DEF Pull
  <1>10. CASE Merge(e)
    <2>1. pc' \in [Executors -> PCs]
      BY <1>10, <1>1, <1>2 DEF Merge, NextLeg
    <2>2. /\ by_commit' \in [Commits -> Results] /\ capnp' \in [Commits -> Results]
          /\ write_errors' \in Nat
      BY <1>10, <1>0, PulledType, UpdateType DEF Merge
    <2>3. remaining' \in [Executors -> SUBSET Keys] /\ did_clean' \in [Executors -> BOOLEAN]
      <3>1. Unreached(e) \subseteq Keys
        BY DEF Unreached
      <3>2. QED
        BY <1>10, <3>1 DEF Merge, NextLeg
    <2>4. worker' \in [Executors -> [Keys -> StatusText \cup {None}]]
      BY <1>10 DEF Merge
    <2>5. QED
      BY <1>10, <2>1, <2>2, <2>3, <2>4 DEF Merge
  <1>11. CASE Clean(e)
    <2>1. pc' \in [Executors -> PCs]
      BY <1>11, <1>1, <1>2 DEF Clean
    <2>2. QED
      BY <1>11, <2>1 DEF Clean
  <1>12. CASE FailBatch(e)
    <2>1. pc' \in [Executors -> PCs]
      BY <1>12, <1>1, <1>2 DEF FailBatch
    <2>2. status' \in [Commits -> [Keys -> StatusText \cup {None}]] /\ dirs' \subseteq Commits
      BY <1>12, <1>0, WriteType DEF FailBatch, StatusText
    <2>3. /\ by_commit' \in [Commits -> Results] /\ capnp' \in [Commits -> Results]
          /\ write_errors' \in Nat
      <3>1. \A k \in Terminal(e) : [q \in Terminal(e) |-> "FailedToRun"][k] \in Status
        BY DEF Status
      <3>2. QED
        BY <1>12, <1>0, <3>1, UpdateType DEF FailBatch
    <2>4. QED
      BY <1>12, <2>1, <2>2, <2>3 DEF FailBatch
  <1>13. CASE Report(e)
    <2>1. EmptyWorker \in [Keys -> StatusText \cup {None}]
      BY DEF EmptyWorker
    <2>2. pc' \in [Executors -> PCs]
      BY <1>13, <1>1, <1>2 DEF Report
    <2>3. PICK id \in batch[e] :
            /\ jobSt' = [jobSt EXCEPT ![id] = "finished"]
            /\ batch' = [batch EXCEPT ![e] = @ \ {id}]
      BY <1>13 DEF Report
    <2>4. /\ jobSt' \in [JobIds -> {"none", "pending", "running", "finished"}]
          /\ batch' \in [Executors -> SUBSET JobIds]
      BY <2>3
    <2>5. /\ at' = [at EXCEPT ![e] = None] \/ at' = at
          /\ remaining' = [remaining EXCEPT ![e] = {}] \/ remaining' = remaining
          /\ did_clean' = [did_clean EXCEPT ![e] = FALSE] \/ did_clean' = did_clean
          /\ boots' = [boots EXCEPT ![e] = 0] \/ boots' = boots
          /\ worker' = [worker EXCEPT ![e] = EmptyWorker] \/ worker' = worker
      BY <1>13 DEF Report
    <2>6. /\ at' \in [Executors -> Commits \cup {None}] /\ remaining' \in [Executors -> SUBSET Keys]
          /\ did_clean' \in [Executors -> BOOLEAN] /\ boots' \in [Executors -> Nat]
          /\ worker' \in [Executors -> [Keys -> StatusText \cup {None}]]
      <3>1. /\ at \in [Executors -> Commits \cup {None}]
            /\ remaining \in [Executors -> SUBSET Keys]
            /\ did_clean \in [Executors -> BOOLEAN] /\ boots \in [Executors -> Nat]
            /\ worker \in [Executors -> [Keys -> StatusText \cup {None}]]
        OBVIOUS
      <3> HIDE DEF TypeOK
      <3>2. boots' \in [Executors -> Nat]
        BY <2>5, <3>1
      <3>3. did_clean' \in [Executors -> BOOLEAN]
        BY <2>5, <3>1, Zenon
      <3>4. QED
        BY <2>1, <2>5, <3>1, <3>2, <3>3
    <2>7. QED
      BY <1>13, <2>2, <2>4, <2>6 DEF Report
  <1>14. QED
    BY <1>3, <1>4, <1>5, <1>6, <1>7, <1>8, <1>9, <1>10, <1>11, <1>12, <1>13 DEF ExecStep

-------------------------------------------------------------------------------
(* The Choir, job_map and the batches.                                      *)

\* An executor that moves on within its batch does not disturb the batches.
LEMMA BatchFrame ==
  ASSUME BatchInv, pc \in [Executors -> PCs], NEW e \in Executors, Busy(e),
         NEW l, l # "idle", Goto(e, l),
         UNCHANGED <<choirVars, batch, at, remaining>>
  PROVE  BatchInv'
  BY DEF BatchInv, Busy, Goto, BatchKeys, KeysOf

\* Steps outside the Choir and the executors disturb neither.
LEMMA ChoirFrame ==
  ASSUME ChoirInv, BatchInv, UNCHANGED <<choirVars, job_map, execVars>>
  PROVE  ChoirInv' /\ BatchInv'
  BY DEF ChoirInv, BatchInv, Busy, BatchKeys, KeysOf, Unfinished

\* The main thread keeps job_map and the Choir in step.
LEMMA MainChoir ==
  ASSUME BaseInv, MainStep
  PROVE  ChoirInv' /\ BatchInv'
  <1> USE DEF BaseInv
  <1>1. CASE RefillRetain
    <2>1. \A id \in JobIds : /\ id \in Unfinished => jobSt'[id] = jobSt[id] /\ jobKey'[id] = jobKey[id]
                             /\ id \notin Unfinished => jobSt'[id] = "none" /\ jobKey'[id] = None
      BY <1>1 DEF RefillRetain
    <2>2. \A id \in Unfinished : job_map'[jobKey[id]] = id
      BY <1>1, Handles DEF RefillRetain, RetainExisting, ChoirInv, Unfinished
    <2>3. ChoirInv'
      BY <2>1, <2>2 DEF ChoirInv, Unfinished
    <2>4. \A e \in Executors : \A id \in batch[e] : id \in Unfinished
      BY Handles DEF BatchInv, Unfinished
    <2>5. BatchInv'
      BY <1>1, <2>1, <2>4, Handles DEF RefillRetain, BatchInv, Busy, BatchKeys, KeysOf
    <2>6. QED
      BY <2>3, <2>5
  <1>2. ASSUME NEW jk \in JobKeys, RefillSubmit(jk)
        PROVE  ChoirInv' /\ BatchInv'
    <2>1. CASE Tracked(jk) /\ UNCHANGED <<choirVars, job_map>>
      BY <1>2, <2>1, ChoirFrame DEF RefillSubmit
    <2>2. CASE ~(Tracked(jk) /\ UNCHANGED <<choirVars, job_map>>)
      <3> DEFINE id == CHOOSE i \in JobIds : i \notin Existing
      <3>1. id \in JobIds /\ id \notin Existing
        BY <1>2, <2>2, FreeId DEF RefillSubmit
      <3>2. /\ jobSt' = [jobSt EXCEPT ![id] = "pending"]
            /\ jobKey' = [jobKey EXCEPT ![id] = jk]
            /\ job_map' = [job_map EXCEPT ![jk] = id]
            /\ job_map[jk] = None
            /\ UNCHANGED execVars
        BY <1>2, <2>2 DEF RefillSubmit, Tracked
      <3> HIDE DEF id
      <3>3. \A j \in Unfinished : j # id /\ jobKey[j] # jk /\ jobKey[j] \in JobKeys
        BY <3>1, <3>2, Handles, ConstantsOK DEF ChoirInv, Unfinished, Existing
      <3>4. jobSt \in [JobIds -> {"none", "pending", "running", "finished"}]
            /\ jobKey \in [JobIds -> JobKeys \cup {None}]
            /\ job_map \in [JobKeys -> JobIds \cup {None}]
        BY DEF TypeOK
      <3>5. ChoirInv'
        <4>1. \A j \in JobIds : jobSt'[j] = "none" <=> jobKey'[j] = None
          BY <3>1, <3>2, <3>4, ConstantsOK DEF ChoirInv
        <4>2. ASSUME NEW j \in Unfinished' PROVE job_map'[jobKey'[j]] = j
          <5>1. CASE j = id
            BY <5>1, <3>1, <3>2, <3>4
          <5>2. CASE j # id
            <6>1. j \in Unfinished /\ jobKey'[j] = jobKey[j]
              BY <4>2, <5>2, <3>1, <3>2, <3>4 DEF Unfinished
            <6>2. QED
              BY <6>1, <3>2, <3>3, <3>4 DEF ChoirInv
          <5>3. QED
            BY <5>1, <5>2
        <4>3. QED
          BY <4>1, <4>2 DEF ChoirInv
      <3>6. \A e \in Executors : id \notin batch[e]
        BY <3>1 DEF BatchInv, Existing
      <3>7. BatchInv'
        BY <3>2, <3>4, <3>6, Handles DEF BatchInv, Busy, BatchKeys, KeysOf
      <3>8. QED
        BY <3>5, <3>7
    <2>3. QED
      BY <2>1, <2>2
  <1>3. CASE Start \/ LoadRewrite \/ Loaded \/ RefillTruncate \/ RefillDone \/ Upkeep \/ Drained
    BY <1>3, ChoirFrame
       DEF Start, LoadRewrite, Loaded, RefillTruncate, RefillDone, Upkeep, Drained
  <1>4. ASSUME NEW c \in Commits, LoadGone(c) \/ LoadFresh(c) \/ LoadStale(c) \/ RefillRead(c)
        PROVE  ChoirInv' /\ BatchInv'
    BY <1>4, ChoirFrame DEF LoadGone, LoadFresh, LoadStale, RefillRead
  <1>5. QED
    BY <1>1, <1>2, <1>3, <1>4 DEF MainStep

\* Executors claim, work through and report their batches without disturbing each
\* other's.
LEMMA ExecChoir ==
  ASSUME BaseInv, NEW e \in Executors, ExecStep(e)
  PROVE  ChoirInv' /\ BatchInv'
  <1> USE DEF BaseInv
  <1>0. /\ pc \in [Executors -> PCs] /\ batch \in [Executors -> SUBSET JobIds]
        /\ at \in [Executors -> Commits \cup {None}]
        /\ remaining \in [Executors -> SUBSET Keys]
        /\ jobSt \in [JobIds -> {"none", "pending", "running", "finished"}]
        /\ jobKey \in [JobIds -> JobKeys \cup {None}]
    BY DEF TypeOK
  <1>1. CASE Claim(e)
    <2>1. PICK ids \in SUBSET Pending \ {{}} :
            /\ \A i, j \in ids : batch_key(i) = batch_key(j)
            /\ jobSt' = [id \in JobIds |-> IF id \in ids THEN "running" ELSE jobSt[id]]
            /\ batch' = [batch EXCEPT ![e] = ids]
            /\ \E c \in {jobKey[id].commit : id \in ids} : at' = [at EXCEPT ![e] = c]
            /\ remaining' = [remaining EXCEPT ![e] = KeysOf(ids)]
      BY <1>1 DEF Claim
    <2>2. pc' = [pc EXCEPT ![e] = "claimed"] /\ pc[e] = "idle" /\ UNCHANGED <<jobKey, job_map>>
      BY <1>1 DEF Claim, Goto
    <2>3. \A id \in ids : id \in JobIds /\ jobKey[id] \in JobKeys /\ jobSt[id] = "pending"
      BY Handles DEF Pending
    <2>4. PICK c \in {jobKey[id].commit : id \in ids} : at' = [at EXCEPT ![e] = c]
      BY <2>1
    <2>5. \A id \in ids : jobKey[id].commit = c
      BY <2>1, <2>4 DEF batch_key
    <2>6. c \in Commits /\ c # None
      BY <2>3, <2>4, ConstantsOK DEF JobKeys
    <2>7. ChoirInv'
      BY <1>0, <2>1, <2>2, <2>3 DEF ChoirInv, Unfinished
    <2>8. \A f \in Executors : batch[f] \cap ids = {}
      BY <2>3 DEF BatchInv
    <2>9. BatchInv'
      <3>1. ASSUME NEW f \in Executors, NEW id \in batch'[f]
            PROVE  jobSt'[id] = "running" /\ jobKey'[id].commit = at'[f]
        BY <1>0, <2>1, <2>2, <2>3, <2>4, <2>5, <2>8 DEF BatchInv
      <3>2. ASSUME NEW f \in Executors, NEW g \in Executors, f # g
            PROVE  batch'[f] \cap batch'[g] = {}
        BY <1>0, <2>1, <2>8, <3>2 DEF BatchInv
      <3>3. ASSUME NEW f \in Executors
            PROVE  /\ pc'[f] = "idle" <=> batch'[f] = {}
                   /\ pc'[f] = "idle" <=> at'[f] = None
        BY <1>0, <2>1, <2>2, <2>4, <2>6 DEF BatchInv
      <3>4. ASSUME NEW f \in Executors, Busy(f)'
            PROVE  remaining'[f] # {} /\ remaining'[f] \subseteq BatchKeys(f)'
        <4>1. CASE f = e
          BY <1>0, <2>1, <2>2, <4>1 DEF BatchKeys, KeysOf
        <4>2. CASE f # e
          BY <1>0, <2>1, <2>2, <3>4, <4>2 DEF BatchKeys, KeysOf, BatchInv, Busy
        <4>3. QED
          BY <4>1, <4>2
      <3>5. QED
        BY <3>1, <3>2, <3>3, <3>4 DEF BatchInv
    <2>10. QED
      BY <2>7, <2>9
  <1>2. CASE Announce(e) \/ AnnounceStore(e) \/ Setup(e) \/ Prepare(e) \/ RunVM(e) \/ Pull(e)
             \/ Clean(e) \/ FailBatch(e)
    <2>1. Busy(e) /\ UNCHANGED <<choirVars, job_map, batch, at, remaining>>
      BY <1>2 DEF Announce, AnnounceStore, Setup, Prepare, RunVM, Pull, Clean, FailBatch, Busy
    <2>2. \E l \in PCs \ {"idle"} : Goto(e, l)
      BY <1>2 DEF Announce, AnnounceStore, Setup, Prepare, RunVM, Pull, Clean, FailBatch, PCs
    <2>3. BatchInv'
      BY <1>0, <2>1, <2>2, BatchFrame
    <2>4. ChoirInv'
      BY <2>1 DEF ChoirInv, Unfinished
    <2>5. QED
      BY <2>3, <2>4
  <1>3. CASE Merge(e)
    <2>1. Busy(e) /\ UNCHANGED <<choirVars, job_map, batch, at>>
      BY <1>3 DEF Merge, Busy
    <2>2. PICK l \in PCs \ {"idle"} : Goto(e, l) /\ (l # "report" => remaining'[e] # {})
      BY <1>0, <1>3, <2>1 DEF Merge, NextLeg, PCs, BatchInv
    <2>3. remaining'[e] \subseteq remaining[e]
          /\ \A f \in Executors \ {e} : remaining'[f] = remaining[f]
      BY <1>0, <1>3 DEF Merge, NextLeg, Unreached
    <2>4. ChoirInv'
      BY <2>1 DEF ChoirInv, Unfinished
    <2>5. BatchInv'
      BY <1>0, <2>1, <2>2, <2>3 DEF BatchInv, Busy, Goto, BatchKeys, KeysOf
    <2>6. QED
      BY <2>4, <2>5
  <1>4. CASE Report(e)
    <2>1. PICK id \in batch[e] :
            /\ jobSt' = [jobSt EXCEPT ![id] = "finished"]
            /\ batch' = [batch EXCEPT ![e] = @ \ {id}]
            /\ IF batch[e] = {id}
               THEN /\ pc' = [pc EXCEPT ![e] = "idle"]
                    /\ at' = [at EXCEPT ![e] = None]
                    /\ remaining' = [remaining EXCEPT ![e] = {}]
               ELSE UNCHANGED <<pc, at, remaining>>
      BY <1>4 DEF Report, Goto
    <2>2. pc[e] = "report" /\ UNCHANGED <<jobKey, job_map>>
      BY <1>4 DEF Report
    <2>3. id \in JobIds /\ jobSt[id] = "running"
      BY <1>0, <2>1 DEF BatchInv
    <2>4. ChoirInv'
      BY <1>0, <2>1, <2>2, <2>3 DEF ChoirInv, Unfinished
    <2>5. ASSUME NEW f \in Executors \ {e}
          PROVE  /\ batch'[f] = batch[f] /\ pc'[f] = pc[f] /\ at'[f] = at[f]
                 /\ remaining'[f] = remaining[f] /\ id \notin batch[f]
      BY <1>0, <2>1 DEF BatchInv
    <2>6. BatchInv'
      <3>1. ASSUME NEW f \in Executors, NEW j \in batch'[f]
            PROVE  jobSt'[j] = "running" /\ jobKey'[j].commit = at'[f]
        BY <1>0, <2>1, <2>2, <2>3, <2>5 DEF BatchInv
      <3>2. ASSUME NEW f \in Executors, NEW g \in Executors, f # g
            PROVE  batch'[f] \cap batch'[g] = {}
        BY <1>0, <2>1, <3>2 DEF BatchInv
      <3>3. ASSUME NEW f \in Executors
            PROVE  /\ pc'[f] = "idle" <=> batch'[f] = {}
                   /\ pc'[f] = "idle" <=> at'[f] = None
        BY <1>0, <2>1, <2>2, <2>5 DEF BatchInv
      <3>4. ASSUME NEW f \in Executors, Busy(f)'
            PROVE  remaining'[f] # {} /\ remaining'[f] \subseteq BatchKeys(f)'
        <4>1. f # e
          BY <1>0, <2>1, <2>2, <3>4 DEF Busy
        <4>2. QED
          BY <2>2, <2>5, <3>4, <4>1 DEF BatchKeys, KeysOf, BatchInv, Busy
      <3>5. QED
        BY <3>1, <3>2, <3>3, <3>4 DEF BatchInv
    <2>7. QED
      BY <2>4, <2>6
  <1>5. QED
    BY <1>1, <1>2, <1>3, <1>4 DEF ExecStep

\* A crash forgets all of it; the fetcher and the cleaners do not touch it.
LEMMA EnvChoir ==
  ASSUME BaseInv,
         Crash \/ (\E s \in Sources : FetchBranch(s)) \/ (\E c \in Commits : RmDirs(c))
           \/ RmUpdate \/ GcStep
  PROVE  ChoirInv' /\ BatchInv'
  <1>1. CASE Crash
    BY <1>1 DEF Crash, ChoirInv, BatchInv, Unfinished, Busy
  <1>2. CASE ~Crash
    BY <1>2, ChoirFrame DEF BaseInv, FetchBranch, RmDirs, RmUpdate, GcStep, GcDone, GcDir,
                            GcCapnp, GcSubtest
  <1>3. QED
    BY <1>1, <1>2

\* Every step keeps the base invariant.
LEMMA BaseStep ==
  ASSUME BaseInv, [Next]_vars
  PROVE  BaseInv'
  <1>1. CASE MainStep
    BY <1>1, MainType, MainChoir DEF BaseInv
  <1>2. ASSUME NEW e \in Executors, ExecStep(e)
        PROVE  BaseInv'
    BY <1>2, ExecType, ExecChoir DEF BaseInv
  <1>3. CASE Crash \/ (\E s \in Sources : FetchBranch(s)) \/ (\E c \in Commits : RmDirs(c))
             \/ RmUpdate \/ GcStep
    BY <1>3, EnvType, EnvChoir DEF BaseInv
  <1>4. CASE UNCHANGED vars
    <2>1. TypeOK'
      BY <1>4 DEF vars, BaseInv, TypeOK, StoreTypeOK
    <2>2. QED
      BY <1>4, <2>1, ChoirFrame DEF vars, BaseInv
  <1>5. QED
    BY <1>1, <1>2, <1>3, <1>4 DEF Next

LEMMA BaseInvariant == Spec => []BaseInv
  <1>1. QED
    BY InitBase, BaseStep, PTL DEF Spec

\* Every reachable state of the daemon is well-typed.
THEOREM TypeCorrect == Spec => []TypeOK
  <1>1. BaseInv => TypeOK
    BY DEF BaseInv
  <1>2. QED
    BY <1>1, BaseInvariant, PTL

\* No JobKey is queued or running twice, whatever executors claim and report
\* between the steps of refill(), and whoever else is configured.
THEOREM NoDuplicates == Spec => []NoDuplicateJobs
  <1>1. BaseInv => NoDuplicateJobs
    BY DEF BaseInv, ChoirInv, NoDuplicateJobs
  <1>2. QED
    BY <1>1, BaseInvariant, PTL

===============================================================================
