--------------------------- MODULE BatchLogs_proofs ---------------------------
(***************************************************************************)
(* Proofs about BatchLogs: for any test file, any number of executors and  *)
(* any bounds, the log served for a verdict is that of its run, and a      *)
(* subtest that failed to run has a log.                                   *)
(***************************************************************************)
EXTENDS BatchLogs, FiniteSetTheorems, WellFoundedInduction, TLAPS

USE DEF batchVars, vars, Kept, History

(* The inductive invariant.                                                *)

Stages == {"idle", "steps", "ran", "pulled", "written", "linked", "ended", "failed",
           "settle", "over"}

\* Stages of an iteration: with subtests to run, with a VM run of their own, and with
\* their old logs gone.
Open == {"steps", "ran", "pulled", "written", "linked"}
Live == {"ran", "pulled", "written", "linked"}
Fresh == {"pulled", "written", "linked"}

\* The batches: disjoint, in progress as far as they remain, each iteration with a run of
\* its own that no recorded verdict is from.
BatchInv ==
  /\ status \in [Names -> Status \cup {None}] /\ by \in [Names -> 0..MaxRuns]
  /\ dirs \subseteq Names /\ reran \subseteq 1..Len(primary) /\ through \subseteq Names
  /\ errors \in 0..MaxErrors /\ removals \in 0..MaxRemovals
  /\ at \in [Executors -> Stages]
  /\ jobs \in [Executors -> SUBSET Names] /\ remaining \in [Executors -> SUBSET Names]
  /\ run \in [Executors -> 0..MaxRuns]
  /\ got \in [Executors -> [Names -> {"Inprogress", "Passed", "Unknown"}]]
  /\ primary \in Seq(Names) /\ Len(primary) <= MaxRuns
  /\ \A s \in Names : by[s] <= Len(primary)
  /\ \A e \in Executors :
       /\ remaining[e] \subseteq jobs[e]
       /\ \A s \in remaining[e] : status[s] = "Inprogress"
       /\ at[e] \in Open => remaining[e] # {}
       /\ at[e] \in Live => /\ run[e] \in 1..Len(primary)
                            /\ primary[run[e]] = First(remaining[e])
                            /\ \A s \in Names : by[s] # run[e]
  /\ \A e, f \in Executors : e # f =>
       /\ jobs[e] \cap jobs[f] = {}
       /\ at[e] \in Live /\ at[f] \in Live => run[e] # run[f]

\* The links: none in a circle.
LinksInv ==
  /\ br \in [Names -> {None} \cup Files \cup Links]
  /\ \A S \in SUBSET Names : S # {} => \E s \in S : To(s) \notin S

\* The file at t is that of run r, or one that a fallback made through a link.
Holds(t, r) == To(t) = None /\ (br[t] = File(r) \/ t \in through)

\* The log of s is that of run r: in its own directory or one link away.
Good(s, r) ==
  r \in reran \/ Holds(s, r) \/ (To(s) = primary[r] /\ Holds(primary[r], r))

\* An iteration finds the place of its log empty, fills it and links to it.
LogOf(e) ==
  LET first == First(remaining[e])
  IN /\ at[e] \in Fresh => \A r \in RunsOf(remaining[e]) : r = run[e] \/ r \in reran
     /\ at[e] \in {"pulled", "written"} =>
          \A s \in remaining[e] :
            /\ To(s) = None
            /\ (s = first /\ at[e] = "written") \/ br[s] = None \/ s \in through
     /\ at[e] = "pulled" => first \in dirs \/ run[e] \in reran
     /\ at[e] = "written" => br[first] = File(run[e]) \/ run[e] \in reran
     /\ at[e] = "linked" => \A s \in remaining[e] \cap dirs : Good(s, run[e])

\* The log of a recorded verdict is that of its run.
VerdictLogs ==
  \A s \in Names : status[s] \in {"Passed", "Unknown"} /\ by[s] # 0 => Good(s, by[s])

LogInv == (\A e \in Executors : LogOf(e)) /\ VerdictLogs

\* Without removals every batch has its directories, and a link leads to a log, or to one
\* that is being written.
FailInv ==
  removals = 0 =>
    /\ \A e \in Executors :
         /\ jobs[e] \subseteq dirs
         /\ at[e] \in {"settle", "over"} => \A s \in jobs[e] : br[s] # None
         /\ at[e] = "written" => br[First(remaining[e])] # None
    /\ \A s \in Names :
         /\ status[s] = "FailedToRun" => br[s] # None
         /\ To(s) # None =>
              /\ To(s) \in dirs
              /\ \/ br[To(s)] # None
                 \/ \E e \in Executors : at[e] \in {"pulled", "written"} /\ To(s) \in remaining[e]

-----------------------------------------------------------------------------
(* Helpers: the first of a batch, links and where they end.                *)

LEMMA FirstIn ==
  ASSUME NEW S \in SUBSET Names, S # {}
  PROVE  First(S) \in S
  <1> DEFINE T == {i \in 1..Len(Subtests) : Subtests[i] \in S}
             R == OpToRel(<, Nat)
  <1>1. T \subseteq Nat /\ T # {}
    BY DEF Names
  <1>2. IsWellFoundedOn(R, Nat)
    BY NatLessThanWellFounded
  <1>3. \A x, y \in Nat : x < y => <<x, y>> \in R
    BY DEF OpToRel
  <1>4. \A i \in T : Subtests[i] \in S
    OBVIOUS
  <1>5. First(S) = Subtests[Min(T)]
    BY Zenon DEF First
  <1> HIDE DEF R, T
  <1>6. PICK x \in T : \A y \in T : ~(<<y, x>> \in R)
    BY <1>1, <1>2, WFMin
  <1>7. ASSUME NEW y \in T PROVE x <= y
    <2>1. x \in Nat /\ y \in Nat
      BY <1>1
    <2>2. ~(y < x)
      BY <2>1, <1>3, <1>6, Zenon
    <2>3. QED
      BY <2>1, <2>2
  <1>8. Min(T) \in T
    BY <1>6, <1>7, Zenon DEF Min
  <1>9. QED
    BY <1>4, <1>5, <1>8

\* What a full_log.br can be.
LEMMA Kinds ==
  /\ \A r \in 0..MaxRuns : File(r) \in Files /\ File(r) # None /\ File(r).log = r
  /\ \A t \in Names : Link(t) \in Links /\ Link(t) # None /\ Link(t).to = t
  /\ \A f \in Files : f \notin Links /\ f # None /\ f.log \in 0..MaxRuns
  /\ \A l \in Links : l.to \in Names /\ l # None
  /\ None \notin Links /\ None \notin Files /\ None \notin Names /\ None \notin 0..MaxRuns
  <1>1. \A r \in 0..MaxRuns : File(r) \in Files /\ File(r).log = r
    BY DEF Files, File
  <1>2. \A t \in Names : Link(t) \in Links /\ Link(t).to = t
    BY DEF Links, Link
  <1>3. None \notin Links /\ None \notin Files /\ None \notin Names /\ None \notin 0..MaxRuns
    BY SubtestsOK, Zenon
  <1>4. \A l \in Links : l.to \in Names
    BY DEF Links, Link
  <1>5. \A f \in Files : f.to = None /\ f.log \in 0..MaxRuns
    BY DEF Files, File
  <1>6. QED
    BY <1>1, <1>2, <1>3, <1>4, <1>5

LEMMA ToType ==
  ASSUME LinksInv, NEW s \in Names
  PROVE  /\ To(s) \in Names \cup {None}
         /\ To(s) = None <=> br[s] \notin Links
         /\ To(s) # None => br[s] # None /\ To(s) \in Names
  BY Kinds DEF LinksInv, To

LEMMA ReachClosed ==
  ASSUME LinksInv, NEW s \in Names
  PROVE  /\ s \in Reach(s) /\ Reach(s) \subseteq Names
         /\ \A t \in Reach(s) : To(t) \in Reach(s) \cup {None}
  <1>1. s \in Reach(s) /\ Reach(s) \subseteq Names
    BY DEF Reach
  <1>2. ASSUME NEW t \in Reach(s), To(t) # None PROVE To(t) \in Reach(s)
    <2>1. To(t) \in Names
      BY <1>1, <1>2, ToType
    <2>2. ASSUME NEW S \in SUBSET Names, s \in S, \A u \in S : To(u) \in S \cup {None}
          PROVE  To(t) \in S
      <3>1. t \in S
        BY <2>2 DEF Reach
      <3>2. QED
        BY <3>1, <2>2, <1>2
    <2>3. QED
      BY <2>1, <2>2 DEF Reach
  <1>3. QED
    BY <1>1, <1>2

\* An open() ends, and not at a link.
LEMMA EndType ==
  ASSUME LinksInv, NEW s \in Names
  PROVE  End(s) \in Reach(s) /\ End(s) \in Names /\ To(End(s)) = None
  <1>1. PICK t \in Reach(s) : To(t) \notin Reach(s)
    BY ReachClosed DEF LinksInv
  <1>2. To(t) = None
    BY <1>1, ReachClosed
  <1>3. End(s) \in Reach(s) /\ To(End(s)) = None
    BY <1>1, <1>2, Zenon DEF End
  <1>4. QED
    BY <1>3, ReachClosed

LEMMA EndSelf ==
  ASSUME LinksInv, NEW s \in Names, To(s) = None
  PROVE  End(s) = s
  <1>1. End(s) \in {s}
    <2>1. \A u \in {s} : To(u) \in {s} \cup {None}
      OBVIOUS
    <2>2. {s} \in SUBSET Names /\ End(s) \in Reach(s)
      BY EndType
    <2>3. QED
      BY <2>1, <2>2 DEF Reach
  <1>2. QED
    BY <1>1

LEMMA EndHop ==
  ASSUME LinksInv, NEW s \in Names, To(s) # None, To(To(s)) = None
  PROVE  End(s) = To(s)
  <1> PICK t \in Names : t = To(s)
    BY ToType
  <1>1. End(s) \in {s, t}
    <2>1. \A u \in {s, t} : To(u) \in {s, t} \cup {None}
      OBVIOUS
    <2>2. {s, t} \in SUBSET Names
      OBVIOUS
    <2>3. End(s) \in Reach(s)
      BY EndType
    <2>4. QED
      BY <2>1, <2>2, <2>3 DEF Reach
  <1>2. QED
    BY <1>1, EndType

\* An open() ends where it began, or where some link leads.
LEMMA EndIsTarget ==
  ASSUME LinksInv, NEW s \in Names
  PROVE  End(s) = s \/ \E x \in Names : To(x) = End(s)
  <1> PICK t \in Names : t = End(s)
    BY EndType
  <1> SUFFICES ASSUME t # s, \A x \in Names : To(x) # t PROVE FALSE
    OBVIOUS
  <1>1. \A u \in Names \ {t} : To(u) \in (Names \ {t}) \cup {None}
    BY ToType
  <1>2. s \in Names \ {t} /\ Names \ {t} \in SUBSET Names
    OBVIOUS
  <1>3. t \in Reach(s)
    BY EndType
  <1>4. QED
    BY <1>1, <1>2, <1>3 DEF Reach

\* A log is served exactly where the open() ends at a file.
LEMMA ServedLog ==
  ASSUME LinksInv, NEW s \in Names
  PROVE  Served(s) = None <=> br[End(s)] = None
  <1>1. br[End(s)] \in Files \cup {None}
    BY EndType, ToType DEF LinksInv
  <1>2. QED
    BY <1>1, Kinds DEF Served

-----------------------------------------------------------------------------
(* The batches.                                                            *)

LEMMA BatchInit == Init => BatchInv
  BY SubtestsOK DEF Init, BatchInv, Stages, Open, Live, Nothing, Status

LEMMA BatchClaim ==
  ASSUME BatchInv, NEW e \in Executors, Claim(e)
  PROVE  BatchInv'
  <1> USE DEF Stages, Open, Live, Status
  <1>1. PICK S \in SUBSET (Names \ Busy) :
          /\ S # {}
          /\ jobs' = [jobs EXCEPT ![e] = S] /\ remaining' = [remaining EXCEPT ![e] = S]
          /\ status' = [s \in Names |-> IF s \in S THEN "Inprogress" ELSE status[s]]
          /\ dirs' = dirs \cup S
    BY DEF Claim
  <1>2. /\ at[e] = "idle" /\ at' = [at EXCEPT ![e] = "steps"]
        /\ UNCHANGED <<by, br, run, got, did_clean, primary, reran, through, errors, removals>>
    BY DEF Claim
  <1>3. \A f \in Executors : jobs[f] \cap S = {}
    BY <1>1 DEF Busy
  <1>4. /\ status' \in [Names -> Status \cup {None}] /\ dirs' \subseteq Names
        /\ at' \in [Executors -> Stages]
        /\ jobs' \in [Executors -> SUBSET Names] /\ remaining' \in [Executors -> SUBSET Names]
    BY <1>1, <1>2 DEF BatchInv
  <1>5. ASSUME NEW f \in Executors
        PROVE  /\ remaining'[f] \subseteq jobs'[f]
               /\ \A s \in remaining'[f] : status'[s] = "Inprogress"
               /\ at'[f] \in Open => remaining'[f] # {}
    <2>1. CASE f = e
      BY <1>1, <1>2, <2>1 DEF BatchInv
    <2>2. CASE f # e
      BY <1>1, <1>2, <2>2 DEF BatchInv
    <2>3. QED
      BY <2>1, <2>2
  <1>6. ASSUME NEW f \in Executors, at'[f] \in Live
        PROVE  f # e /\ at[f] \in Live /\ remaining'[f] = remaining[f]
    BY <1>1, <1>2, <1>6 DEF BatchInv
  <1>7. \A f, h \in Executors : f # h => jobs'[f] \cap jobs'[h] = {}
    BY <1>1, <1>3 DEF BatchInv
  <1>8. QED
    BY <1>2, <1>4, <1>5, <1>6, <1>7 DEF BatchInv

LEMMA BatchRun ==
  ASSUME BatchInv, NEW e \in Executors, Run(e)
  PROVE  BatchInv'
  <1> USE DEF Stages, Open, Live, Status
  <1> PICK n \in Nat : n = Len(primary)
    BY DEF BatchInv
  <1> PICK p : p = First(remaining[e])
    OBVIOUS
  <1>1. /\ at[e] = "steps" /\ n < MaxRuns /\ primary' = Append(primary, p)
        /\ at' = [at EXCEPT ![e] = "ran"] /\ run' = [run EXCEPT ![e] = n + 1]
        /\ UNCHANGED <<status, by, dirs, br, jobs, remaining, got, did_clean, reran, through,
                       errors, removals>>
    BY DEF Run
  <1>2. p \in Names
    BY <1>1, FirstIn DEF BatchInv
  <1>3. /\ primary' \in Seq(Names) /\ Len(primary') = n + 1 /\ primary'[n + 1] = p
        /\ \A r \in 1..n : primary'[r] = primary[r]
    BY <1>1, <1>2 DEF BatchInv
  <1>4. n + 1 \in 0..MaxRuns /\ n + 1 <= MaxRuns
    BY <1>1, SubtestsOK
  <1>5. at' \in [Executors -> Stages] /\ run' \in [Executors -> 0..MaxRuns]
    BY <1>1, <1>4 DEF BatchInv
  <1>6. \A s \in Names : by[s] \in Nat /\ by[s] <= n
    BY SubtestsOK DEF BatchInv
  <1>7. ASSUME NEW f \in Executors, at'[f] \in Live
        PROVE  /\ run'[f] \in 1..(n + 1) /\ primary'[run'[f]] = First(remaining[f])
               /\ \A s \in Names : by[s] # run'[f]
               /\ f # e => at[f] \in Live /\ run'[f] = run[f] /\ run[f] \in 1..n
    <2>1. CASE f = e
      BY <1>1, <1>3, <1>6, <2>1 DEF BatchInv
    <2>2. CASE f # e
      BY <1>1, <1>3, <1>7, <2>2 DEF BatchInv
    <2>3. QED
      BY <2>1, <2>2
  <1>8. ASSUME NEW f \in Executors, NEW h \in Executors, f # h, at'[f] \in Live, at'[h] \in Live
        PROVE  run'[f] # run'[h]
    <2>1. run'[e] = n + 1
      BY <1>1 DEF BatchInv
    <2>2. CASE f # e /\ h # e
      BY <1>7, <1>8, <2>2 DEF BatchInv
    <2>3. CASE f = e \/ h = e
      BY <1>7, <1>8, <2>1, <2>3
    <2>4. QED
      BY <2>2, <2>3
  <1>9. /\ reran' \subseteq 1..Len(primary') /\ Len(primary') <= MaxRuns
        /\ \A s \in Names : by'[s] <= Len(primary')
    BY <1>1, <1>3, <1>4, <1>6 DEF BatchInv
  <1>10. \A f \in Executors :
           /\ remaining'[f] \subseteq jobs'[f]
           /\ \A s \in remaining'[f] : status'[s] = "Inprogress"
           /\ at'[f] \in Open => remaining'[f] # {}
    BY <1>1 DEF BatchInv
  <1>11. QED
    BY <1>1, <1>3, <1>5, <1>7, <1>8, <1>9, <1>10 DEF BatchInv

\* A step that only moves a batch on, within its iteration or out of it.
LEMMA BatchFrame ==
  ASSUME BatchInv, NEW e \in Executors, NEW a \in Stages, at' = [at EXCEPT ![e] = a],
         a \in Live => at[e] \in Live, a \in Open => at[e] \in Open,
         UNCHANGED <<status, by, jobs, remaining, run, primary, removals>>,
         dirs' \subseteq Names, reran' \subseteq 1..Len(primary), through' \subseteq Names,
         errors' \in 0..MaxErrors,
         got' \in [Executors -> [Names -> {"Inprogress", "Passed", "Unknown"}]]
  PROVE  BatchInv'
  <1>1. at' \in [Executors -> Stages]
    BY DEF BatchInv
  <1>2. \A f \in Executors : (at'[f] \in Live => at[f] \in Live) /\ (at'[f] \in Open => at[f] \in Open)
    BY DEF BatchInv
  <1>3. QED
    BY <1>1, <1>2 DEF BatchInv

LEMMA RunsType ==
  ASSUME BatchInv
  PROVE  \A S : RunsOf(S) \subseteq 1..Len(primary)
  BY DEF RunsOf

LEMMA BatchIter ==
  ASSUME BatchInv, LinksInv, NEW e \in Executors,
         Pull(e) \/ WriteLog(e) \/ LinkLogs(e) \/ StepError(e) \/ Fallback(e)
  PROVE  BatchInv'
  <1>0. "pulled" \in Stages /\ "written" \in Stages /\ "linked" \in Stages /\ "failed" \in Stages
        /\ "settle" \in Stages /\ "over" \in Stages /\ "failed" \notin Open /\ "failed" \notin Live
        /\ "settle" \notin Open /\ "settle" \notin Live /\ "over" \notin Open /\ "over" \notin Live
        /\ \A a \in Live : a \in Open
    BY DEF Stages, Open, Live
  <1>1. CASE Pull(e)
    <2>1. at[e] \in Live /\ at[e] \in Open
      BY <1>1 DEF Pull, Live, Open
    <2>2. reran' \subseteq 1..Len(primary) /\ dirs' \subseteq Names /\ through' \subseteq Names
      BY <1>1, RunsType DEF Pull, BatchInv
    <2>3. got' \in [Executors -> [Names -> {"Inprogress", "Passed", "Unknown"}]]
      BY <1>1 DEF Pull, BatchInv
    <2>4. QED
      BY <1>0, <1>1, <2>1, <2>2, <2>3, BatchFrame DEF Pull, BatchInv
  <1>2. CASE WriteLog(e) \/ LinkLogs(e)
    <2>1. at[e] \in Live /\ at[e] \in Open
      BY <1>2 DEF WriteLog, LinkLogs, Live, Open
    <2>2. PICK a \in {"written", "linked"} : at' = [at EXCEPT ![e] = a]
      BY <1>2 DEF WriteLog, LinkLogs
    <2>3. UNCHANGED <<status, by, dirs, jobs, remaining, run, got, primary, reran, through,
                      errors, removals>>
      BY <1>2 DEF WriteLog, LinkLogs
    <2>4. QED
      BY <1>0, <2>1, <2>2, <2>3, BatchFrame DEF BatchInv
  <1>3. CASE StepError(e)
    <2>1. errors' \in 0..MaxErrors
      BY <1>3, SubtestsOK DEF StepError, BatchInv
    <2>2. QED
      BY <1>0, <1>3, <2>1, BatchFrame DEF StepError, BatchInv
  <1>4. CASE Fallback(e)
    <2>1. Missing(e) \subseteq Names
      BY DEF Missing, BatchInv
    <2>2. dirs' \subseteq Names
      BY <1>4, <2>1 DEF Fallback, BatchInv
    <2>3. through' \subseteq Names
      BY <1>4, <2>1, EndType DEF Fallback, BatchInv
    <2>4. PICK a \in {"settle", "over"} : at' = [at EXCEPT ![e] = a]
      BY <1>4 DEF Fallback
    <2>5. QED
      BY <1>0, <1>4, <2>2, <2>3, <2>4, BatchFrame DEF Fallback, BatchInv
  <1>5. QED
    BY <1>1, <1>2, <1>3, <1>4

LEMMA BatchRecord ==
  ASSUME BatchInv, NEW e \in Executors, Record(e)
  PROVE  BatchInv'
  <1> USE DEF Stages, Open, Live, Status
  <1> PICK next : next = {s \in remaining[e] : Found(e, s) = "Inprogress"}
    OBVIOUS
  <1>1. PICK a \in {"ended", "failed", "steps"} :
          at' = [at EXCEPT ![e] = a] /\ (next = {} <=> a = "ended")
    BY DEF Record
  <1>2. /\ at[e] = "linked"
        /\ status' = [s \in Names |-> IF s \in remaining[e] THEN Found(e, s) ELSE status[s]]
        /\ by' = [s \in Names |-> IF s \in remaining[e] \ next THEN run[e] ELSE by[s]]
        /\ remaining' = [remaining EXCEPT ![e] = next]
        /\ UNCHANGED <<dirs, br, jobs, run, got, primary, reran, through, errors, removals>>
    BY DEF Record
  <1>3. \A s \in Names : Found(e, s) \in {"Inprogress", "Passed", "Unknown"}
    BY DEF Found, BatchInv
  <1>4. /\ status' \in [Names -> Status \cup {None}] /\ by' \in [Names -> 0..MaxRuns]
        /\ at' \in [Executors -> Stages] /\ remaining' \in [Executors -> SUBSET Names]
    BY <1>1, <1>2, <1>3 DEF BatchInv
  <1>5. run[e] \in 1..Len(primary)
    BY <1>2 DEF BatchInv
  <1>6. \A s \in Names : by'[s] <= Len(primary)
    BY <1>2, <1>5 DEF BatchInv
  <1>7. ASSUME NEW f \in Executors
        PROVE  /\ remaining'[f] \subseteq jobs[f]
               /\ \A s \in remaining'[f] : status'[s] = "Inprogress"
               /\ at'[f] \in Open => remaining'[f] # {}
    <2>1. CASE f = e
      <3>1. remaining'[f] = next /\ next \subseteq remaining[e] /\ at'[f] = a
        BY <1>1, <1>2, <2>1 DEF BatchInv
      <3>2. \A s \in next : s \in Names /\ Found(e, s) = "Inprogress"
        BY DEF BatchInv
      <3>3. QED
        BY <1>1, <1>2, <2>1, <3>1, <3>2 DEF BatchInv
    <2>2. CASE f # e
      <3>1. remaining'[f] = remaining[f] /\ at'[f] = at[f]
        BY <1>1, <1>2, <2>2 DEF BatchInv
      <3>2. \A s \in remaining[f] : s \in Names /\ s \notin remaining[e]
        BY <2>2 DEF BatchInv
      <3>3. QED
        BY <1>2, <3>1, <3>2 DEF BatchInv
    <2>3. QED
      BY <2>1, <2>2
  <1>8. ASSUME NEW f \in Executors, at'[f] \in Live
        PROVE  /\ f # e /\ at[f] \in Live /\ remaining'[f] = remaining[f]
               /\ \A s \in Names : by'[s] # run[f]
    <2>1. f # e /\ at[f] \in Live /\ remaining'[f] = remaining[f]
      BY <1>1, <1>2, <1>8 DEF BatchInv
    <2>2. run[f] # run[e] /\ \A s \in Names : by[s] # run[f]
      BY <2>1, <1>2 DEF BatchInv
    <2>3. QED
      BY <1>2, <2>1, <2>2
  <1>9. QED
    BY <1>2, <1>4, <1>6, <1>7, <1>8 DEF BatchInv

LEMMA BatchSettle ==
  ASSUME BatchInv, NEW e \in Executors, Settle(e)
  PROVE  BatchInv'
  <1> USE DEF Stages, Open, Live, Status
  <1>1. PICK open \in SUBSET jobs[e] :
          /\ status' = [s \in Names |-> IF s \in open THEN "FailedToRun" ELSE status[s]]
          /\ by' = [s \in Names |-> IF s \in open THEN 0 ELSE by[s]]
          /\ dirs' = dirs \cup open
    BY DEF Settle
  <1>2. /\ at' = [at EXCEPT ![e] = "idle"] /\ jobs' = [jobs EXCEPT ![e] = {}]
        /\ remaining' = [remaining EXCEPT ![e] = {}] /\ run' = [run EXCEPT ![e] = 0]
        /\ got' = [got EXCEPT ![e] = Nothing]
        /\ UNCHANGED <<br, primary, reran, through, errors, removals>>
    BY DEF Settle
  <1>3. 0 \in 0..MaxRuns /\ 0 <= Len(primary)
    BY SubtestsOK DEF BatchInv
  <1>4. /\ status' \in [Names -> Status \cup {None}] /\ by' \in [Names -> 0..MaxRuns]
        /\ dirs' \subseteq Names
        /\ at' \in [Executors -> Stages]
        /\ jobs' \in [Executors -> SUBSET Names] /\ remaining' \in [Executors -> SUBSET Names]
        /\ run' \in [Executors -> 0..MaxRuns]
    BY <1>1, <1>2, <1>3 DEF BatchInv
  <1>5. got' \in [Executors -> [Names -> {"Inprogress", "Passed", "Unknown"}]]
    BY <1>2 DEF BatchInv, Nothing
  <1>6. \A s \in Names : by'[s] <= Len(primary)
    BY <1>1, <1>3 DEF BatchInv
  <1>7. ASSUME NEW f \in Executors
        PROVE  /\ remaining'[f] \subseteq jobs'[f]
               /\ \A s \in remaining'[f] : status'[s] = "Inprogress"
               /\ at'[f] \in Open => remaining'[f] # {}
    <2>1. CASE f = e
      BY <1>1, <1>2, <2>1 DEF BatchInv
    <2>2. CASE f # e
      <3>1. remaining'[f] = remaining[f] /\ at'[f] = at[f] /\ jobs'[f] = jobs[f]
        BY <1>2, <2>2 DEF BatchInv
      <3>2. \A s \in remaining[f] : s \in Names /\ s \notin open
        BY <1>1, <2>2 DEF BatchInv
      <3>3. QED
        BY <1>1, <3>1, <3>2 DEF BatchInv
    <2>3. QED
      BY <2>1, <2>2
  <1>8. ASSUME NEW f \in Executors, at'[f] \in Live
        PROVE  /\ f # e /\ at[f] \in Live /\ remaining'[f] = remaining[f] /\ run'[f] = run[f]
               /\ run[f] \in 1..Len(primary) /\ \A s \in Names : by'[s] # run[f]
    <2>1. f # e /\ at[f] \in Live /\ remaining'[f] = remaining[f] /\ run'[f] = run[f]
      BY <1>2, <1>8 DEF BatchInv
    <2>2. run[f] \in 1..Len(primary) /\ \A s \in Names : by[s] # run[f]
      BY <2>1 DEF BatchInv
    <2>3. QED
      BY <1>1, <2>1, <2>2
  <1>9. \A f, h \in Executors : f # h => jobs'[f] \cap jobs'[h] = {}
    BY <1>2 DEF BatchInv
  <1>10. QED
    BY <1>2, <1>4, <1>5, <1>6, <1>7, <1>8, <1>9 DEF BatchInv

LEMMA BatchRemovals ==
  ASSUME BatchInv, (\E s \in Names : RmResults(s)) \/ (\E clear \in BOOLEAN : Restart(clear))
  PROVE  BatchInv'
  <1> USE DEF Stages, Open, Live, Status
  <1>1. CASE \E s \in Names : RmResults(s)
    <2>1. PICK s \in Names : RmResults(s)
      BY <1>1
    <2>2. /\ UNCHANGED <<status, at, jobs, remaining, run, got, primary, through, errors>>
          /\ by' = [by EXCEPT ![s] = 0] /\ dirs' = dirs \ {s} /\ removals < MaxRemovals
          /\ removals' = removals + 1 /\ reran' = reran \cup RunsOf({s})
      BY <2>1 DEF RmResults, Removed
    <2>3. /\ removals' \in 0..MaxRemovals /\ reran' \subseteq 1..Len(primary)
          /\ dirs' \subseteq Names
      <3>1. removals' \in 0..MaxRemovals
        BY <2>2, SubtestsOK DEF BatchInv
      <3>2. reran' \subseteq 1..Len(primary) /\ dirs' \subseteq Names
        BY <2>2, RunsType DEF BatchInv
      <3>3. QED
        BY <3>1, <3>2
    <2>4. by' \in [Names -> 0..MaxRuns] /\ \A t \in Names : by'[t] <= Len(primary)
      BY <2>2, SubtestsOK DEF BatchInv
    <2>5. ASSUME NEW f \in Executors, at[f] \in Live, NEW t \in Names PROVE by'[t] # run[f]
      BY <2>2, <2>5 DEF BatchInv
    <2>6. QED
      BY <2>2, <2>3, <2>4, <2>5 DEF BatchInv
  <1>2. CASE \E clear \in BOOLEAN : Restart(clear)
    <2>1. PICK stale \in SUBSET Names :
            /\ Removed(stale)
            /\ status' = [s \in Names |-> IF s \in stale THEN None ELSE status[s]]
            /\ NoBatches /\ UNCHANGED <<by, primary, through, errors>>
      BY <1>2 DEF Restart
    <2>2. removals' \in 0..MaxRemovals /\ reran' \subseteq 1..Len(primary) /\ dirs' \subseteq Names
      <3>1. removals' \in 0..MaxRemovals
        BY <2>1, SubtestsOK DEF BatchInv, Removed
      <3>2. reran' \subseteq 1..Len(primary) /\ dirs' \subseteq Names
        BY <2>1, RunsType DEF BatchInv, Removed
      <3>3. QED
        BY <3>1, <3>2
    <2>3. status' \in [Names -> Status \cup {None}]
      BY <2>1 DEF BatchInv
    <2>4. 0 \in 0..MaxRuns
      BY SubtestsOK
    <2>5. /\ at' \in [Executors -> Stages]
          /\ jobs' \in [Executors -> SUBSET Names] /\ remaining' \in [Executors -> SUBSET Names]
          /\ run' \in [Executors -> 0..MaxRuns]
          /\ got' \in [Executors -> [Names -> {"Inprogress", "Passed", "Unknown"}]]
          /\ \A f \in Executors : at'[f] = "idle" /\ remaining'[f] = {} /\ jobs'[f] = {}
      BY <2>1, <2>4 DEF NoBatches, Nothing
    <2>6. QED
      BY <2>1, <2>2, <2>3, <2>5 DEF BatchInv
  <1>3. QED
    BY <1>1, <1>2

LEMMA BatchNext == BatchInv /\ LinksInv /\ [Next]_vars => BatchInv'
  <1> SUFFICES ASSUME BatchInv, LinksInv, [Next]_vars PROVE BatchInv'
    OBVIOUS
  <1>1. CASE UNCHANGED vars
    BY <1>1 DEF BatchInv
  <1>2. QED
    BY <1>1, BatchClaim, BatchRun, BatchIter, BatchRecord, BatchSettle, BatchRemovals DEF Next

-----------------------------------------------------------------------------
(* The links.                                                              *)

LEMMA LinksInit == Init => LinksInv
  <1> SUFFICES ASSUME Init PROVE LinksInv
    OBVIOUS
  <1>1. \A s \in Names : br[s] = None
    BY DEF Init
  <1>2. \A s \in Names : To(s) = None
    BY <1>1, Kinds DEF To
  <1>3. br \in [Names -> {None} \cup Files \cup Links]
    BY DEF Init
  <1>4. QED
    BY <1>2, <1>3, Kinds DEF LinksInv

\* Links only go.
LEMMA LinksFrame ==
  ASSUME LinksInv, br' \in [Names -> {None} \cup Files \cup Links],
         \A s \in Names : br'[s] = br[s] \/ br'[s] \in Files \cup {None}
  PROVE  LinksInv'
  <1>1. \A s \in Names : To(s)' = To(s) \/ To(s)' = None
    BY Kinds DEF To
  <1>2. ASSUME NEW S \in SUBSET Names, S # {} PROVE \E s \in S : To(s)' \notin S
    <2>1. PICK s \in S : To(s) \notin S
      BY <1>2 DEF LinksInv
    <2>2. None \notin S
      BY Kinds
    <2>3. QED
      BY <1>1, <2>1, <2>2
  <1>3. QED
    BY <1>2 DEF LinksInv

\* The first subtest is written in place.
LEMMA Written ==
  ASSUME BatchInv, LinksInv, LogInv, NEW e \in Executors, WriteLog(e), NEW first,
         first = First(remaining[e])
  PROVE  /\ first \in remaining[e] /\ first \in Names
         /\ br' = IF first \in dirs THEN [br EXCEPT ![first] = File(run[e])] ELSE br
         /\ File(run[e]) \in Files
  <1>1. at[e] = "pulled" /\ remaining[e] # {} /\ remaining[e] \in SUBSET Names
    BY DEF WriteLog, BatchInv, Open
  <1>2. first \in remaining[e] /\ first \in Names
    BY <1>1, FirstIn
  <1>3. To(first) = None
    BY <1>1, <1>2 DEF LogInv, LogOf
  <1>4. End(first) = first
    BY <1>2, <1>3, EndSelf
  <1>5. File(run[e]) \in Files
    BY Kinds DEF BatchInv
  <1>6. QED
    BY <1>2, <1>4, <1>5 DEF WriteLog

\* What a fallback makes was not there.
LEMMA Made ==
  ASSUME BatchInv, LinksInv, NEW e \in Executors, Fallback(e)
  PROVE  \E made \in SUBSET Names :
           /\ \A t \in made : br[t] = None
           /\ br' = [s \in Names |-> IF s \in made THEN File(0) ELSE br[s]]
           /\ through' = through \cup (made \ Missing(e))
           /\ \A s \in Missing(e) : End(s) \in dirs' => End(s) \in made
  <1> DEFINE made == {End(s) : s \in Missing(e)} \cap dirs'
  <1>1. Missing(e) \subseteq Names
    BY DEF Missing, BatchInv
  <1>2. made \subseteq Names
    BY <1>1, EndType
  <1>3. \A s \in Missing(e) : br[End(s)] = None
    BY <1>1, ServedLog DEF Missing
  <1>4. /\ br' = [s \in Names |-> IF s \in made THEN File(0) ELSE br[s]]
        /\ through' = through \cup (made \ Missing(e))
    BY DEF Fallback
  <1>5. /\ \A t \in made : br[t] = None
        /\ \A s \in Missing(e) : End(s) \in dirs' => End(s) \in made
    BY <1>3
  <1> HIDE DEF made
  <1>6. QED
    BY <1>2, <1>4, <1>5

LEMMA LinksLinkLogs ==
  ASSUME BatchInv, LinksInv, LogInv, NEW e \in Executors, LinkLogs(e)
  PROVE  LinksInv'
  <1> PICK first : first = First(remaining[e])
    OBVIOUS
  <1>1. at[e] = "written" /\ remaining[e] # {} /\ remaining[e] \in SUBSET Names
    BY DEF LinkLogs, BatchInv, Open
  <1>2. first \in remaining[e] /\ first \in Names
    BY <1>1, FirstIn
  <1>3. To(first) = None
    BY <1>1, <1>2 DEF LogInv, LogOf
  <1>4. br' = [s \in Names |-> IF s \in (remaining[e] \ {first}) \cap dirs /\ br[s] = None
                               THEN Link(first) ELSE br[s]]
    BY DEF LinkLogs, Linked
  <1>5. br' \in [Names -> {None} \cup Files \cup Links]
    BY <1>2, <1>4, Kinds DEF LinksInv
  <1>6. (\A s \in Names : To(s)' = To(s) \/ To(s)' = first) /\ To(first)' = None
    BY <1>2, <1>3, <1>4, Kinds DEF To
  <1>7. ASSUME NEW S \in SUBSET Names, S # {} PROVE \E s \in S : To(s)' \notin S
    <2>1. CASE first \in S
      BY <2>1, <1>6, Kinds
    <2>2. CASE first \notin S
      BY <2>2, <1>6, <1>7 DEF LinksInv
    <2>3. QED
      BY <2>1, <2>2
  <1>8. QED
    BY <1>5, <1>7 DEF LinksInv

LEMMA LinksNext == BatchInv /\ LinksInv /\ LogInv /\ [Next]_vars => LinksInv'
  <1> SUFFICES ASSUME BatchInv, LinksInv, LogInv, [Next]_vars PROVE LinksInv'
    OBVIOUS
  <1>1. CASE UNCHANGED br
    BY <1>1, LinksFrame DEF LinksInv
  <1>2. ASSUME NEW e \in Executors, Pull(e) PROVE LinksInv'
    <2>1. br' = [s \in Names |-> IF s \in remaining[e] THEN None ELSE br[s]]
      BY <1>2 DEF Pull, Dropped
    <2>2. QED
      BY <2>1, LinksFrame DEF LinksInv
  <1>3. ASSUME NEW e \in Executors, WriteLog(e) PROVE LinksInv'
    <2> PICK first : first = First(remaining[e])
      OBVIOUS
    <2>1. /\ first \in Names /\ File(run[e]) \in Files
          /\ br' = IF first \in dirs THEN [br EXCEPT ![first] = File(run[e])] ELSE br
      BY <1>3, Written
    <2>2. QED
      BY <2>1, LinksFrame DEF LinksInv
  <1>4. ASSUME NEW e \in Executors, Fallback(e) PROVE LinksInv'
    <2>1. PICK made \in SUBSET Names :
            br' = [s \in Names |-> IF s \in made THEN File(0) ELSE br[s]]
      BY <1>4, Made
    <2>2. File(0) \in Files
      BY Kinds, SubtestsOK
    <2>3. QED
      BY <2>1, <2>2, LinksFrame DEF LinksInv
  <1>5. ASSUME NEW S, Removed(S) PROVE LinksInv'
    <2>1. br' = [s \in Names |-> IF s \in S THEN None ELSE br[s]]
      BY <1>5 DEF Removed
    <2>2. QED
      BY <2>1, LinksFrame DEF LinksInv
  <1>6. ASSUME NEW e \in Executors, Claim(e) \/ Run(e) \/ Record(e) \/ StepError(e) \/ Settle(e)
        PROVE  UNCHANGED br
    BY <1>6 DEF Claim, Run, Record, StepError, Settle
  <1>7. (\E s \in Names : RmResults(s)) \/ (\E clear \in BOOLEAN : Restart(clear)) => LinksInv'
    BY <1>5 DEF RmResults, Restart
  <1>8. QED
    BY <1>1, <1>2, <1>3, <1>4, <1>6, <1>7, LinksLinkLogs DEF Next

-----------------------------------------------------------------------------
(* The logs.                                                               *)

LEMMA LogInit == Init => LogInv
  <1> SUFFICES ASSUME Init PROVE LogInv
    OBVIOUS
  <1>1. \A e \in Executors : at[e] = "idle"
    BY DEF Init
  <1>2. \A s \in Names : by[s] = 0
    BY DEF Init
  <1>3. QED
    BY <1>1, <1>2 DEF LogInv, LogOf, VerdictLogs, Fresh

\* A log stays that of its run when neither its file nor the link to it is touched, or only
\* a fallback puts a file where there was none.
LEMMA GoodKept ==
  ASSUME BatchInv, LinksInv, NEW s \in Names, NEW r \in 1..Len(primary), Good(s, r),
         primary'[r] = primary[r], reran \subseteq reran',
         \/ r \in reran'
         \/ \A t \in {s, primary[r]} :
              /\ t \in through => t \in through'
              /\ br'[t] = br[t] \/ (br[t] = None /\ br'[t] = File(0))
  PROVE  Good(s, r)'
  <1> PICK p \in Names : p = primary[r]
    BY DEF BatchInv
  <1>0. File(0) \notin Links /\ None \notin Links
    BY Kinds, SubtestsOK
  <1>1. ASSUME NEW t \in Names, t \in through => t \in through',
               br'[t] = br[t] \/ (br[t] = None /\ br'[t] = File(0))
        PROVE  To(t)' = To(t) /\ (Holds(t, r) => Holds(t, r)')
    <2>1. To(t)' = To(t)
      BY <1>0, <1>1 DEF To
    <2>2. br[t] = File(r) => br'[t] = File(r)
      BY <1>1, Kinds, SubtestsOK DEF BatchInv
    <2>3. QED
      BY <1>1, <2>1, <2>2 DEF Holds
  <1>2. CASE r \in reran'
    BY <1>2 DEF Good
  <1>3. CASE r \notin reran'
    <2>1. /\ To(s)' = To(s) /\ (Holds(s, r) => Holds(s, r)')
          /\ Holds(p, r) => Holds(p, r)'
      BY <1>1, <1>3
    <2>2. Holds(primary[r], r)' <=> Holds(p, r)'
      BY DEF Holds, To
    <2>3. QED
      BY <1>3, <2>1, <2>2 DEF Good
  <1>4. QED
    BY <1>2, <1>3

\* Nothing about the logs changes.
LEMMA GoodSame ==
  ASSUME UNCHANGED <<br, primary, reran, through>>
  PROVE  \A s, r : To(s)' = To(s) /\ (Good(s, r)' <=> Good(s, r))
  BY DEF Good, Holds, To

\* A verdict's run has happened, and is not that of an iteration under way.
LEMMA VerdictRun ==
  ASSUME BatchInv, NEW s \in Names, by[s] # 0
  PROVE  by[s] \in 1..Len(primary) /\ \A e \in Executors : at[e] \in Live => by[s] # run[e]
  BY SubtestsOK DEF BatchInv

\* A step of e's iteration that touches the logs of M, a part of its batch: the other
\* batches and the recorded verdicts keep theirs.
LEMMA LogFrame ==
  ASSUME BatchInv, LinksInv, LogInv, NEW e \in Executors, NEW M \in SUBSET remaining[e],
         M = {} \/ at[e] \in Live,
         NEW a, at' = [at EXCEPT ![e] = a],
         UNCHANGED <<status, by, jobs, remaining, run, primary>>,
         reran \subseteq reran', \A r \in RunsOf(M) : r = run[e] \/ r \in reran',
         dirs \subseteq dirs', dirs' \subseteq dirs \cup remaining[e],
         \A t \in Names \ M : br'[t] = br[t] /\ (t \in through => t \in through')
  PROVE  (\A f \in Executors : f # e => LogOf(f)') /\ VerdictLogs'
  <1>1. M \subseteq Names
    BY DEF BatchInv
  <1>2. ASSUME NEW s \in Names \ M, NEW r \in 1..Len(primary), Good(s, r), M = {} \/ r # run[e]
        PROVE  Good(s, r)'
    <2>1. primary[r] \in M => r \in reran'
      BY <1>2 DEF RunsOf
    <2>2. primary[r] \in Names /\ primary'[r] = primary[r]
      BY DEF BatchInv
    <2>3. r \in reran' \/ \A t \in {s, primary[r]} :
              /\ t \in through => t \in through'
              /\ br'[t] = br[t] \/ (br[t] = None /\ br'[t] = File(0))
      BY <2>1, <2>2, <1>2
    <2>4. QED
      BY <1>2, <2>2, <2>3, GoodKept
  <1>3. ASSUME NEW f \in Executors, f # e PROVE LogOf(f)'
    <2> PICK first : first = First(remaining[f])
      OBVIOUS
    <2>0. /\ at'[f] = at[f] /\ remaining'[f] = remaining[f] /\ run'[f] = run[f]
          /\ First(remaining'[f]) = first
      BY <1>3 DEF BatchInv
    <2>1. remaining[f] \subseteq Names \ M /\ remaining[f] \cap dirs' = remaining[f] \cap dirs
      BY <1>3 DEF BatchInv
    <2>2. \A s \in remaining[f] : To(s)' = To(s) /\ br'[s] = br[s]
                                  /\ (s \in through => s \in through')
      BY <2>1 DEF To
    <2>3. RunsOf(remaining[f])' = RunsOf(remaining[f])
      BY <2>0 DEF RunsOf
    <2>4. ASSUME at[f] \in Live PROVE first \in remaining[f]
      BY <2>4, FirstIn DEF BatchInv, Live, Open
    <2>5. ASSUME at[f] = "linked" PROVE \A s \in remaining[f] \cap dirs : Good(s, run[f])'
      <3>1. at[f] \in Live /\ run[f] \in 1..Len(primary)
        BY <2>5 DEF BatchInv, Live
      <3>2. M = {} \/ run[f] # run[e]
        BY <3>1, <1>3 DEF BatchInv
      <3>3. \A s \in remaining[f] \cap dirs : Good(s, run[f])
        BY <2>5 DEF LogInv, LogOf
      <3>4. \A s \in remaining[f] \cap dirs, r \in {run[f]} : Good(s, r)'
        BY <3>1, <3>2, <3>3, <2>1, <1>2
      <3>5. QED
        BY <3>4, <2>0
    <2>6. LogOf(f)
      BY DEF LogInv
    <2>7. at[f] \in Fresh => \A r \in RunsOf(remaining[f]) : r = run[f] \/ r \in reran'
      BY <2>6 DEF LogOf
    <2>8. /\ at[f] \in {"pulled", "written"} =>
               \A s \in remaining[f] :
                 /\ To(s)' = None
                 /\ (s = first /\ at[f] = "written") \/ br'[s] = None \/ s \in through'
          /\ at[f] = "pulled" => first \in dirs' \/ run[f] \in reran'
          /\ at[f] = "written" => br'[first] = File(run[f]) \/ run[f] \in reran'
      BY <2>2, <2>4, <2>6 DEF LogOf, Live
    <2>9. QED
      BY <2>0, <2>1, <2>3, <2>5, <2>7, <2>8 DEF LogOf
  <1>4. VerdictLogs'
    <2> SUFFICES ASSUME NEW s \in Names, status[s] \in {"Passed", "Unknown"}, by[s] # 0
                 PROVE  Good(s, by[s])'
      BY DEF VerdictLogs
    <2> PICK r : r = by[s]
      OBVIOUS
    <2>1. Good(s, r) /\ r \in 1..Len(primary) /\ (M = {} \/ r # run[e])
      BY VerdictRun DEF LogInv, VerdictLogs
    <2>2. s \notin M
      BY DEF BatchInv
    <2>3. Good(s, r)'
      BY <2>1, <2>2, <1>2
    <2>4. QED
      BY <2>3
  <1>5. QED
    BY <1>3, <1>4

LEMMA LogPull ==
  ASSUME BatchInv, LinksInv, LogInv, NEW e \in Executors, Pull(e)
  PROVE  LogInv'
  <1>1. /\ at[e] = "ran" /\ at' = [at EXCEPT ![e] = "pulled"]
        /\ UNCHANGED <<status, by, jobs, remaining, run, primary>>
        /\ dirs' = dirs \cup remaining[e]
        /\ br' = [s \in Names |-> IF s \in remaining[e] THEN None ELSE br[s]]
        /\ reran' = reran \cup (RunsOf(remaining[e]) \ {run[e]})
        /\ through' = through \ remaining[e]
    BY DEF Pull, Dropped
  <1>2. at[e] \in Live /\ remaining[e] # {} /\ remaining[e] \in SUBSET Names /\ at'[e] = "pulled"
    BY <1>1 DEF BatchInv, Live, Open
  <1>3. (\A f \in Executors : f # e => LogOf(f)') /\ VerdictLogs'
    BY <1>1, <1>2, LogFrame
  <1>4. LogOf(e)'
    <2>1. \A s \in remaining[e] : br'[s] = None /\ To(s)' = None
      BY <1>1, <1>2, Kinds DEF To
    <2>2. RunsOf(remaining[e])' = RunsOf(remaining[e])
      BY <1>1 DEF RunsOf
    <2>3. First(remaining[e]) \in dirs'
      BY <1>1, <1>2, FirstIn
    <2>4. QED
      BY <1>1, <1>2, <2>1, <2>2, <2>3 DEF LogOf
  <1>5. QED
    BY <1>3, <1>4 DEF LogInv

LEMMA LogWrite ==
  ASSUME BatchInv, LinksInv, LogInv, NEW e \in Executors, WriteLog(e)
  PROVE  LogInv'
  <1> PICK first : first = First(remaining[e])
    OBVIOUS
  <1>1. /\ at[e] = "pulled" /\ at' = [at EXCEPT ![e] = "written"]
        /\ UNCHANGED <<status, by, dirs, jobs, remaining, run, primary, reran, through>>
    BY DEF WriteLog
  <1>2. /\ first \in remaining[e] /\ first \in Names /\ File(run[e]) \in Files
        /\ br' = IF first \in dirs THEN [br EXCEPT ![first] = File(run[e])] ELSE br
    BY Written
  <1>3. at[e] \in Live /\ at[e] \in Fresh /\ at'[e] = "written" /\ remaining[e] \subseteq Names
    BY <1>1 DEF BatchInv, Live, Fresh
  <1>4. LogOf(e)
    BY DEF LogInv
  <1>5. \A r \in RunsOf(remaining[e]) : r = run[e] \/ r \in reran
    BY <1>3, <1>4 DEF LogOf
  <1>6. \A t \in Names \ {first} : br'[t] = br[t]
    BY <1>2 DEF LinksInv
  <1>7. (\A f \in Executors : f # e => LogOf(f)') /\ VerdictLogs'
    <2>1. \A r \in RunsOf({first}) : r = run[e] \/ r \in reran'
      BY <1>1, <1>2, <1>5 DEF RunsOf
    <2>2. {first} \in SUBSET remaining[e]
      BY <1>2
    <2>3. QED
      BY <1>1, <1>3, <1>6, <2>1, <2>2, LogFrame
  <1>8. LogOf(e)'
    <2>1. br'[first] = IF first \in dirs THEN File(run[e]) ELSE br[first]
      BY <1>2 DEF LinksInv
    <2>2. \A s \in remaining[e] : To(s) = None /\ (br[s] = None \/ s \in through)
      BY <1>1, <1>4 DEF LogOf
    <2>3. To(first)' = None
      BY <1>2, <2>1, <2>2, Kinds DEF To
    <2>4. \A s \in remaining[e] : To(s)' = None /\ (s = first \/ br'[s] = None \/ s \in through)
      BY <1>3, <1>6, <2>2, <2>3 DEF To
    <2>5. br'[first] = File(run[e]) \/ run[e] \in reran
      BY <1>1, <1>4, <2>1 DEF LogOf
    <2>6. RunsOf(remaining[e])' = RunsOf(remaining[e])
      BY <1>1 DEF RunsOf
    <2>7. QED
      BY <1>1, <1>3, <1>5, <2>4, <2>5, <2>6 DEF LogOf
  <1>9. QED
    BY <1>7, <1>8 DEF LogInv

LEMMA LogLink ==
  ASSUME BatchInv, LinksInv, LogInv, NEW e \in Executors, LinkLogs(e)
  PROVE  LogInv'
  <1> PICK first : first = First(remaining[e])
    OBVIOUS
  <1> PICK r : r = run[e]
    OBVIOUS
  <1>1. /\ at[e] = "written" /\ at' = [at EXCEPT ![e] = "linked"]
        /\ UNCHANGED <<status, by, dirs, jobs, remaining, run, primary, reran, through>>
        /\ br' = [s \in Names |-> IF s \in (remaining[e] \ {first}) \cap dirs /\ br[s] = None
                                  THEN Link(first) ELSE br[s]]
    BY DEF LinkLogs, Linked
  <1>2. /\ at[e] \in Live /\ at[e] \in Fresh /\ at'[e] = "linked" /\ remaining[e] \in SUBSET Names
        /\ remaining[e] # {} /\ r \in 1..Len(primary) /\ primary[r] = first
    BY <1>1 DEF BatchInv, Live, Fresh, Open
  <1>3. first \in remaining[e] /\ first \in Names
    BY <1>2, FirstIn
  <1>4. LogOf(e)
    BY DEF LogInv
  <1>5. \A q \in RunsOf(remaining[e]) : q = run[e] \/ q \in reran
    BY <1>2, <1>4 DEF LogOf
  <1>6. (\A f \in Executors : f # e => LogOf(f)') /\ VerdictLogs'
    <2>1. remaining[e] \in SUBSET remaining[e]
      OBVIOUS
    <2>2. QED
      BY <1>1, <1>2, <1>5, <2>1, LogFrame
  <1>7. LogOf(e)'
    <2>1. To(first)' = None /\ (br'[first] = File(r) \/ r \in reran)
      BY <1>1, <1>3, <1>4 DEF LogOf, To
    <2>2. r \in reran \/ Holds(first, r)'
      BY <2>1 DEF Holds
    <2>3. ASSUME NEW s \in remaining[e] \cap dirs PROVE Good(s, r)'
      <3>1. CASE s = first
        BY <3>1, <2>2, <1>1 DEF Good
      <3>2. CASE s # first /\ br[s] = None
        <4>1. br'[s] = Link(first)
          BY <1>1, <1>2, <3>2
        <4>2. To(s)' = first
          BY <4>1, <1>3, Kinds DEF To
        <4>3. Holds(first, r)' => Holds(primary[r], r)'
          BY <1>1, <1>2 DEF Holds, To
        <4>4. QED
          BY <1>1, <1>2, <2>2, <4>2, <4>3 DEF Good
      <3>3. CASE s # first /\ br[s] # None
        <4>1. br'[s] = br[s] /\ To(s) = None /\ s \in through
          BY <1>1, <1>2, <1>4, <3>3 DEF LogOf
        <4>2. Holds(s, r)'
          BY <1>1, <4>1 DEF Holds, To
        <4>3. QED
          BY <4>2 DEF Good
      <3>4. QED
        BY <3>1, <3>2, <3>3
    <2>4. RunsOf(remaining[e])' = RunsOf(remaining[e])
      BY <1>1 DEF RunsOf
    <2>5. \A s \in remaining[e] \cap dirs : Good(s, run[e])'
      BY <1>1, <2>3 DEF Good, Holds, To
    <2>6. QED
      BY <1>1, <1>2, <1>5, <2>4, <2>5 DEF LogOf
  <1>8. QED
    BY <1>6, <1>7 DEF LogInv

LEMMA LogStepError ==
  ASSUME BatchInv, LinksInv, LogInv, NEW e \in Executors, StepError(e)
  PROVE  LogInv'
  <1>1. /\ at' = [at EXCEPT ![e] = "failed"] /\ at'[e] = "failed"
        /\ UNCHANGED <<status, by, dirs, br, jobs, remaining, run, primary, reran, through>>
    BY DEF StepError, BatchInv
  <1>2. {} \in SUBSET remaining[e] /\ RunsOf({}) = {}
    BY DEF RunsOf
  <1>3. (\A f \in Executors : f # e => LogOf(f)') /\ VerdictLogs'
    BY <1>1, <1>2, LogFrame
  <1>4. LogOf(e)'
    BY <1>1 DEF LogOf, Fresh
  <1>5. QED
    BY <1>3, <1>4 DEF LogInv

LEMMA LogFallback ==
  ASSUME BatchInv, LinksInv, LogInv, NEW e \in Executors, Fallback(e)
  PROVE  LogInv'
  <1>1. /\ UNCHANGED <<status, by, jobs, remaining, run, primary, reran>>
        /\ dirs' = dirs \cup Missing(e) /\ Missing(e) \subseteq jobs[e]
    BY DEF Fallback, Missing
  <1>2. PICK a \in {"settle", "over"} : at' = [at EXCEPT ![e] = a]
    BY DEF Fallback
  <1>3. PICK made \in SUBSET Names :
           /\ \A t \in made : br[t] = None
           /\ br' = [s \in Names |-> IF s \in made THEN File(0) ELSE br[s]]
           /\ through' = through \cup (made \ Missing(e))
    BY Made
  <1>4. \A t \in Names : /\ t \in through => t \in through'
                         /\ br'[t] = br[t] \/ (br[t] = None /\ br'[t] = File(0))
    BY <1>3
  <1>5. ASSUME NEW s \in Names, NEW r \in 1..Len(primary), Good(s, r) PROVE Good(s, r)'
    <2>1. primary[r] \in Names /\ primary'[r] = primary[r]
      BY <1>1 DEF BatchInv
    <2>2. QED
      BY <1>1, <1>4, <1>5, <2>1, GoodKept
  <1>6. LogOf(e)'
    <2>1. at'[e] \in {"settle", "over"}
      BY <1>2 DEF BatchInv
    <2>2. QED
      BY <2>1 DEF LogOf, Fresh
  <1>7. ASSUME NEW f \in Executors, f # e PROVE LogOf(f)'
    <2> PICK first : first = First(remaining[f])
      OBVIOUS
    <2>0. /\ at'[f] = at[f] /\ remaining'[f] = remaining[f] /\ run'[f] = run[f]
          /\ First(remaining'[f]) = first
      BY <1>1, <1>2, <1>7 DEF BatchInv
    <2>1. /\ remaining[f] \subseteq Names /\ remaining[f] \cap Missing(e) = {}
          /\ remaining[f] \cap dirs' = remaining[f] \cap dirs
      BY <1>1, <1>7 DEF BatchInv
    <2>2. \A s \in remaining[f] : To(s) = None => To(s)' = None
      BY <1>3, <2>1, Kinds, SubtestsOK DEF To
    <2>3. \A s \in remaining[f] : br[s] = None \/ s \in through => br'[s] = None \/ s \in through'
      BY <1>3, <2>1
    <2>4. LogOf(f)
      BY DEF LogInv
    <2>5. at[f] = "written" => br'[first] = File(run[f]) \/ run[f] \in reran'
      <3>1. ASSUME at[f] = "written" PROVE first \in Names
        BY <3>1, <2>1, FirstIn DEF BatchInv, Open
      <3>2. File(run[f]) # None
        BY Kinds DEF BatchInv
      <3>3. QED
        BY <3>1, <3>2, <2>4, <1>1, <1>3 DEF LogOf
    <2>6. ASSUME at[f] = "linked" PROVE \A s \in remaining[f] \cap dirs : Good(s, run[f])'
      <3> PICK r : r = run[f]
        OBVIOUS
      <3>1. r \in 1..Len(primary)
        BY <2>6 DEF BatchInv, Live
      <3>2. \A s \in remaining[f] \cap dirs : Good(s, r)'
        BY <3>1, <2>1, <2>4, <2>6, <1>5 DEF LogOf
      <3>3. QED
        BY <3>2, <2>0 DEF Good, Holds
    <2>7. RunsOf(remaining[f])' = RunsOf(remaining[f])
      BY <1>1 DEF RunsOf
    <2>8. at[f] \in Fresh => \A r \in RunsOf(remaining[f]) : r = run[f] \/ r \in reran'
      BY <2>4, <1>1 DEF LogOf
    <2>9. /\ at[f] \in {"pulled", "written"} =>
               \A s \in remaining[f] :
                 /\ To(s)' = None
                 /\ (s = first /\ at[f] = "written") \/ br'[s] = None \/ s \in through'
          /\ at[f] = "pulled" => first \in dirs' \/ run[f] \in reran'
      BY <2>2, <2>3, <2>4, <1>1 DEF LogOf
    <2>10. QED
      BY <2>0, <2>1, <2>5, <2>6, <2>7, <2>8, <2>9 DEF LogOf
  <1>8. VerdictLogs'
    <2> SUFFICES ASSUME NEW s \in Names, status[s] \in {"Passed", "Unknown"}, by[s] # 0
                 PROVE  Good(s, by[s])'
      BY <1>1 DEF VerdictLogs
    <2> PICK r : r = by[s]
      OBVIOUS
    <2>1. Good(s, r) /\ r \in 1..Len(primary)
      BY VerdictRun DEF LogInv, VerdictLogs
    <2>2. Good(s, r)'
      BY <2>1, <1>5
    <2>3. QED
      BY <2>2, <1>1 DEF Good, Holds
  <1>9. QED
    BY <1>6, <1>7, <1>8 DEF LogInv

\* Steps of e that leave all logs alone, and take e out of an iteration or keep it before
\* one: the other batches keep theirs.
LEMMA LogOthers ==
  ASSUME BatchInv, LogInv, NEW e \in Executors, NEW f \in Executors, f # e,
         UNCHANGED <<br, primary, reran, through>>,
         at'[f] = at[f], remaining'[f] = remaining[f], run'[f] = run[f],
         dirs \subseteq dirs', remaining[f] \cap dirs' = remaining[f] \cap dirs
  PROVE  LogOf(f)'
  <1>1. LogOf(f)
    BY DEF LogInv
  <1>2. RunsOf(remaining[f])' = RunsOf(remaining[f])
    BY DEF RunsOf
  <1>3. \A s : To(s)' = To(s) /\ (Good(s, run[f])' <=> Good(s, run[f]))
    BY DEF To, Good, Holds
  <1>4. QED
    BY <1>1, <1>2, <1>3 DEF LogOf

LEMMA LogClaim ==
  ASSUME BatchInv, LinksInv, LogInv, NEW e \in Executors, Claim(e)
  PROVE  LogInv'
  <1>1. PICK S \in SUBSET (Names \ Busy) :
          /\ remaining' = [remaining EXCEPT ![e] = S]
          /\ status' = [s \in Names |-> IF s \in S THEN "Inprogress" ELSE status[s]]
          /\ dirs' = dirs \cup S
    BY DEF Claim
  <1>2. /\ at' = [at EXCEPT ![e] = "steps"] /\ at'[e] = "steps"
        /\ UNCHANGED <<by, br, run, primary, reran, through>>
    BY DEF Claim, BatchInv
  <1>3. LogOf(e)'
    BY <1>2 DEF LogOf, Fresh
  <1>4. ASSUME NEW f \in Executors, f # e PROVE LogOf(f)'
    <2>1. remaining[f] \cap S = {}
      BY <1>1 DEF Busy, BatchInv
    <2>2. /\ at'[f] = at[f] /\ remaining'[f] = remaining[f] /\ run'[f] = run[f]
          /\ dirs \subseteq dirs' /\ remaining[f] \cap dirs' = remaining[f] \cap dirs
      BY <1>1, <1>2, <1>4, <2>1 DEF BatchInv
    <2>3. QED
      BY <1>2, <1>4, <2>2, LogOthers
  <1>5. VerdictLogs'
    <2>1. \A s \in Names : status'[s] \in {"Passed", "Unknown"} => status'[s] = status[s]
      BY <1>1
    <2>2. \A s \in Names : Good(s, by[s])' <=> Good(s, by[s])
      BY <1>2 DEF Good, Holds, To
    <2>3. QED
      BY <1>2, <2>1, <2>2 DEF LogInv, VerdictLogs
  <1>6. QED
    BY <1>3, <1>4, <1>5 DEF LogInv

LEMMA LogRun ==
  ASSUME BatchInv, LinksInv, LogInv, NEW e \in Executors, Run(e)
  PROVE  LogInv'
  <1> PICK n \in Nat : n = Len(primary)
    BY DEF BatchInv
  <1> PICK p : p = First(remaining[e])
    OBVIOUS
  <1>1. /\ at[e] = "steps" /\ primary' = Append(primary, p)
        /\ at' = [at EXCEPT ![e] = "ran"] /\ run' = [run EXCEPT ![e] = n + 1]
        /\ at'[e] = "ran"
        /\ UNCHANGED <<status, by, dirs, br, remaining, reran, through>>
    BY DEF Run, BatchInv
  <1>2. p \in remaining[e] /\ p \in Names
    BY <1>1, FirstIn DEF BatchInv, Open
  <1>3. /\ primary' \in Seq(Names) /\ Len(primary') = n + 1 /\ primary'[n + 1] = p
        /\ \A r \in 1..n : primary'[r] = primary[r]
    BY <1>1, <1>2 DEF BatchInv
  <1>4. ASSUME NEW s \in Names, NEW r \in 1..Len(primary), Good(s, r) PROVE Good(s, r)'
    BY <1>1, <1>3, <1>4, GoodKept
  <1>5. LogOf(e)'
    BY <1>1 DEF LogOf, Fresh
  <1>6. ASSUME NEW f \in Executors, f # e PROVE LogOf(f)'
    <2>0. at'[f] = at[f] /\ remaining'[f] = remaining[f] /\ run'[f] = run[f]
      BY <1>1, <1>6 DEF BatchInv
    <2>1. p \notin remaining[f] /\ remaining[f] \subseteq Names
      BY <1>2, <1>6 DEF BatchInv
    <2>2. RunsOf(remaining[f])' = RunsOf(remaining[f])
      <3>1. \A r \in 1..(n + 1) : r \in 1..n \/ r = n + 1
        OBVIOUS
      <3>2. \A r \in 1..n : r \in 1..(n + 1)
        OBVIOUS
      <3>3. QED
        BY <1>1, <1>3, <2>0, <2>1, <3>1, <3>2 DEF RunsOf
    <2>3. LogOf(f)
      BY DEF LogInv
    <2>4. \A s : To(s)' = To(s)
      BY <1>1 DEF To
    <2>5. ASSUME at[f] = "linked" PROVE \A s \in remaining[f] \cap dirs : Good(s, run[f])'
      <3> PICK r : r = run[f]
        OBVIOUS
      <3>1. r \in 1..Len(primary)
        BY <2>5 DEF BatchInv, Live
      <3>2. \A s \in remaining[f] \cap dirs : Good(s, r)'
        BY <3>1, <2>1, <2>3, <2>5, <1>4 DEF LogOf
      <3>3. QED
        BY <3>2, <2>0 DEF Good, Holds
    <2>6. QED
      BY <1>1, <2>0, <2>2, <2>3, <2>4, <2>5 DEF LogOf
  <1>7. VerdictLogs'
    <2> SUFFICES ASSUME NEW s \in Names, status[s] \in {"Passed", "Unknown"}, by[s] # 0
                 PROVE  Good(s, by[s])'
      BY <1>1 DEF VerdictLogs
    <2> PICK r : r = by[s]
      OBVIOUS
    <2>1. Good(s, r) /\ r \in 1..Len(primary)
      BY VerdictRun DEF LogInv, VerdictLogs
    <2>2. Good(s, r)'
      BY <2>1, <1>4
    <2>3. QED
      BY <2>2, <1>1 DEF Good, Holds
  <1>8. QED
    BY <1>5, <1>6, <1>7 DEF LogInv

LEMMA LogRecord ==
  ASSUME BatchInv, LinksInv, LogInv, NEW e \in Executors, Record(e)
  PROVE  LogInv'
  <1> PICK next : next = {s \in remaining[e] : Found(e, s) = "Inprogress"}
    OBVIOUS
  <1>1. PICK a \in {"ended", "failed", "steps"} : at' = [at EXCEPT ![e] = a] /\ at'[e] = a
    BY DEF Record, BatchInv
  <1>2. /\ at[e] = "linked"
        /\ status' = [s \in Names |-> IF s \in remaining[e] THEN Found(e, s) ELSE status[s]]
        /\ by' = [s \in Names |-> IF s \in remaining[e] \ next THEN run[e] ELSE by[s]]
        /\ remaining' = [remaining EXCEPT ![e] = next]
        /\ UNCHANGED <<dirs, br, run, primary, reran, through>>
    BY DEF Record
  <1>3. LogOf(e)'
    BY <1>1 DEF LogOf, Fresh
  <1>4. ASSUME NEW f \in Executors, f # e PROVE LogOf(f)'
    <2>1. at'[f] = at[f] /\ remaining'[f] = remaining[f] /\ run'[f] = run[f]
      BY <1>1, <1>2, <1>4 DEF BatchInv
    <2>2. QED
      BY <1>2, <1>4, <2>1, LogOthers
  <1>5. VerdictLogs'
    <2> SUFFICES ASSUME NEW s \in Names, status'[s] \in {"Passed", "Unknown"}, by'[s] # 0
                 PROVE  Good(s, by[s])'
      BY DEF VerdictLogs
    <2>1. PICK r : r = by'[s]
      OBVIOUS
    <2>2. Good(s, r)
      <3>1. CASE s \in remaining[e]
        <4>1. Found(e, s) # "Inprogress"
          BY <1>2, <3>1
        <4>2. s \in dirs /\ r = run[e]
          BY <1>2, <2>1, <3>1, <4>1 DEF Found
        <4>3. QED
          BY <1>2, <3>1, <4>2 DEF LogInv, LogOf
      <3>2. CASE s \notin remaining[e]
        BY <1>2, <2>1, <3>2 DEF LogInv, VerdictLogs
      <3>3. QED
        BY <3>1, <3>2
    <2>3. Good(s, r)'
      BY <1>2, <2>2, GoodSame
    <2>4. QED
      BY <2>1, <2>3 DEF Good, Holds
  <1>6. QED
    BY <1>3, <1>4, <1>5 DEF LogInv

LEMMA LogSettle ==
  ASSUME BatchInv, LinksInv, LogInv, NEW e \in Executors, Settle(e)
  PROVE  LogInv'
  <1>1. PICK open \in SUBSET jobs[e] :
          /\ status' = [s \in Names |-> IF s \in open THEN "FailedToRun" ELSE status[s]]
          /\ by' = [s \in Names |-> IF s \in open THEN 0 ELSE by[s]]
          /\ dirs' = dirs \cup open
    BY DEF Settle
  <1>2. /\ at' = [at EXCEPT ![e] = "idle"] /\ at'[e] = "idle"
        /\ remaining' = [remaining EXCEPT ![e] = {}] /\ run' = [run EXCEPT ![e] = 0]
        /\ UNCHANGED <<br, primary, reran, through>>
    BY DEF Settle, BatchInv
  <1>3. LogOf(e)'
    BY <1>2 DEF LogOf, Fresh
  <1>4. ASSUME NEW f \in Executors, f # e PROVE LogOf(f)'
    <2>1. /\ at'[f] = at[f] /\ remaining'[f] = remaining[f] /\ run'[f] = run[f]
          /\ dirs \subseteq dirs' /\ remaining[f] \cap dirs' = remaining[f] \cap dirs
      BY <1>1, <1>2, <1>4 DEF BatchInv
    <2>2. QED
      BY <1>2, <1>4, <2>1, LogOthers
  <1>5. VerdictLogs'
    <2> SUFFICES ASSUME NEW s \in Names, status'[s] \in {"Passed", "Unknown"}, by'[s] # 0
                 PROVE  Good(s, by[s])'
      BY DEF VerdictLogs
    <2>1. status[s] = status'[s] /\ by'[s] = by[s]
      BY <1>1
    <2>2. Good(s, by[s])
      BY <2>1 DEF LogInv, VerdictLogs
    <2>3. QED
      BY <1>2, <2>1, <2>2 DEF Good, Holds, To
  <1>6. QED
    BY <1>3, <1>4, <1>5 DEF LogInv

\* A log stays that of its run when the directories of S go.
LEMMA GoodRemoved ==
  ASSUME BatchInv, LinksInv, NEW S \in SUBSET Names, Removed(S), UNCHANGED <<primary, through>>,
         NEW s \in Names \ S, NEW r \in 1..Len(primary), Good(s, r)
  PROVE  Good(s, r)'
  <1>1. primary[r] \in S => r \in reran'
    BY DEF Removed, RunsOf
  <1>2. primary[r] \in Names /\ reran \subseteq reran'
    BY DEF BatchInv, Removed
  <1>3. \A t \in Names \ S : br'[t] = br[t]
    BY DEF Removed
  <1>4. QED
    BY <1>1, <1>2, <1>3, GoodKept

LEMMA LogRmResults ==
  ASSUME BatchInv, LinksInv, LogInv, NEW x \in Names, RmResults(x)
  PROVE  LogInv'
  <1>1. /\ UNCHANGED <<status, at, jobs, remaining, run, primary, through>>
        /\ by' = [by EXCEPT ![x] = 0] /\ Removed({x}) /\ {x} \in SUBSET Names
    BY DEF RmResults
  <1>2. /\ dirs' = dirs \ {x} /\ reran' = reran \cup RunsOf({x})
        /\ br' = [s \in Names |-> IF s \in {x} THEN None ELSE br[s]]
    BY <1>1 DEF Removed
  <1>3. ASSUME NEW f \in Executors PROVE LogOf(f)'
    <2> PICK first : first = First(remaining[f])
      OBVIOUS
    <2>1. LogOf(f) /\ remaining[f] \subseteq Names
      BY DEF LogInv, BatchInv
    <2>2. ASSUME at[f] \in Live
          PROVE  first \in remaining[f] /\ (first = x => run[f] \in reran')
      <3>1. first \in remaining[f]
        BY <2>1, <2>2, FirstIn DEF BatchInv, Live, Open
      <3>2. run[f] \in 1..Len(primary) /\ primary[run[f]] = first
        BY <2>2 DEF BatchInv
      <3>3. QED
        BY <3>1, <3>2, <1>2 DEF RunsOf
    <2>3. \A s \in remaining[f] :
            /\ To(s) = None => To(s)' = None
            /\ br[s] = None => br'[s] = None
            /\ s # x => br'[s] = br[s]
      BY <1>2, <2>1, Kinds DEF To
    <2>4. RunsOf(remaining[f])' = RunsOf(remaining[f])
      BY <1>1 DEF RunsOf
    <2>5. ASSUME at[f] = "linked" PROVE \A s \in remaining[f] \cap dirs' : Good(s, run[f])'
      <3> PICK r : r = run[f]
        OBVIOUS
      <3>1. r \in 1..Len(primary)
        BY <2>5 DEF BatchInv, Live
      <3>2. \A s \in remaining[f] \cap dirs' : s \in Names \ {x} /\ Good(s, r)
        BY <1>2, <2>1, <2>5 DEF LogOf
      <3>3. \A s \in remaining[f] \cap dirs' : Good(s, r)'
        BY <3>1, <3>2, <1>1, GoodRemoved
      <3>4. QED
        BY <3>3, <1>1 DEF Good, Holds
    <2>6. at[f] = "pulled" => first \in dirs' \/ run[f] \in reran'
      BY <1>2, <2>1, <2>2 DEF LogOf, Live
    <2>7. at[f] = "written" => br'[first] = File(run[f]) \/ run[f] \in reran'
      BY <1>2, <2>1, <2>2, <2>3 DEF LogOf, Live
    <2>8. /\ at[f] \in Fresh => \A r \in RunsOf(remaining[f]) : r = run[f] \/ r \in reran'
          /\ at[f] \in {"pulled", "written"} =>
               \A s \in remaining[f] :
                 /\ To(s)' = None
                 /\ (s = first /\ at[f] = "written") \/ br'[s] = None \/ s \in through
      BY <1>2, <2>1, <2>3 DEF LogOf
    <2>9. QED
      BY <1>1, <2>4, <2>5, <2>6, <2>7, <2>8 DEF LogOf
  <1>4. VerdictLogs'
    <2> SUFFICES ASSUME NEW s \in Names, status[s] \in {"Passed", "Unknown"}, by'[s] # 0
                 PROVE  Good(s, by[s])'
      BY <1>1 DEF VerdictLogs
    <2>1. PICK r : r = by'[s]
      OBVIOUS
    <2>2. s # x /\ r = by[s]
      BY <1>1, <2>1 DEF BatchInv
    <2>3. Good(s, r) /\ r \in 1..Len(primary)
      BY <2>1, <2>2, VerdictRun DEF LogInv, VerdictLogs
    <2>4. Good(s, r)'
      BY <2>2, <2>3, <1>1, GoodRemoved
    <2>5. QED
      BY <2>1, <2>4 DEF Good, Holds
  <1>5. QED
    BY <1>3, <1>4 DEF LogInv

LEMMA LogRestart ==
  ASSUME BatchInv, LinksInv, LogInv, NEW clear \in BOOLEAN, Restart(clear)
  PROVE  LogInv'
  <1>1. PICK stale \in SUBSET Names :
            /\ Removed(stale)
            /\ status' = [s \in Names |-> IF s \in stale THEN None ELSE status[s]]
            /\ NoBatches /\ UNCHANGED <<by, primary, through>>
    BY DEF Restart
  <1>2. \A f \in Executors : LogOf(f)'
    <2>1. \A f \in Executors : at'[f] = "idle"
      BY <1>1 DEF NoBatches
    <2>2. QED
      BY <2>1 DEF LogOf, Fresh
  <1>3. VerdictLogs'
    <2> SUFFICES ASSUME NEW s \in Names, status'[s] \in {"Passed", "Unknown"}, by[s] # 0
                 PROVE  Good(s, by[s])'
      BY <1>1 DEF VerdictLogs
    <2> PICK r : r = by[s]
      OBVIOUS
    <2>1. None \notin Status
      BY SubtestsOK
    <2>2. s \notin stale
      BY <1>1, <2>1 DEF Status
    <2>3. Good(s, r) /\ r \in 1..Len(primary)
      BY <1>1, <2>2, VerdictRun DEF LogInv, VerdictLogs
    <2>4. Good(s, r)'
      BY <2>2, <2>3, <1>1, GoodRemoved
    <2>5. QED
      BY <2>4, <1>1 DEF Good, Holds
  <1>4. QED
    BY <1>2, <1>3 DEF LogInv

LEMMA LogNext == BatchInv /\ LinksInv /\ LogInv /\ [Next]_vars => LogInv'
  <1> SUFFICES ASSUME BatchInv, LinksInv, LogInv, [Next]_vars PROVE LogInv'
    OBVIOUS
  <1>1. CASE UNCHANGED vars
    BY <1>1 DEF LogInv, LogOf, VerdictLogs, Good, Holds, To, RunsOf
  <1>2. QED
    BY <1>1, LogClaim, LogRun, LogPull, LogWrite, LogLink, LogRecord, LogStepError, LogFallback,
       LogSettle, LogRmResults, LogRestart DEF Next

LEMMA LogInvariant == Spec => [](BatchInv /\ LinksInv /\ LogInv)
  BY BatchInit, LinksInit, LogInit, BatchNext, LinksNext, LogNext, PTL DEF Spec

\* The state stays within its types, and no chain of symbolic links that batches,
\* re-runs and fallbacks make among the directories ever closes to a circle.
THEOREM TypeCorrect == Spec => []TypeOK
  <1>1. BatchInv /\ LinksInv => TypeOK
    BY DEF BatchInv, LinksInv, TypeOK
  <1>2. QED
    BY <1>1, LogInvariant, PTL

\* However many batches run, resume and re-run the subtests of a commit, the log that is
\* served for a verdict is that of the VM run that gave it, unless the subtest that holds
\* the file was run again or removed, or a fallback came there through an old link.
THEOREM VerdictsKeepTheirLog == Spec => []LogIsOfItsRun
  <1>1. BatchInv /\ LinksInv /\ LogInv => LogIsOfItsRun
    <2> SUFFICES ASSUME BatchInv, LinksInv, LogInv, NEW s \in Names,
                        status[s] \in {"Passed", "Unknown"}, by[s] # 0, by[s] \notin reran
                 PROVE  Served(s) = by[s] \/ End(s) \in through
      BY DEF LogIsOfItsRun
    <2> PICK r : r = by[s]
      OBVIOUS
    <2>1. Good(s, r) /\ r \in 1..Len(primary) /\ r \in 0..MaxRuns
      BY VerdictRun DEF LogInv, VerdictLogs, BatchInv
    <2>2. PICK t \in Names : End(s) = t /\ Holds(t, r)
      <3>1. CASE Holds(s, r)
        BY <3>1, EndSelf DEF Holds
      <3>2. CASE To(s) = primary[r] /\ Holds(primary[r], r)
        <4>1. To(s) # None
          BY <2>1, <3>2, Kinds DEF BatchInv
        <4>2. QED
          BY <2>1, <3>2, <4>1, EndHop, ToType DEF Holds
      <3>3. QED
        BY <2>1, <3>1, <3>2 DEF Good
    <2>3. QED
      BY <2>1, <2>2, Kinds DEF Holds, Served
  <1>2. QED
    BY <1>1, LogInvariant, PTL

-----------------------------------------------------------------------------
(* The log of a failure.                                                   *)

LEMMA FailInit == Init => FailInv
  <1> SUFFICES ASSUME Init PROVE FailInv
    OBVIOUS
  <1>1. \A s \in Names : br[s] = None /\ status[s] = None
    BY DEF Init
  <1>2. \A s \in Names : To(s) = None
    BY <1>1, Kinds DEF To
  <1>3. None # "FailedToRun"
    BY SubtestsOK DEF Status
  <1>4. \A e \in Executors : at[e] = "idle" /\ jobs[e] = {}
    BY DEF Init
  <1>5. QED
    BY <1>1, <1>2, <1>3, <1>4 DEF FailInv

\* Steps of e that leave all logs alone, and are not at a log that is being written.
LEMMA FailFrame ==
  ASSUME BatchInv, LinksInv, FailInv, removals = 0, NEW e \in Executors, UNCHANGED br,
         at[e] \notin {"pulled", "written"}, NEW a, at' = [at EXCEPT ![e] = a],
         a \notin {"pulled", "written", "settle", "over"},
         \A f \in Executors : f # e => jobs'[f] = jobs[f] /\ remaining'[f] = remaining[f],
         jobs'[e] \subseteq dirs', dirs \subseteq dirs',
         \A s \in Names : status'[s] = "FailedToRun" => status[s] = "FailedToRun" \/ br[s] # None
  PROVE  FailInv'
  <1>1. \A f \in Executors : f # e => at'[f] = at[f]
    BY DEF BatchInv
  <1>2. at'[e] = a
    BY DEF BatchInv
  <1>3. \A s : To(s)' = To(s)
    BY DEF To
  <1>4. ASSUME NEW f \in Executors
        PROVE  /\ jobs'[f] \subseteq dirs'
               /\ at'[f] \in {"settle", "over"} => \A s \in jobs'[f] : br'[s] # None
               /\ at'[f] = "written" => br'[First(remaining'[f])] # None
    <2>1. CASE f = e
      BY <1>2, <2>1
    <2>2. CASE f # e
      BY <1>1, <2>2 DEF FailInv
    <2>3. QED
      BY <2>1, <2>2
  <1>5. ASSUME NEW s \in Names
        PROVE  /\ status'[s] = "FailedToRun" => br'[s] # None
               /\ To(s) # None =>
                    /\ To(s) \in dirs'
                    /\ \/ br'[To(s)] # None
                       \/ \E f \in Executors :
                            at'[f] \in {"pulled", "written"} /\ To(s) \in remaining'[f]
    BY <1>1 DEF FailInv
  <1>6. QED
    BY <1>3, <1>4, <1>5 DEF FailInv

LEMMA FailPull ==
  ASSUME BatchInv, LinksInv, FailInv, removals = 0, NEW e \in Executors, Pull(e)
  PROVE  FailInv'
  <1>1. /\ at[e] = "ran" /\ at' = [at EXCEPT ![e] = "pulled"]
        /\ UNCHANGED <<status, jobs, remaining>>
        /\ dirs' = dirs \cup remaining[e]
        /\ br' = [s \in Names |-> IF s \in remaining[e] THEN None ELSE br[s]]
    BY DEF Pull, Dropped
  <1>2. at'[e] = "pulled" /\ \A f \in Executors : f # e => at'[f] = at[f]
    BY <1>1 DEF BatchInv
  <1>3. ASSUME NEW f \in Executors
        PROVE  /\ jobs[f] \subseteq dirs'
               /\ at'[f] \in {"settle", "over"} => \A s \in jobs[f] : br'[s] # None
               /\ at'[f] = "written" => br'[First(remaining[f])] # None
    <2>1. CASE f = e
      BY <1>1, <1>2, <2>1 DEF FailInv
    <2>2. CASE f # e
      <3>1. jobs[f] \subseteq Names /\ jobs[f] \cap remaining[e] = {} /\ remaining[f] \subseteq jobs[f]
        BY <2>2 DEF BatchInv
      <3>2. at[f] = "written" => First(remaining[f]) \in remaining[f]
        BY FirstIn DEF BatchInv, Open
      <3>3. QED
        BY <1>1, <1>2, <2>2, <3>1, <3>2 DEF FailInv
    <2>3. QED
      BY <2>1, <2>2
  <1>4. ASSUME NEW s \in Names
        PROVE  /\ status[s] = "FailedToRun" => br'[s] # None
               /\ To(s)' # None =>
                    /\ To(s)' \in dirs'
                    /\ \/ br'[To(s)'] # None
                       \/ \E f \in Executors :
                            at'[f] \in {"pulled", "written"} /\ To(s)' \in remaining[f]
    <2>1. status[s] = "FailedToRun" => br'[s] # None
      BY <1>1 DEF FailInv, BatchInv
    <2>2. ASSUME To(s)' # None PROVE To(s)' = To(s)
      BY <1>1, <2>2, Kinds DEF To
    <2>3. ASSUME NEW u, u = To(s), u # None
          PROVE  u \in dirs' /\ (br'[u] # None \/ \E f \in Executors :
                                   at'[f] \in {"pulled", "written"} /\ u \in remaining[f])
      <3>1. u \in Names /\ u \in dirs
        BY <2>3, ToType DEF FailInv
      <3>2. CASE u \in remaining[e]
        BY <1>1, <1>2, <3>1, <3>2
      <3>3. CASE u \notin remaining[e]
        BY <1>1, <1>2, <2>3, <3>1, <3>3 DEF FailInv
      <3>4. QED
        BY <3>2, <3>3
    <2>4. QED
      BY <2>1, <2>2, <2>3
  <1>5. QED
    BY <1>1, <1>3, <1>4 DEF FailInv

LEMMA FailWrite ==
  ASSUME BatchInv, LinksInv, LogInv, FailInv, removals = 0, NEW e \in Executors, WriteLog(e)
  PROVE  FailInv'
  <1> PICK first : first = First(remaining[e])
    OBVIOUS
  <1>1. /\ at[e] = "pulled" /\ at' = [at EXCEPT ![e] = "written"]
        /\ UNCHANGED <<status, dirs, jobs, remaining>>
    BY DEF WriteLog
  <1>2. /\ first \in remaining[e] /\ first \in Names /\ File(run[e]) \in Files
        /\ br' = IF first \in dirs THEN [br EXCEPT ![first] = File(run[e])] ELSE br
    BY Written
  <1>3. first \in dirs
    BY <1>2 DEF FailInv, BatchInv
  <1>4. br'[first] = File(run[e]) /\ \A t \in Names \ {first} : br'[t] = br[t]
    BY <1>2, <1>3 DEF LinksInv
  <1>5. File(run[e]) # None /\ File(run[e]) \notin Links
    BY <1>2, Kinds
  <1>6. \A t \in Names : br[t] # None => br'[t] # None
    BY <1>4, <1>5
  <1>7. at'[e] = "written" /\ \A f \in Executors : f # e => at'[f] = at[f]
    BY <1>1 DEF BatchInv
  <1>8. ASSUME NEW f \in Executors
        PROVE  /\ jobs[f] \subseteq dirs
               /\ at'[f] \in {"settle", "over"} => \A s \in jobs[f] : br'[s] # None
               /\ at'[f] = "written" => br'[First(remaining[f])] # None
    <2>1. CASE f = e
      BY <1>4, <1>5, <1>7, <2>1 DEF FailInv
    <2>2. CASE f # e
      <3>1. jobs[f] \subseteq Names /\ remaining[f] \subseteq Names
        BY DEF BatchInv
      <3>2. at[f] = "written" => First(remaining[f]) \in remaining[f]
        BY <3>1, FirstIn DEF BatchInv, Open
      <3>3. QED
        BY <1>6, <1>7, <2>2, <3>1, <3>2 DEF FailInv
    <2>3. QED
      BY <2>1, <2>2
  <1>9. ASSUME NEW s \in Names
        PROVE  /\ status[s] = "FailedToRun" => br'[s] # None
               /\ To(s)' # None =>
                    /\ To(s)' \in dirs
                    /\ \/ br'[To(s)'] # None
                       \/ \E f \in Executors :
                            at'[f] \in {"pulled", "written"} /\ To(s)' \in remaining[f]
    <2>1. status[s] = "FailedToRun" => br'[s] # None
      BY <1>6 DEF FailInv
    <2>2. ASSUME To(s)' # None PROVE To(s)' = To(s)
      BY <1>4, <1>5, <2>2 DEF To
    <2>3. ASSUME NEW u, u = To(s), u # None
          PROVE  u \in dirs /\ (br'[u] # None \/ \E f \in Executors :
                                   at'[f] \in {"pulled", "written"} /\ u \in remaining[f])
      <3>1. u \in Names /\ u \in dirs
        BY <2>3, ToType DEF FailInv
      <3>2. QED
        BY <1>1, <1>6, <1>7, <2>3, <3>1 DEF FailInv
    <2>4. QED
      BY <2>1, <2>2, <2>3
  <1>10. QED
    BY <1>1, <1>8, <1>9 DEF FailInv

LEMMA FailLink ==
  ASSUME BatchInv, LinksInv, LogInv, FailInv, removals = 0, NEW e \in Executors, LinkLogs(e)
  PROVE  FailInv'
  <1> PICK first : first = First(remaining[e])
    OBVIOUS
  <1>1. /\ at[e] = "written" /\ at' = [at EXCEPT ![e] = "linked"]
        /\ UNCHANGED <<status, dirs, jobs, remaining>>
        /\ br' = [s \in Names |-> IF s \in (remaining[e] \ {first}) \cap dirs /\ br[s] = None
                                  THEN Link(first) ELSE br[s]]
    BY DEF LinkLogs, Linked
  <1>2. first \in remaining[e] /\ first \in Names /\ remaining[e] \subseteq Names
    BY <1>1, FirstIn DEF BatchInv, Open
  <1>3. remaining[e] \subseteq dirs /\ br[first] # None
    BY <1>1 DEF FailInv, BatchInv
  <1>4. Link(first) # None /\ Link(first) \in Links /\ Link(first).to = first
    BY <1>2, Kinds
  <1>5. /\ \A t \in Names : br[t] # None => br'[t] = br[t] /\ br'[t] # None
        /\ \A t \in remaining[e] : br'[t] # None
    BY <1>1, <1>2, <1>3, <1>4
  <1>6. at'[e] = "linked" /\ \A f \in Executors : f # e => at'[f] = at[f]
    BY <1>1 DEF BatchInv
  <1>7. ASSUME NEW f \in Executors
        PROVE  /\ jobs[f] \subseteq dirs
               /\ at'[f] \in {"settle", "over"} => \A s \in jobs[f] : br'[s] # None
               /\ at'[f] = "written" => br'[First(remaining[f])] # None
    <2>1. CASE f = e
      BY <1>6, <2>1 DEF FailInv
    <2>2. CASE f # e
      <3>1. jobs[f] \subseteq Names /\ remaining[f] \subseteq Names
        BY DEF BatchInv
      <3>2. at[f] = "written" => First(remaining[f]) \in remaining[f]
        BY <3>1, FirstIn DEF BatchInv, Open
      <3>3. QED
        BY <1>5, <1>6, <2>2, <3>1, <3>2 DEF FailInv
    <2>3. QED
      BY <2>1, <2>2
  <1>8. ASSUME NEW s \in Names
        PROVE  /\ status[s] = "FailedToRun" => br'[s] # None
               /\ To(s)' # None =>
                    /\ To(s)' \in dirs
                    /\ \/ br'[To(s)'] # None
                       \/ \E f \in Executors :
                            at'[f] \in {"pulled", "written"} /\ To(s)' \in remaining[f]
    <2>1. status[s] = "FailedToRun" => br'[s] # None
      BY <1>5 DEF FailInv
    <2>2. To(s)' = To(s) \/ To(s)' = first
      BY <1>1, <1>4 DEF To
    <2>3. first \in dirs /\ br'[first] # None
      BY <1>2, <1>3, <1>5
    <2>4. ASSUME NEW u, u = To(s), u # None
          PROVE  u \in dirs /\ (br'[u] # None \/ \E f \in Executors :
                                   at'[f] \in {"pulled", "written"} /\ u \in remaining[f])
      <3>1. u \in Names /\ u \in dirs
        BY <2>4, ToType DEF FailInv
      <3>2. CASE br[u] # None \/ u \in remaining[e]
        BY <1>5, <3>1, <3>2
      <3>3. CASE br[u] = None /\ u \notin remaining[e]
        BY <1>6, <2>4, <3>1, <3>3 DEF FailInv
      <3>4. QED
        BY <3>1, <3>2, <3>3
    <2>5. QED
      BY <2>1, <2>2, <2>3, <2>4
  <1>9. QED
    BY <1>1, <1>7, <1>8 DEF FailInv

LEMMA FailFallback ==
  ASSUME BatchInv, LinksInv, FailInv, removals = 0, NEW e \in Executors, Fallback(e)
  PROVE  FailInv'
  <1>1. /\ UNCHANGED <<status, jobs, remaining>> /\ at[e] \in {"failed", "ended"}
        /\ dirs' = dirs \cup Missing(e)
    BY DEF Fallback
  <1>2. PICK a \in {"settle", "over"} : at' = [at EXCEPT ![e] = a]
    BY DEF Fallback
  <1>3. PICK made \in SUBSET Names :
           /\ \A t \in made : br[t] = None
           /\ br' = [s \in Names |-> IF s \in made THEN File(0) ELSE br[s]]
           /\ \A s \in Missing(e) : End(s) \in dirs' => End(s) \in made
    BY Made
  <1>4. File(0) # None /\ File(0) \notin Links
    BY Kinds, SubtestsOK
  <1>5. /\ \A t \in Names : br[t] # None => br'[t] = br[t] /\ br'[t] # None
        /\ \A t \in made : br'[t] # None
    BY <1>3, <1>4
  <1>6. at'[e] = a /\ \A f \in Executors : f # e => at'[f] = at[f]
    BY <1>2 DEF BatchInv
  <1>7. ASSUME NEW s \in jobs[e] PROVE br'[s] # None
    <2>1. s \in Names
      BY DEF BatchInv
    <2>2. CASE br[s] # None
      BY <1>5, <2>1, <2>2
    <2>3. CASE br[s] = None
      <3>1. To(s) = None
        BY <2>3, Kinds DEF To
      <3>2. End(s) = s
        BY <2>1, <3>1, EndSelf
      <3>3. s \in Missing(e)
        BY <2>1, <2>3, <3>2, ServedLog DEF Missing
      <3>4. s \in made
        BY <1>1, <1>3, <3>2, <3>3
      <3>5. QED
        BY <1>5, <3>4
    <2>4. QED
      BY <2>2, <2>3
  <1>8. ASSUME NEW f \in Executors
        PROVE  /\ jobs[f] \subseteq dirs'
               /\ at'[f] \in {"settle", "over"} => \A s \in jobs[f] : br'[s] # None
               /\ at'[f] = "written" => br'[First(remaining[f])] # None
    <2>1. CASE f = e
      BY <1>1, <1>6, <1>7, <2>1 DEF FailInv
    <2>2. CASE f # e
      <3>1. jobs[f] \subseteq Names /\ remaining[f] \subseteq Names
        BY DEF BatchInv
      <3>2. at[f] = "written" => First(remaining[f]) \in remaining[f]
        BY <3>1, FirstIn DEF BatchInv, Open
      <3>3. QED
        BY <1>1, <1>5, <1>6, <2>2, <3>1, <3>2 DEF FailInv
    <2>3. QED
      BY <2>1, <2>2
  <1>9. ASSUME NEW s \in Names
        PROVE  /\ status[s] = "FailedToRun" => br'[s] # None
               /\ To(s)' # None =>
                    /\ To(s)' \in dirs'
                    /\ \/ br'[To(s)'] # None
                       \/ \E f \in Executors :
                            at'[f] \in {"pulled", "written"} /\ To(s)' \in remaining[f]
    <2>1. status[s] = "FailedToRun" => br'[s] # None
      BY <1>5 DEF FailInv
    <2>2. ASSUME To(s)' # None PROVE To(s)' = To(s)
      BY <1>3, <1>4, <2>2 DEF To
    <2>3. ASSUME NEW u, u = To(s), u # None
          PROVE  u \in dirs' /\ (br'[u] # None \/ \E f \in Executors :
                                   at'[f] \in {"pulled", "written"} /\ u \in remaining[f])
      <3>1. u \in Names /\ u \in dirs
        BY <2>3, ToType DEF FailInv
      <3>2. br[u] # None \/ \E f \in Executors : at[f] \in {"pulled", "written"} /\ u \in remaining[f]
        BY <2>3 DEF FailInv
      <3>3. \A f \in Executors : at[f] \in {"pulled", "written"} => at'[f] = at[f]
        BY <1>1, <1>6
      <3>4. QED
        BY <1>1, <1>5, <3>1, <3>2, <3>3
    <2>4. QED
      BY <2>1, <2>2, <2>3
  <1>10. QED
    BY <1>1, <1>8, <1>9 DEF FailInv

LEMMA FailNext == BatchInv /\ LinksInv /\ LogInv /\ FailInv /\ [Next]_vars => FailInv'
  <1> SUFFICES ASSUME BatchInv, LinksInv, LogInv, FailInv, [Next]_vars, removals' = 0 PROVE FailInv'
    BY DEF FailInv
  <1>1. CASE UNCHANGED vars
    BY <1>1 DEF FailInv, To
  <1>2. ASSUME NEW S, Removed(S) PROVE FALSE
    BY <1>2 DEF Removed, BatchInv
  <1>3. CASE (\E s \in Names : RmResults(s)) \/ (\E clear \in BOOLEAN : Restart(clear))
    BY <1>2, <1>3 DEF RmResults, Restart
  <1>4. ASSUME NEW e \in Executors,
               \/ Claim(e) \/ Run(e) \/ Pull(e) \/ WriteLog(e) \/ LinkLogs(e)
               \/ Record(e) \/ StepError(e) \/ Fallback(e) \/ Settle(e)
        PROVE  FailInv'
    <2>0. removals = 0
      BY <1>4 DEF Claim, Run, Pull, WriteLog, LinkLogs, Record, StepError, Fallback, Settle
    <2>1. CASE Claim(e)
      <3>1. PICK S \in SUBSET (Names \ Busy) :
              /\ jobs' = [jobs EXCEPT ![e] = S] /\ remaining' = [remaining EXCEPT ![e] = S]
              /\ status' = [s \in Names |-> IF s \in S THEN "Inprogress" ELSE status[s]]
              /\ dirs' = dirs \cup S
        BY <2>1 DEF Claim
      <3>2. at[e] = "idle" /\ at' = [at EXCEPT ![e] = "steps"] /\ UNCHANGED br
        BY <2>1 DEF Claim
      <3>3. /\ \A f \in Executors : f # e => jobs'[f] = jobs[f] /\ remaining'[f] = remaining[f]
            /\ jobs'[e] \subseteq dirs' /\ dirs \subseteq dirs'
            /\ \A s \in Names : status'[s] = "FailedToRun" => status[s] = "FailedToRun"
        BY <3>1 DEF BatchInv
      <3>4. QED
        BY <2>0, <3>2, <3>3, FailFrame
    <2>2. CASE Run(e)
      <3>1. /\ at[e] = "steps" /\ at' = [at EXCEPT ![e] = "ran"]
            /\ UNCHANGED <<br, jobs, remaining, dirs, status>>
        BY <2>2 DEF Run
      <3>2. jobs[e] \subseteq dirs
        BY <2>0 DEF FailInv
      <3>3. QED
        BY <2>0, <3>1, <3>2, FailFrame
    <2>3. CASE Record(e)
      <3>1. PICK a \in {"ended", "failed", "steps"} : at' = [at EXCEPT ![e] = a]
        BY <2>3 DEF Record
      <3>2. /\ at[e] = "linked" /\ UNCHANGED <<br, jobs, dirs>>
            /\ status' = [s \in Names |-> IF s \in remaining[e] THEN Found(e, s) ELSE status[s]]
            /\ \A f \in Executors : f # e => remaining'[f] = remaining[f]
        BY <2>3 DEF Record, BatchInv
      <3>3. \A s \in Names : Found(e, s) # "FailedToRun"
        <4>1. \A s \in Names : got[e][s] \in {"Inprogress", "Passed", "Unknown"}
          BY DEF BatchInv
        <4>2. QED
          BY <4>1 DEF Found
      <3>4. jobs[e] \subseteq dirs
        BY <2>0 DEF FailInv
      <3>5. QED
        BY <2>0, <3>1, <3>2, <3>3, <3>4, FailFrame
    <2>4. CASE StepError(e)
      <3>1. /\ at[e] \in {"steps", "ran"} /\ at' = [at EXCEPT ![e] = "failed"]
            /\ UNCHANGED <<br, jobs, remaining, dirs, status>>
        BY <2>4 DEF StepError
      <3>2. jobs[e] \subseteq dirs
        BY <2>0 DEF FailInv
      <3>3. QED
        BY <2>0, <3>1, <3>2, FailFrame
    <2>5. CASE Settle(e)
      <3>1. PICK open \in SUBSET jobs[e] :
              /\ status' = [s \in Names |-> IF s \in open THEN "FailedToRun" ELSE status[s]]
              /\ dirs' = dirs \cup open
        BY <2>5 DEF Settle
      <3>2. /\ at[e] \in {"settle", "over"} /\ at' = [at EXCEPT ![e] = "idle"] /\ UNCHANGED br
            /\ jobs'[e] = {}
            /\ \A f \in Executors : f # e => jobs'[f] = jobs[f] /\ remaining'[f] = remaining[f]
        BY <2>5 DEF Settle, BatchInv
      <3>3. \A s \in Names : status'[s] = "FailedToRun" => status[s] = "FailedToRun" \/ br[s] # None
        BY <2>0, <3>1, <3>2 DEF FailInv
      <3>4. QED
        BY <2>0, <3>1, <3>2, <3>3, FailFrame
    <2>6. QED
      BY <1>4, <2>0, <2>1, <2>2, <2>3, <2>4, <2>5, FailPull, FailWrite, FailLink, FailFallback
  <1>5. QED
    BY <1>1, <1>3, <1>4 DEF Next

\* As long as nothing is removed, a subtest that failed to run has a log, whatever step
\* failed and however its full_log.br was linked: the fallback of run_ktest_job() leaves
\* none of the batch without, and the end of every link is a file or one being written.
THEOREM FailuresHaveLogs == Spec => []FailureHasLog
  <1>1. Spec => []FailInv
    BY FailInit, FailNext, LogInvariant, PTL DEF Spec
  <1>2. BatchInv /\ LinksInv /\ FailInv => FailureHasLog
    <2> SUFFICES ASSUME BatchInv, LinksInv, FailInv, removals = 0,
                        NEW s \in Names, status[s] = "FailedToRun", Served(s) = None
                 PROVE  \E e \in Executors : at[e] \in {"pulled", "written"} /\ End(s) \in remaining[e]
      BY DEF FailureHasLog
    <2>1. br[s] # None /\ br[End(s)] = None
      BY ServedLog DEF FailInv
    <2>2. PICK x \in Names : To(x) = End(s)
      BY <2>1, EndIsTarget
    <2>3. To(x) # None /\ br[To(x)] = None
      BY <2>1, <2>2, EndType, Kinds
    <2>4. QED
      BY <2>2, <2>3 DEF FailInv
  <1>3. QED
    BY <1>1, <1>2, LogInvariant, PTL

=============================================================================
