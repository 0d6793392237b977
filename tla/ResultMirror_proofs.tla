------------------------- MODULE ResultMirror_proofs -------------------------
(***************************************************************************)
(* Theorems about ResultMirror: for any number of ci-status processes on   *)
(* one mirror, any repos and any results, what a command reads is as fresh *)
(* as it asked for, up to the races that the model names, a copy that does *)
(* not parse has a cause, and what the pages of the dashboard say is true  *)
(* of the branches and of the published results.                           *)
(***************************************************************************)
EXTENDS ResultMirror, Ordering_proofs, SequenceTheorems

USE DEF serverVars, procVars, vars, Now

(* The inductive invariants.                                               *)

\* The file on the server is the latest version, and what is published, or on its way, is a
\* result that was published.
SrvInv ==
  /\ \A c \in Commits : srv[c] # None => srv[c].ver = vers[c] /\ srv[c].tests # Torn
  /\ \A p \in Clients, c \in Commits :
       answer[p][c] # None => answer[p][c].tests # Torn /\ answer[p][c].ver <= vers[c]
  /\ \A p \in Clients, c \in Commits : fetch[p][c] \in {"got", "cut"} => answer[p][c] # None

\* What is newer than an answer on its way is known to race with it.
RaceInv ==
  \A p \in Clients, c \in Commits : fetch[p][c] \in {"got", "cut"} =>
    \A v \in (answer[p][c].ver + 1)..vers[c] : <<c, v>> \in raced

\* A copy that is behind is older than the file on the server, and a request asks for what
\* is newer than a copy at least as old as the one that is there.
DateInv ==
  /\ \A c \in Commits :
       mirror[c] # None /\ srv[c] # None /\ mirror[c].tests # Torn =>
         \/ mirror[c].ver >= vers[c] \/ mirror[c].mtime < srv[c].mtime
         \/ <<c, vers[c]>> \in raced
  /\ \A p \in Clients, c \in Commits : since[p][c] # None =>
       mirror[c] # None /\ since[p][c] <= mirror[c].mtime

\* A fetch that is over has left, or found, the version of its answer.
DoneInv ==
  \A p \in Clients, c \in Commits : fetch[p][c] = "done" /\ answer[p][c] # None =>
    /\ mirror[c] # None
    /\ \/ mirror[c].ver >= answer[p][c].ver \/ mirror[c].tests = Torn
       \/ <<c, answer[p][c].ver>> \in raced

\* A command fetches the newest commits of its walk, after it began.
FloorInv ==
  /\ \A p \in Clients, c \in Commits :
       floor[p][c] <= vers[c] /\ (answer[p][c] # None => floor[p][c] <= answer[p][c].ver)
  /\ \A p \in live : \A i \in DOMAIN commit_ids[p] :
       i <= NFresh => fetch[p][commit_ids[p][i]] # "no"

\* Only a running process has asked, or been answered.
IdleInv ==
  \A p \in Clients, c \in Commits :
    /\ fetch[p][c] \in {"no", "todo"} => answer[p][c] = None
    /\ fetch[p][c] # "sent" => since[p][c] = None

-----------------------------------------------------------------------------
(* What the operators of the model return.                                 *)

\* The fields of a file.
LEMMA FileFields ==
  \A f \in Files : /\ f.tests \in Results \cup {Torn} /\ f.ver \in Nat /\ f.mtime \in Int
                   /\ f # None
  BY MirrorConstantsOK DEF Files

\* The lesser of two numbers.
LEMMA LesserOf ==
  ASSUME NEW a \in Int, NEW b \in Int
  PROVE  Min({a, b}) \in {a, b} /\ Min({a, b}) <= a /\ Min({a, b}) <= b
  <1>1. \E x \in {a, b} : \A y \in {a, b} : x <= y
    BY SMT
  <1>2. Min({a, b}) \in {a, b} /\ \A y \in {a, b} : Min({a, b}) <= y
    BY <1>1, Zenon DEF Min
  <1>3. QED
    BY <1>2

\* The results on the server are results, with another one too.
LEMMA AddedResults ==
  ASSUME TypeOK, SrvInv, NEW c \in Commits, NEW u \in Updates
  PROVE  Added(c, u) \in Results
  <1>1. ReadSrv(c) \in Results
    <2>1. CASE srv[c] = None
      <3>1. NoTests \in [{} -> Status]
        BY DEF NoTests
      <3>2. QED
        BY <2>1, <3>1 DEF ReadSrv, Results
    <2>2. CASE srv[c] # None
      <3>1. srv[c] \in Files
        BY <2>2 DEF TypeOK
      <3>2. QED
        BY <2>2, <3>1, FileFields DEF ReadSrv, SrvInv
    <2>3. QED
      BY <2>1, <2>2
  <1>2. PICK T \in SUBSET Tests : ReadSrv(c) \in [T -> Status]
    BY <1>1 DEF Results
  <1>3. u[1] \in Tests /\ u[2] \in Status
    BY MirrorConstantsOK
  <1>4. Added(c, u) \in [T \cup {u[1]} -> Status]
    BY <1>2, <1>3 DEF Added
  <1>5. T \cup {u[1]} \in SUBSET Tests
    BY <1>2, <1>3
  <1>6. QED
    BY <1>4, <1>5 DEF Results

\* The commits of a log are commits.
LEMMA LogCommits ==
  ASSUME NEW repo, IsRepo(repo), NEW b \in DOMAIN repo.tip
  PROVE  SubSeq(repo.history, repo.tip[b], Min({Len(repo.history), repo.tip[b] + Depth - 1}))
           \in Seq(Commits)
  <1> DEFINE history == repo.history
             tip == repo.tip[b]
             last == Min({Len(history), tip + Depth - 1})
  <1>1. history \in Seq(Commits) /\ tip \in 1..Len(history) /\ Depth \in Nat
    BY MirrorConstantsOK DEF IsRepo
  <1>2. Len(history) \in Int /\ tip + Depth - 1 \in Int
    BY <1>1
  <1>3. last \in {Len(history), tip + Depth - 1} /\ last <= Len(history)
    BY <1>2, LesserOf, Zenon
  <1> HIDE DEF history, tip, last
  <1>4. last \in Int /\ tip \in Int /\ \A i \in tip..last : history[i] \in Commits
    BY <1>1, <1>2, <1>3
  <1>5. SubSeq(history, tip, last) \in Seq(Commits)
    BY <1>4, SubSeqProperties, Zenon
  <1>6. QED
    BY <1>5 DEF history, tip, last

\* A name that is no full hash leads nowhere, as a mirror has no directories.
LEMMA ShownCommit ==
  ASSUME NEW prefix \in Names, resolve_commit_prefix({}, prefix) # None
  PROVE  resolve_commit_prefix({}, prefix) \in Commits
  <1>1. Cardinality({c \in {} : c \in prefix.matches}) = 0
    <2>1. {c \in {} : c \in prefix.matches} = {}
      OBVIOUS
    <2>2. QED
      BY <2>1, FS_EmptySet, Zenon
  <1>2. prefix.full
    <2>1. ~(0 = 1)
      OBVIOUS
    <2>2. QED
      BY <1>1, <2>1, Zenon DEF resolve_commit_prefix
  <1>3. QED
    BY <1>2, MirrorConstantsOK DEF resolve_commit_prefix

-----------------------------------------------------------------------------
(* Types.                                                                  *)

Stages == {"no", "todo", "sent", "got", "cut", "done", "failed", "lost"}
TypeInv == TypeOK /\ SrvInv

LEMMA TypeInit == Init => TypeInv
  <1> SUFFICES ASSUME Init PROVE TypeInv
    OBVIOUS
  <1>1. PICK s \in Scenarios :
          /\ up = s.up /\ repos = s.repos /\ budget = s.budget /\ ops = s.ops /\ skew = s.skew
          /\ srv = [c \in Commits |-> IF s.tests[c] = None THEN None
                                      ELSE [tests |-> s.tests[c], ver |-> 1, mtime |-> 0]]
          /\ vers = [c \in Commits |-> IF s.tests[c] = None THEN 0 ELSE 1]
    BY DEF Init
  <1>2. /\ \A r \in DOMAIN s.repos : IsRepo(s.repos[r])
        /\ s.up \in BOOLEAN /\ s.budget \in Nat /\ s.ops \in Nat /\ s.skew \in Int
        /\ s.tests \in [Commits -> Results \cup {None}]
        /\ MaxClock \in Nat /\ MaxFaults \in Nat /\ Torn \notin Results
    BY MirrorConstantsOK
  <1>3. ASSUME NEW c \in Commits
        PROVE  /\ srv[c] \in Files \cup {None} /\ vers[c] \in Nat
               /\ srv[c] # None => /\ srv[c].ver = vers[c] /\ srv[c].ver \in 1..vers[c]
                                   /\ srv[c].mtime = 0 /\ srv[c].tests # Torn
    <2>1. CASE s.tests[c] = None
      BY <1>1, <2>1
    <2>2. CASE s.tests[c] # None
      <3>1. s.tests[c] \in Results
        BY <1>2, <2>2
      <3>2. srv[c] = [tests |-> s.tests[c], ver |-> 1, mtime |-> 0] /\ vers[c] = 1
        BY <1>1, <2>2
      <3>3. QED
        BY <1>2, <3>1, <3>2 DEF Files
    <2>3. QED
      BY <2>1, <2>2
  <1>4. srv \in [Commits -> Files \cup {None}] /\ vers \in [Commits -> Nat]
    BY <1>1, <1>3
  <1>5. /\ clock = 0 /\ mirror = Each(None) /\ live = {} /\ commit_ids = [p \in Clients |-> <<>>]
        /\ fetch = [p \in Clients |-> Each("no")] /\ since = [p \in Clients |-> Each(None)]
        /\ answer = [p \in Clients |-> Each(None)] /\ floor = [p \in Clients |-> Each(0)]
        /\ faults = 0 /\ raced = {} /\ spoilt = {}
    BY DEF Init
  <1>6. <<>> \in Seq(Commits)
    OBVIOUS
  <1>7. TypeOK
    BY <1>1, <1>2, <1>3, <1>4, <1>5, <1>6 DEF TypeOK, Each
  <1>8. SrvInv
    BY <1>3, <1>5 DEF SrvInv, Each
  <1>9. QED
    BY <1>7, <1>8 DEF TypeInv

\* One fetch moves on, the others stay.
LEMMA FetchedOne ==
  ASSUME TypeOK, NEW p \in Clients, NEW c \in Commits, NEW stage \in Stages
  PROVE  /\ Fetched(p, c, stage) \in [Clients -> [Commits -> Stages]]
         /\ Fetched(p, c, stage)[p][c] = stage
         /\ \A q \in Clients, d \in Commits :
              q # p \/ d # c => Fetched(p, c, stage)[q][d] = fetch[q][d]
  BY DEF TypeOK, Fetched, Stages

LEMMA TypePublish ==
  ASSUME TypeInv, NEW c \in Commits, Publish(c)
  PROVE  TypeInv'
  <1>1. PICK u \in Updates :
          srv' = [srv EXCEPT ![c] = [tests |-> Added(c, u), ver |-> vers[c] + 1, mtime |-> clock]]
    BY DEF Publish
  <1> DEFINE new == [tests |-> Added(c, u), ver |-> vers[c] + 1, mtime |-> clock]
  <1>2. Added(c, u) \in Results /\ Torn \notin Results
    BY AddedResults, MirrorConstantsOK DEF TypeInv
  <1>3. vers[c] \in Nat /\ clock \in 0..MaxClock /\ clock \in Int
    BY DEF TypeInv, TypeOK
  <1>4. /\ new \in Files /\ new # None /\ new.ver = vers[c] + 1 /\ new.mtime = clock
        /\ new.tests # Torn
    <2>1. new \in Files /\ new.ver = vers[c] + 1 /\ new.mtime = clock /\ new.tests # Torn
      BY <1>2, <1>3 DEF Files
    <2>2. QED
      BY <2>1, FileFields
  <1>5. srv' = [srv EXCEPT ![c] = new]
    BY <1>1
  <1> HIDE DEF new
  <1>6. /\ vers' = [vers EXCEPT ![c] = @ + 1] /\ budget > 0 /\ budget' = budget - 1
        /\ UNCHANGED <<up, repos, clock, skew, mirror, procVars, faults, ops, spoilt>>
    BY DEF Publish
  <1>7. \A d \in Commits : vers'[d] \in Nat /\ vers[d] <= vers'[d]
    BY <1>6 DEF TypeInv, TypeOK
  <1>8. TypeOK'
    <2>1. srv' \in [Commits -> Files \cup {None}] /\ vers' \in [Commits -> Nat]
      BY <1>3, <1>4, <1>5, <1>6 DEF TypeInv, TypeOK
    <2>2. ASSUME NEW d \in Commits
          PROVE  /\ srv'[d] # None => srv'[d].ver \in 1..vers'[d] /\ srv'[d].mtime <= clock
                 /\ mirror[d] # None => mirror[d].ver <= vers'[d] /\ mirror[d].mtime <= Now
      BY <1>3, <1>4, <1>5, <1>6, <1>7, FileFields DEF TypeInv, TypeOK
    <2>3. budget' \in Nat
      BY <1>6 DEF TypeInv, TypeOK
    <2>4. QED
      BY <1>6, <2>1, <2>2, <2>3 DEF TypeInv, TypeOK
  <1>9. SrvInv'
    <2>1. ASSUME NEW d \in Commits, srv'[d] # None
          PROVE  srv'[d].ver = vers'[d] /\ srv'[d].tests # Torn
      BY <1>3, <1>4, <1>5, <1>6, <2>1 DEF TypeInv, TypeOK, SrvInv
    <2>2. ASSUME NEW p \in Clients, NEW d \in Commits, answer[p][d] # None
          PROVE  answer[p][d].tests # Torn /\ answer[p][d].ver <= vers'[d]
      <3>1. answer[p][d] \in Files /\ answer[p][d].ver <= vers[d] /\ vers[d] \in Nat
        BY <2>2 DEF TypeInv, TypeOK, SrvInv
      <3>2. answer[p][d].ver \in Nat
        BY <3>1, FileFields
      <3>3. QED
        BY <1>7, <2>2, <3>1, <3>2 DEF TypeInv, SrvInv
    <2>3. QED
      BY <1>6, <2>1, <2>2 DEF TypeInv, SrvInv
  <1>10. QED
    BY <1>8, <1>9 DEF TypeInv

LEMMA TypeUnpublish ==
  ASSUME TypeInv, NEW c \in Commits, Unpublish(c)
  PROVE  TypeInv'
  <1>1. TypeOK'
    BY DEF TypeInv, TypeOK, Unpublish
  <1>2. SrvInv'
    BY DEF TypeInv, TypeOK, SrvInv, Unpublish
  <1>3. QED
    BY <1>1, <1>2 DEF TypeInv

LEMMA TypePush ==
  ASSUME TypeInv, NEW r \in DOMAIN repos, NEW b \in DOMAIN repos[r].tip, Push(r, b)
  PROVE  TypeInv'
  <1>1. /\ repos' = [repos EXCEPT ![r].tip[b] = @ - 1]
        /\ budget > 0 /\ budget' = budget - 1 /\ repos[r].tip[b] > 1
        /\ UNCHANGED <<up, clock, skew, srv, vers, mirror, procVars, faults, ops, raced, spoilt>>
    BY DEF Push
  <1>2. DOMAIN repos' = DOMAIN repos
    BY <1>1
  <1>3. ASSUME NEW x \in DOMAIN repos PROVE IsRepo(repos'[x])
    <2>1. IsRepo(repos[x])
      BY DEF TypeInv, TypeOK
    <2>2. CASE x # r
      BY <1>1, <2>1, <2>2
    <2>3. CASE x = r
      <3>1. repos'[r] = [repos[r] EXCEPT !.tip[b] = @ - 1]
        BY <1>1
      <3>2. PICK old : old = repos[r]
        OBVIOUS
      <3>3. PICK new : new = repos'[r]
        OBVIOUS
      <3>4. /\ old \in [history : Seq(Commits), tip : [DOMAIN old.tip -> Nat]]
            /\ \A i \in DOMAIN old.tip : old.tip[i] \in 1..Len(old.history)
        BY <2>1, <2>3, <3>2 DEF IsRepo
      <3>5. new = [old EXCEPT !.tip[b] = @ - 1] /\ b \in DOMAIN old.tip /\ old.tip[b] > 1
        BY <1>1, <3>1, <3>2, <3>3
      <3>6. /\ new.history = old.history /\ new.tip = [old.tip EXCEPT ![b] = @ - 1]
            /\ new = [history |-> new.history, tip |-> new.tip]
        BY <3>4, <3>5
      <3>7. DOMAIN new.tip = DOMAIN old.tip /\ new.tip \in [DOMAIN old.tip -> Nat]
        BY <3>4, <3>5, <3>6
      <3>8. \A i \in DOMAIN new.tip : new.tip[i] \in 1..Len(new.history)
        BY <3>4, <3>5, <3>6, <3>7
      <3>9. IsRepo(new)
        BY <3>4, <3>6, <3>7, <3>8 DEF IsRepo
      <3>10. QED
        BY <2>3, <3>3, <3>9
    <2>4. QED
      BY <2>2, <2>3
  <1>4. budget' \in Nat
    BY <1>1 DEF TypeInv, TypeOK
  <1>5. TypeOK'
    BY <1>1, <1>2, <1>3, <1>4 DEF TypeInv, TypeOK
  <1>6. SrvInv'
    BY <1>1 DEF TypeInv, SrvInv
  <1>7. QED
    BY <1>5, <1>6 DEF TypeInv

LEMMA TypeTick ==
  ASSUME TypeInv, Tick
  PROVE  TypeInv'
  <1>1. /\ clock \in 0..MaxClock /\ clock < MaxClock /\ clock' = clock + 1 /\ MaxClock \in Nat
        /\ UNCHANGED <<serverVars, mirror, procVars, faults, ops, raced, spoilt>>
    BY MirrorConstantsOK DEF TypeInv, TypeOK, Tick
  <1>2. /\ clock' \in 0..MaxClock /\ skew \in Int
        /\ \A n \in Int : (n <= clock => n <= clock') /\ (n <= Now => n <= Now')
    BY <1>1 DEF TypeInv, TypeOK
  <1>3. \A c \in Commits : /\ srv[c] # None => srv[c].mtime \in Int
                           /\ mirror[c] # None => mirror[c].mtime \in Int
    BY FileFields, <1>1 DEF TypeInv, TypeOK
  <1>4. TypeOK'
    BY <1>1, <1>2, <1>3 DEF TypeInv, TypeOK
  <1>5. SrvInv'
    BY <1>1 DEF TypeInv, SrvInv
  <1>6. QED
    BY <1>4, <1>5 DEF TypeInv

\* The two commands.
LEMMA TypeBegin ==
  ASSUME TypeInv, NEW p \in Clients, NEW commits \in Seq(Commits), NEW S \in SUBSET Range(commits),
         Begin(p, commits, S)
  PROVE  TypeInv'
  <1>1. /\ ops > 0 /\ ops' = ops - 1 /\ live' = live \cup {p}
        /\ commit_ids' = [commit_ids EXCEPT ![p] = commits]
        /\ fetch' = [fetch EXCEPT ![p] = [c \in Commits |-> IF c \in S THEN "todo" ELSE "no"]]
        /\ floor' = [floor EXCEPT ![p] = [c \in Commits |-> IF c \in Range(commits) THEN Version(c) ELSE 0]]
        /\ UNCHANGED <<serverVars, clock, mirror, since, answer, faults, raced, spoilt>>
    BY DEF Begin
  <1>2. \A c \in Commits : Version(c) \in Nat
    BY FileFields DEF TypeInv, TypeOK, Version
  <1>3. floor' \in [Clients -> [Commits -> Nat]]
    BY <1>1, <1>2 DEF TypeInv, TypeOK
  <1>4. /\ fetch' \in [Clients -> [Commits -> Stages]]
        /\ commit_ids' \in [Clients -> Seq(Commits)]
        /\ live' \subseteq Clients /\ ops' \in Nat
    BY <1>1 DEF TypeInv, TypeOK, Stages
  <1>5. ASSUME NEW q \in Clients, NEW c \in Commits, fetch'[q][c] # "no"
        PROVE  q \in live' /\ c \in Range(commit_ids'[q])
    BY <1>1, <1>5 DEF TypeInv, TypeOK
  <1>6. TypeOK'
    BY <1>1, <1>3, <1>4, <1>5 DEF TypeInv, TypeOK, Stages
  <1>7. ASSUME NEW q \in Clients, NEW c \in Commits, fetch'[q][c] \in {"got", "cut"}
        PROVE  fetch[q][c] \in {"got", "cut"}
    BY <1>1, <1>7 DEF TypeInv, TypeOK
  <1>8. SrvInv'
    BY <1>1, <1>7 DEF TypeInv, SrvInv
  <1>9. QED
    BY <1>6, <1>8 DEF TypeInv

LEMMA LogBegins ==
  ASSUME TypeInv, NEW p \in Clients, CmdLog(p)
  PROVE  \E commits \in Seq(Commits) : Begin(p, commits, prefetch_capnp(commits))
  <1>1. PICK r \in DOMAIN repos : \E b \in DOMAIN repos[r].tip :
          LET commits == SubSeq(repos[r].history, repos[r].tip[b],
                                Min({Len(repos[r].history), repos[r].tip[b] + Depth - 1}))
          IN Begin(p, commits, prefetch_capnp(commits))
    BY Zenon DEF CmdLog
  <1>2. IsRepo(repos[r])
    BY Zenon DEF TypeInv, TypeOK
  <1>3. QED
    BY <1>1, <1>2, LogCommits, Zenon

LEMMA ShowBegins ==
  ASSUME TypeInv, NEW p \in Clients, CmdShow(p)
  PROVE  \E c \in Commits : Begin(p, <<c>>, {c})
  BY ShownCommit, Zenon DEF CmdShow

\* A command fetches commits that it is about.
LEMMA FetchesWithin ==
  ASSUME NEW commits \in Seq(Commits)
  PROVE  prefetch_capnp(commits) \in SUBSET Range(commits)
  BY DEF prefetch_capnp, Range

LEMMA TypeLog ==
  ASSUME TypeInv, NEW p \in Clients, CmdLog(p)
  PROVE  TypeInv'
  <1>1. PICK commits \in Seq(Commits) : Begin(p, commits, prefetch_capnp(commits))
    BY LogBegins
  <1>2. PICK S \in SUBSET Range(commits) : S = prefetch_capnp(commits)
    BY FetchesWithin
  <1>3. QED
    BY <1>1, <1>2, TypeBegin

LEMMA TypeShow ==
  ASSUME TypeInv, NEW p \in Clients, CmdShow(p)
  PROVE  TypeInv'
  <1>1. PICK c \in Commits : Begin(p, <<c>>, {c})
    BY ShowBegins
  <1>2. <<c>> \in Seq(Commits) /\ {c} \in SUBSET Range(<<c>>)
    BY DEF Range
  <1>3. QED
    BY <1>1, <1>2, TypeBegin

LEMMA TypeEnds ==
  ASSUME TypeInv, NEW p \in Clients, Ends(p), faults' \in 0..MaxFaults, spoilt' \subseteq Commits,
         UNCHANGED <<serverVars, clock, mirror, ops>>
  PROVE  TypeInv'
  <1>1. /\ fetch' \in [Clients -> [Commits -> Stages]] /\ commit_ids' \in [Clients -> Seq(Commits)]
        /\ since' \in [Clients -> [Commits -> Int \cup {None}]]
        /\ answer' \in [Clients -> [Commits -> Files \cup {None}]]
        /\ floor' \in [Clients -> [Commits -> Nat]] /\ live' \subseteq Clients
    <2>1. <<>> \in Seq(Commits)
      OBVIOUS
    <2>2. QED
      BY <2>1 DEF TypeInv, TypeOK, Ends, Each, Stages
  <1>2. \A q \in Clients, c \in Commits : fetch'[q][c] # "no" => q \in live' /\ c \in Range(commit_ids'[q])
    BY DEF TypeInv, TypeOK, Ends, Each
  <1>3. TypeOK'
    BY <1>1, <1>2 DEF TypeInv, TypeOK, Stages
  <1>4. \A q \in Clients, c \in Commits :
          /\ answer'[q][c] # None => answer'[q][c] = answer[q][c]
          /\ fetch'[q][c] \in {"got", "cut"} => /\ fetch[q][c] \in {"got", "cut"}
                                                /\ answer'[q][c] = answer[q][c]
    BY DEF TypeInv, TypeOK, Ends, Each
  <1>5. SrvInv'
    BY <1>4 DEF TypeInv, SrvInv
  <1>6. QED
    BY <1>3, <1>5 DEF TypeInv

LEMMA TypeExit ==
  ASSUME TypeInv, NEW p \in Clients, Exit(p)
  PROVE  TypeInv'
  BY TypeEnds DEF TypeInv, TypeOK, Exit

LEMMA TypeKill ==
  ASSUME TypeInv, NEW p \in Clients, Kill(p)
  PROVE  TypeInv'
  <1>1. faults' \in 0..MaxFaults /\ spoilt' \subseteq Commits
    BY MirrorConstantsOK DEF TypeInv, TypeOK, Kill
  <1>2. Ends(p) /\ UNCHANGED <<serverVars, clock, mirror, ops>>
    BY DEF Kill
  <1>3. QED
    BY <1>1, <1>2, TypeEnds

\* A fetch under way stays within the walk.
LEMMA TypeFetched ==
  ASSUME TypeInv, NEW p \in Clients, NEW c \in Commits, NEW stage \in Stages,
         fetch[p][c] # "no", fetch' = Fetched(p, c, stage), UNCHANGED <<live, commit_ids>>
  PROVE  /\ fetch' \in [Clients -> [Commits -> Stages]]
         /\ \A q \in Clients, d \in Commits :
              fetch'[q][d] # "no" => q \in live' /\ d \in Range(commit_ids'[q])
         /\ fetch'[p][c] = stage
         /\ \A q \in Clients, d \in Commits : q # p \/ d # c => fetch'[q][d] = fetch[q][d]
  <1>1. TypeOK
    BY DEF TypeInv
  <1>2. /\ fetch' \in [Clients -> [Commits -> Stages]] /\ fetch'[p][c] = stage
        /\ \A q \in Clients, d \in Commits : q # p \/ d # c => fetch'[q][d] = fetch[q][d]
    BY <1>1, FetchedOne
  <1>3. \A q \in Clients, d \in Commits :
          fetch[q][d] # "no" => q \in live' /\ d \in Range(commit_ids'[q])
    BY <1>1 DEF TypeOK
  <1>4. QED
    BY <1>2, <1>3

\* What a request changes.
LEMMA Sent ==
  ASSUME TypeInv, NEW p \in Clients, NEW c \in Commits, Send(p, c)
  PROVE  /\ fetch[p][c] = "todo" /\ fetch'[p][c] = "sent" /\ since'[p][c] = IfModifiedSince(c)
         /\ \A q \in Clients, d \in Commits : q # p \/ d # c =>
              fetch'[q][d] = fetch[q][d] /\ since'[q][d] = since[q][d]
         /\ TypeInv'
         /\ UNCHANGED <<serverVars, clock, mirror, live, commit_ids, answer, floor, faults, ops, raced, spoilt>>
  <1>1. /\ fetch[p][c] = "todo" /\ fetch' = Fetched(p, c, "sent")
        /\ since' = [since EXCEPT ![p][c] = IfModifiedSince(c)]
        /\ UNCHANGED <<serverVars, clock, mirror, live, commit_ids, answer, floor, faults, ops, raced, spoilt>>
    BY DEF Send
  <1>2. /\ fetch' \in [Clients -> [Commits -> Stages]] /\ fetch'[p][c] = "sent"
        /\ \A q \in Clients, d \in Commits :
             fetch'[q][d] # "no" => q \in live' /\ d \in Range(commit_ids'[q])
        /\ \A q \in Clients, d \in Commits : q # p \/ d # c => fetch'[q][d] = fetch[q][d]
    BY <1>1, TypeFetched DEF Stages
  <1>3. IfModifiedSince(c) \in Int \cup {None}
    BY FileFields DEF TypeInv, TypeOK, IfModifiedSince
  <1>4. /\ since' \in [Clients -> [Commits -> Int \cup {None}]]
        /\ since'[p][c] = IfModifiedSince(c)
        /\ \A q \in Clients, d \in Commits : q # p \/ d # c => since'[q][d] = since[q][d]
    BY <1>1, <1>3 DEF TypeInv, TypeOK
  <1>5. TypeOK'
    BY <1>1, <1>2, <1>4 DEF TypeInv, TypeOK, Stages
  <1>6. SrvInv'
    BY <1>1, <1>2 DEF TypeInv, SrvInv
  <1>7. QED
    BY <1>1, <1>2, <1>4, <1>5, <1>6 DEF TypeInv

\* What the server's answer changes.
LEMMA Answered ==
  ASSUME TypeInv, NEW p \in Clients, NEW c \in Commits, Answer(p, c)
  PROVE  /\ fetch[p][c] = "sent" /\ fetch'[p][c] \in {"got", "done"}
         /\ fetch'[p][c] = "got" => srv[c] # None
         /\ fetch'[p][c] = "done" => srv[c] = None \/ (since[p][c] # None /\ srv[c].mtime <= since[p][c])
         /\ answer'[p][c] = srv[c] /\ since'[p][c] = None
         /\ \A q \in Clients, d \in Commits : q # p \/ d # c =>
              fetch'[q][d] = fetch[q][d] /\ answer'[q][d] = answer[q][d] /\ since'[q][d] = since[q][d]
         /\ TypeInv'
         /\ UNCHANGED <<serverVars, clock, mirror, live, commit_ids, floor, faults, ops, raced, spoilt>>
  <1>1. /\ answer' = [answer EXCEPT ![p][c] = srv[c]] /\ since' = [since EXCEPT ![p][c] = None]
        /\ UNCHANGED <<serverVars, clock, mirror, live, commit_ids, floor, faults, ops, raced, spoilt>>
        /\ fetch[p][c] = "sent"
    BY DEF Answer
  <1>2. PICK stage \in {"got", "done"} :
          /\ fetch' = Fetched(p, c, stage)
          /\ stage = "got" => srv[c] # None
          /\ stage = "done" => srv[c] = None \/ (since[p][c] # None /\ srv[c].mtime <= since[p][c])
    <2>1. CASE srv[c] = None
      BY <2>1 DEF Answer
    <2>2. CASE srv[c] # None /\ since[p][c] # None /\ srv[c].mtime <= since[p][c]
      BY <2>2 DEF Answer
    <2>3. CASE srv[c] # None /\ ~(since[p][c] # None /\ srv[c].mtime <= since[p][c])
      BY <2>3 DEF Answer
    <2>4. QED
      BY <2>1, <2>2, <2>3
  <1>3. stage \in Stages /\ fetch[p][c] # "no"
    BY <1>1 DEF Stages
  <1>4. /\ fetch' \in [Clients -> [Commits -> Stages]] /\ fetch'[p][c] = stage
        /\ \A q \in Clients, d \in Commits :
             fetch'[q][d] # "no" => q \in live' /\ d \in Range(commit_ids'[q])
        /\ \A q \in Clients, d \in Commits : q # p \/ d # c => fetch'[q][d] = fetch[q][d]
    BY <1>1, <1>2, <1>3, TypeFetched
  <1>5. /\ answer' \in [Clients -> [Commits -> Files \cup {None}]]
        /\ since' \in [Clients -> [Commits -> Int \cup {None}]]
        /\ answer'[p][c] = srv[c] /\ since'[p][c] = None
        /\ \A q \in Clients, d \in Commits : q # p \/ d # c =>
              answer'[q][d] = answer[q][d] /\ since'[q][d] = since[q][d]
    BY <1>1 DEF TypeInv, TypeOK
  <1>6. TypeOK'
    BY <1>1, <1>4, <1>5 DEF TypeInv, TypeOK, Stages
  <1>7. SrvInv'
    <2>1. srv[c] # None => srv[c].ver <= vers[c]
      BY FileFields DEF TypeInv, TypeOK, SrvInv
    <2>2. ASSUME NEW q \in Clients, NEW d \in Commits
          PROVE  /\ answer'[q][d] # None => answer'[q][d].tests # Torn /\ answer'[q][d].ver <= vers[d]
                 /\ fetch'[q][d] \in {"got", "cut"} => answer'[q][d] # None
      <3>1. CASE q = p /\ d = c
        BY <1>2, <1>4, <1>5, <2>1, <3>1 DEF TypeInv, SrvInv
      <3>2. CASE q # p \/ d # c
        <4>1. fetch'[q][d] = fetch[q][d] /\ answer'[q][d] = answer[q][d]
          BY <1>4, <1>5, <3>2
        <4>2. QED
          BY <4>1 DEF TypeInv, SrvInv
      <3>3. QED
        BY <3>1, <3>2
    <2>3. QED
      BY <1>1, <2>2 DEF TypeInv, SrvInv
  <1>8. QED
    BY <1>1, <1>2, <1>4, <1>5, <1>6, <1>7 DEF TypeInv

\* What a failed request changes.
LEMMA FailedFetch ==
  ASSUME TypeInv, NEW p \in Clients, NEW c \in Commits, FetchError(p, c)
  PROVE  /\ fetch[p][c] = "sent" /\ fetch'[p][c] = "failed" /\ since'[p][c] = None
         /\ \A q \in Clients, d \in Commits : q # p \/ d # c =>
              fetch'[q][d] = fetch[q][d] /\ since'[q][d] = since[q][d]
         /\ TypeInv'
         /\ UNCHANGED <<serverVars, clock, mirror, live, commit_ids, answer, floor, faults, ops, raced, spoilt>>
  <1>1. /\ fetch[p][c] = "sent" /\ fetch' = Fetched(p, c, "failed")
        /\ since' = [since EXCEPT ![p][c] = None]
        /\ UNCHANGED <<serverVars, clock, mirror, live, commit_ids, answer, floor, faults, ops, raced, spoilt>>
    BY DEF FetchError
  <1>2. /\ fetch' \in [Clients -> [Commits -> Stages]] /\ fetch'[p][c] = "failed"
        /\ \A q \in Clients, d \in Commits :
             fetch'[q][d] # "no" => q \in live' /\ d \in Range(commit_ids'[q])
        /\ \A q \in Clients, d \in Commits : q # p \/ d # c => fetch'[q][d] = fetch[q][d]
    BY <1>1, TypeFetched DEF Stages
  <1>3. /\ since' \in [Clients -> [Commits -> Int \cup {None}]] /\ since'[p][c] = None
        /\ \A q \in Clients, d \in Commits : q # p \/ d # c => since'[q][d] = since[q][d]
    BY <1>1 DEF TypeInv, TypeOK
  <1>4. TypeOK'
    BY <1>1, <1>2, <1>3 DEF TypeInv, TypeOK, Stages
  <1>5. SrvInv'
    BY <1>1, <1>2 DEF TypeInv, SrvInv
  <1>6. QED
    BY <1>1, <1>2, <1>3, <1>4, <1>5 DEF TypeInv

\* What a copy that cannot be opened changes.
LEMMA FailedOpen ==
  ASSUME TypeInv, NEW p \in Clients, NEW c \in Commits, OpenError(p, c)
  PROVE  /\ fetch[p][c] = "got" /\ fetch'[p][c] = "lost"
         /\ \A q \in Clients, d \in Commits : q # p \/ d # c => fetch'[q][d] = fetch[q][d]
         /\ TypeInv'
         /\ UNCHANGED <<serverVars, clock, mirror, live, commit_ids, since, answer, floor, ops, raced, spoilt>>
  <1>1. /\ fetch[p][c] = "got" /\ fetch' = Fetched(p, c, "lost")
        /\ UNCHANGED <<serverVars, clock, mirror, live, commit_ids, since, answer, floor, ops, raced, spoilt>>
    BY DEF OpenError
  <1>2. /\ fetch' \in [Clients -> [Commits -> Stages]] /\ fetch'[p][c] = "lost"
        /\ \A q \in Clients, d \in Commits :
             fetch'[q][d] # "no" => q \in live' /\ d \in Range(commit_ids'[q])
        /\ \A q \in Clients, d \in Commits : q # p \/ d # c => fetch'[q][d] = fetch[q][d]
    BY <1>1, TypeFetched DEF Stages
  <1>3. faults' \in 0..MaxFaults
    BY MirrorConstantsOK DEF TypeInv, TypeOK, OpenError
  <1>4. TypeOK'
    BY <1>1, <1>2, <1>3 DEF TypeInv, TypeOK, Stages
  <1>5. SrvInv'
    BY <1>1, <1>2 DEF TypeInv, SrvInv
  <1>6. QED
    BY <1>1, <1>2, <1>4, <1>5 DEF TypeInv

\* A write into the mirror: new is the copy it leaves.
Writes(p, c, new, stage) ==
  /\ fetch[p][c] \in {"got", "cut"} /\ fetch' = Fetched(p, c, stage)
  /\ mirror' = [mirror EXCEPT ![c] = new]
  /\ new \in Files /\ new.mtime = Now
  /\ \/ new.tests = Torn /\ new.ver = 0
     \/ new.tests # Torn /\ new.ver = answer[p][c].ver
  /\ UNCHANGED <<serverVars, clock, live, commit_ids, since, answer, floor, ops, raced>>

LEMMA TruncateWrites ==
  ASSUME TypeInv, NEW p \in Clients, NEW c \in Commits, Truncate(p, c)
  PROVE  Writes(p, c, TornCopy, "cut") /\ TornCopy.tests = Torn /\ UNCHANGED <<faults, spoilt>>
  <1>1. TornCopy \in Files
    BY DEF TypeInv, TypeOK, TornCopy, Files
  <1>2. QED
    BY <1>1 DEF Truncate, Writes, TornCopy

LEMMA SaveErrorWrites ==
  ASSUME TypeInv, NEW p \in Clients, NEW c \in Commits, SaveError(p, c)
  PROVE  /\ Writes(p, c, TornCopy, "done") /\ TornCopy.tests = Torn
         /\ spoilt' = spoilt \cup {c} /\ faults' \in 0..MaxFaults
  <1>1. TornCopy \in Files
    BY DEF TypeInv, TypeOK, TornCopy, Files
  <1>2. faults' \in 0..MaxFaults
    BY MirrorConstantsOK DEF TypeInv, TypeOK, SaveError
  <1>3. QED
    BY <1>1, <1>2 DEF SaveError, Writes, TornCopy

LEMMA SaveWrites ==
  ASSUME TypeInv, NEW p \in Clients, NEW c \in Commits, Save(p, c)
  PROVE  \E new : /\ Writes(p, c, new, "done") /\ UNCHANGED faults
                  /\ \/ new.tests = Torn /\ spoilt' = spoilt \cup {c}
                     \/ new.tests # Torn /\ spoilt' = spoilt \ {c}
  <1> DEFINE copy == [answer[p][c] EXCEPT !.mtime = Now]
  <1>1. /\ fetch[p][c] = "cut" /\ fetch' = Fetched(p, c, "done") /\ UNCHANGED faults
        /\ UNCHANGED <<serverVars, clock, live, commit_ids, since, answer, floor, ops, raced>>
    BY DEF Save
  <1>2. /\ answer[p][c] \in Files /\ answer[p][c].tests # Torn /\ Now \in Int
    BY <1>1 DEF TypeInv, TypeOK, SrvInv
  <1>3. /\ copy \in Files /\ copy.mtime = Now /\ copy.ver = answer[p][c].ver
        /\ copy.tests = answer[p][c].tests
    BY <1>2 DEF Files
  <1>4. /\ TornCopy \in Files /\ TornCopy.mtime = Now /\ TornCopy.tests = Torn
        /\ TornCopy.ver = 0
    BY <1>2 DEF TornCopy, Files
  <1>5. \/ mirror' = [mirror EXCEPT ![c] = copy] /\ spoilt' = spoilt \ {c}
        \/ mirror' = [mirror EXCEPT ![c] = TornCopy] /\ spoilt' = spoilt \cup {c}
    BY DEF Save
  <1> HIDE DEF copy
  <1>6. CASE mirror' = [mirror EXCEPT ![c] = copy] /\ spoilt' = spoilt \ {c}
    <2>1. Writes(p, c, copy, "done")
      BY <1>1, <1>2, <1>3, <1>6 DEF Writes
    <2>2. QED
      BY <1>1, <1>2, <1>3, <1>6, <2>1, Zenon
  <1>7. CASE mirror' = [mirror EXCEPT ![c] = TornCopy] /\ spoilt' = spoilt \cup {c}
    <2>1. Writes(p, c, TornCopy, "done")
      BY <1>1, <1>4, <1>7 DEF Writes
    <2>2. QED
      BY <1>1, <1>4, <1>7, <2>1, Zenon
  <1>8. QED
    BY <1>5, <1>6, <1>7

LEMMA TypeWrites ==
  ASSUME TypeInv, NEW p \in Clients, NEW c \in Commits, NEW new, NEW stage \in {"cut", "done"},
         Writes(p, c, new, stage), faults' \in 0..MaxFaults, spoilt' \subseteq Commits
  PROVE  /\ TypeInv'
         /\ fetch'[p][c] = stage /\ mirror'[c] = new
         /\ \A q \in Clients, d \in Commits : q # p \/ d # c => fetch'[q][d] = fetch[q][d]
         /\ \A d \in Commits : d # c => mirror'[d] = mirror[d]
  <1>1. /\ fetch[p][c] \in {"got", "cut"} /\ fetch' = Fetched(p, c, stage)
        /\ mirror' = [mirror EXCEPT ![c] = new]
        /\ new \in Files /\ new.mtime = Now
        /\ \/ new.tests = Torn /\ new.ver = 0
           \/ new.tests # Torn /\ new.ver = answer[p][c].ver
        /\ UNCHANGED <<serverVars, clock, live, commit_ids, since, answer, floor, ops, raced>>
    BY DEF Writes
  <1>2. stage \in Stages /\ fetch[p][c] # "no"
    BY <1>1 DEF Stages
  <1>3. /\ fetch' \in [Clients -> [Commits -> Stages]] /\ fetch'[p][c] = stage
        /\ \A q \in Clients, d \in Commits :
             fetch'[q][d] # "no" => q \in live' /\ d \in Range(commit_ids'[q])
        /\ \A q \in Clients, d \in Commits : q # p \/ d # c => fetch'[q][d] = fetch[q][d]
    BY <1>1, <1>2, TypeFetched
  <1>4. /\ mirror' \in [Commits -> Files \cup {None}] /\ mirror'[c] = new
        /\ \A d \in Commits : d # c => mirror'[d] = mirror[d]
    BY <1>1 DEF TypeInv, TypeOK
  <1>5. new.ver <= vers[c] /\ new.mtime <= Now
    <2>1. answer[p][c] # None /\ answer[p][c].ver <= vers[c] /\ vers[c] \in Nat /\ Now \in Int
      BY <1>1 DEF TypeInv, TypeOK, SrvInv
    <2>2. QED
      BY <1>1, <2>1
  <1>6. TypeOK'
    BY <1>1, <1>3, <1>4, <1>5 DEF TypeInv, TypeOK, Stages
  <1>7. SrvInv'
    BY <1>1, <1>3 DEF TypeInv, SrvInv
  <1>8. QED
    BY <1>3, <1>4, <1>6, <1>7 DEF TypeInv

LEMMA TypeStutter == TypeInv /\ UNCHANGED vars => TypeInv'
  BY DEF TypeInv, TypeOK, SrvInv

LEMMA TypeSave ==
  ASSUME TypeInv, NEW p \in Clients, NEW c \in Commits, Truncate(p, c) \/ Save(p, c) \/ SaveError(p, c)
  PROVE  TypeInv'
  <1>1. faults \in 0..MaxFaults /\ spoilt \subseteq Commits
    BY DEF TypeInv, TypeOK
  <1>2. CASE Truncate(p, c)
    BY <1>1, <1>2, TruncateWrites, TypeWrites
  <1>3. CASE Save(p, c)
    <2>1. PICK new : /\ Writes(p, c, new, "done") /\ UNCHANGED faults
                     /\ spoilt' = spoilt \cup {c} \/ spoilt' = spoilt \ {c}
      BY <1>3, SaveWrites, Zenon
    <2>2. QED
      BY <1>1, <2>1, TypeWrites
  <1>4. CASE SaveError(p, c)
    BY <1>1, <1>4, SaveErrorWrites, TypeWrites
  <1>5. QED
    BY <1>2, <1>3, <1>4

LEMMA TypeNext == TypeInv /\ [Next]_vars => TypeInv'
  <1> SUFFICES ASSUME TypeInv, [Next]_vars PROVE TypeInv'
    OBVIOUS
  <1>1. ASSUME NEW c \in Commits, Publish(c) \/ Unpublish(c) PROVE TypeInv'
    BY <1>1, TypePublish, TypeUnpublish
  <1>2. ASSUME NEW r \in DOMAIN repos, NEW b \in DOMAIN repos[r].tip, Push(r, b) PROVE TypeInv'
    BY <1>2, TypePush
  <1>3. CASE Tick
    BY <1>3, TypeTick
  <1>4. ASSUME NEW p \in Clients, CmdLog(p) \/ CmdShow(p) PROVE TypeInv'
    BY <1>4, TypeLog, TypeShow
  <1>5. ASSUME NEW p \in Clients, Exit(p) \/ Kill(p) PROVE TypeInv'
    BY <1>5, TypeExit, TypeKill
  <1>6. ASSUME NEW p \in Clients, NEW c \in Commits, Fetch(p, c) PROVE TypeInv'
    BY <1>6, Sent, Answered, FailedFetch, FailedOpen, TypeSave, Zenon DEF Fetch
  <1>7. CASE UNCHANGED vars
    BY <1>7, TypeStutter
  <1>8. QED
    BY <1>1, <1>2, <1>3, <1>4, <1>5, <1>6, <1>7, Zenon DEF Next

LEMMA TypeInvariant == Spec => []TypeInv
  BY TypeInit, TypeNext, PTL DEF Spec

\* The state keeps its types, for any number of clients: a copy is torn or a version that
\* was published, and a process fetches commits of its walk only (fetch_capnp_cached,
\* prefetch_capnp).
THEOREM TypeCorrect == Spec => []TypeOK
  <1>1. TypeInv => TypeOK
    BY DEF TypeInv
  <1>2. QED
    BY <1>1, TypeInvariant, PTL

-----------------------------------------------------------------------------
(* A copy that does not parse has a cause.                                 *)

LEMMA CauseWrites ==
  ASSUME TypeInv, UnreadableHasCause, NEW p \in Clients, NEW c \in Commits, NEW new,
         NEW stage \in {"cut", "done"}, Writes(p, c, new, stage), faults' \in 0..MaxFaults,
         \/ new.tests # Torn /\ spoilt' = spoilt \ {c}
         \/ spoilt' = spoilt \cup {c}
         \/ spoilt' = spoilt /\ stage = "cut"
  PROVE  UnreadableHasCause'
  <1>1. spoilt' \subseteq Commits
    BY DEF TypeInv, TypeOK
  <1>2. /\ fetch'[p][c] = stage /\ mirror'[c] = new
        /\ \A q \in Clients, d \in Commits : q # p \/ d # c => fetch'[q][d] = fetch[q][d]
        /\ \A d \in Commits : d # c => mirror'[d] = mirror[d]
    BY <1>1, TypeWrites
  <1>3. live' = live /\ p \in live /\ live \subseteq Clients
    BY DEF TypeInv, TypeOK, Writes
  <1>4. ASSUME NEW d \in Commits, mirror'[d] # None, mirror'[d].tests = Torn
        PROVE  d \in spoilt' \/ \E q \in live' : fetch'[q][d] = "cut"
    <2>1. CASE d = c
      BY <1>2, <1>3, <1>4, <2>1
    <2>2. CASE d # c
      <3>1. d \in spoilt \/ \E q \in live : fetch[q][d] = "cut"
        BY <1>2, <1>4, <2>2 DEF UnreadableHasCause
      <3>2. QED
        BY <1>2, <1>3, <2>2, <3>1
    <2>3. QED
      BY <2>1, <2>2
  <1>5. QED
    BY <1>4 DEF UnreadableHasCause

\* A process goes: what it was writing is spoilt.
LEMMA CauseEnds ==
  ASSUME TypeInv, UnreadableHasCause, NEW p \in Clients, Ends(p), UNCHANGED mirror,
         \A c \in Commits : fetch[p][c] = "cut" /\ mirror[c].tests = Torn => c \in spoilt',
         spoilt \subseteq spoilt'
  PROVE  UnreadableHasCause'
  <1>1. /\ live' = live \ {p} /\ live \subseteq Clients
        /\ \A q \in Clients, c \in Commits : q # p => fetch'[q][c] = fetch[q][c]
    BY DEF TypeInv, TypeOK, Ends
  <1>2. QED
    BY <1>1 DEF UnreadableHasCause

\* The other steps neither write a copy nor leave a write.
LEMMA CauseKeeps ==
  ASSUME UnreadableHasCause, UNCHANGED <<mirror, spoilt>>, live \subseteq live',
         \A p \in live, c \in Commits : fetch[p][c] = "cut" => fetch'[p][c] = "cut"
  PROVE  UnreadableHasCause'
  BY DEF UnreadableHasCause

LEMMA CauseNext == TypeInv /\ UnreadableHasCause /\ [Next]_vars => UnreadableHasCause'
  <1> SUFFICES ASSUME TypeInv, UnreadableHasCause, [Next]_vars PROVE UnreadableHasCause'
    OBVIOUS
  <1>1. ASSUME NEW c \in Commits, Publish(c) \/ Unpublish(c) PROVE UnreadableHasCause'
    BY <1>1, CauseKeeps DEF Publish, Unpublish
  <1>2. ASSUME NEW r \in DOMAIN repos, NEW b \in DOMAIN repos[r].tip, Push(r, b)
        PROVE  UnreadableHasCause'
    BY <1>2, CauseKeeps DEF Push
  <1>3. CASE Tick
    BY <1>3, CauseKeeps DEF Tick
  <1>4. ASSUME NEW p \in Clients, CmdLog(p) \/ CmdShow(p) PROVE UnreadableHasCause'
    <2>1. PICK commits, S : Begin(p, commits, S)
      BY <1>4, Zenon DEF CmdLog, CmdShow
    <2>2. \A q \in live, c \in Commits : fetch'[q][c] = fetch[q][c]
      BY <2>1 DEF TypeInv, TypeOK, Begin
    <2>3. QED
      BY <2>1, <2>2, CauseKeeps DEF Begin
  <1>5. ASSUME NEW p \in Clients, Exit(p) PROVE UnreadableHasCause'
    BY <1>5, CauseEnds DEF Exit, Finished
  <1>6. ASSUME NEW p \in Clients, Kill(p) PROVE UnreadableHasCause'
    BY <1>6, CauseEnds DEF Kill
  <1>7. live \subseteq Clients
    BY DEF TypeInv, TypeOK
  <1>8. ASSUME NEW p \in Clients, NEW c \in Commits, Send(p, c) \/ FetchError(p, c) \/ OpenError(p, c)
        PROVE  UnreadableHasCause'
    <2>1. \A q \in live, d \in Commits : fetch[q][d] = "cut" => fetch'[q][d] = "cut"
      BY <1>7, <1>8, Sent, FailedFetch, FailedOpen
    <2>2. QED
      BY <1>8, <2>1, CauseKeeps DEF Send, FetchError, OpenError
  <1>9. ASSUME NEW p \in Clients, NEW c \in Commits, Answer(p, c) PROVE UnreadableHasCause'
    <2>1. \A q \in live, d \in Commits : fetch[q][d] = "cut" => fetch'[q][d] = "cut"
      BY <1>7, <1>9, Answered
    <2>2. QED
      BY <1>9, <2>1, CauseKeeps, Answered
  <1>10. ASSUME NEW p \in Clients, NEW c \in Commits, Truncate(p, c) PROVE UnreadableHasCause'
    <2>1. faults' \in 0..MaxFaults /\ spoilt' = spoilt /\ Writes(p, c, TornCopy, "cut")
      BY <1>10, TruncateWrites DEF TypeInv, TypeOK
    <2>2. QED
      BY <2>1, CauseWrites
  <1>11. ASSUME NEW p \in Clients, NEW c \in Commits, Save(p, c) PROVE UnreadableHasCause'
    <2>1. PICK new : /\ Writes(p, c, new, "done") /\ UNCHANGED faults
                     /\ \/ new.tests = Torn /\ spoilt' = spoilt \cup {c}
                        \/ new.tests # Torn /\ spoilt' = spoilt \ {c}
      BY <1>11, SaveWrites, Zenon
    <2>2. faults' \in 0..MaxFaults
      BY <2>1 DEF TypeInv, TypeOK
    <2>3. QED
      BY <2>1, <2>2, CauseWrites
  <1>12. ASSUME NEW p \in Clients, NEW c \in Commits, SaveError(p, c) PROVE UnreadableHasCause'
    BY <1>12, SaveErrorWrites, CauseWrites
  <1>13. CASE UNCHANGED vars
    BY <1>13, CauseKeeps
  <1>14. QED
    BY <1>1, <1>2, <1>3, <1>4, <1>5, <1>6, <1>8, <1>9, <1>10, <1>11, <1>12, <1>13,
       Zenon DEF Next, Fetch

\* A copy that does not parse is being written by a running command, or a kill, a failed
\* write or two writers at once left it, for any number of commands on one mirror (the
\* threads of prefetch_capnp are joined, fs::write in fetch_capnp_cached).
THEOREM UnreadableExplained == Spec => []UnreadableHasCause
  <1>1. Init => UnreadableHasCause
    BY DEF Init, UnreadableHasCause, Each
  <1>2. QED
    BY <1>1, CauseNext, TypeInvariant, PTL DEF Spec

-----------------------------------------------------------------------------
(* Freshness.                                                              *)

FreshInv == RaceInv /\ DateInv /\ DoneInv /\ FloorInv /\ IdleInv

\* The versions and dates are numbers.
LEMMA Numbers ==
  ASSUME TypeInv, NEW c \in Commits
  PROVE  /\ vers[c] \in Nat /\ clock \in Nat /\ skew \in Int
         /\ srv[c] # None => /\ srv[c].ver \in Nat /\ srv[c].mtime \in Int
                             /\ srv[c].ver = vers[c] /\ srv[c].mtime <= clock
         /\ mirror[c] # None => /\ mirror[c].ver \in Nat /\ mirror[c].mtime \in Int
                                /\ mirror[c].ver <= vers[c] /\ mirror[c].mtime <= Now
         /\ \A p \in Clients :
              /\ floor[p][c] \in Nat
              /\ since[p][c] # None => since[p][c] \in Int
              /\ answer[p][c] # None => answer[p][c].ver \in Nat /\ answer[p][c].ver <= vers[c]
              /\ fetch[p][c] \in {"got", "cut"} => answer[p][c] # None
  <1>1. vers[c] \in Nat /\ clock \in Nat /\ skew \in Int
    BY DEF TypeInv, TypeOK
  <1>2. srv[c] # None => /\ srv[c].ver \in Nat /\ srv[c].mtime \in Int
                         /\ srv[c].ver = vers[c] /\ srv[c].mtime <= clock
    BY FileFields DEF TypeInv, TypeOK, SrvInv
  <1>3. mirror[c] # None => /\ mirror[c].ver \in Nat /\ mirror[c].mtime \in Int
                            /\ mirror[c].ver <= vers[c] /\ mirror[c].mtime <= Now
    BY FileFields DEF TypeInv, TypeOK
  <1>4. ASSUME NEW p \in Clients
        PROVE  /\ floor[p][c] \in Nat
               /\ since[p][c] # None => since[p][c] \in Int
               /\ answer[p][c] # None => answer[p][c].ver \in Nat /\ answer[p][c].ver <= vers[c]
               /\ fetch[p][c] \in {"got", "cut"} => answer[p][c] # None
    BY FileFields DEF TypeInv, TypeOK, SrvInv
  <1>5. QED
    BY <1>1, <1>2, <1>3, <1>4

LEMMA FreshInit == Init => FreshInv
  <1> SUFFICES ASSUME Init PROVE FreshInv
    OBVIOUS
  <1>1. /\ mirror = Each(None) /\ live = {}
        /\ fetch = [p \in Clients |-> Each("no")] /\ since = [p \in Clients |-> Each(None)]
        /\ answer = [p \in Clients |-> Each(None)] /\ floor = [p \in Clients |-> Each(0)]
    BY DEF Init
  <1>2. \A c \in Commits : vers[c] \in Nat
    BY TypeInit DEF TypeInv, TypeOK
  <1>3. RaceInv /\ DateInv /\ DoneInv /\ IdleInv
    BY <1>1 DEF RaceInv, DateInv, DoneInv, IdleInv, Each
  <1>4. FloorInv
    BY <1>1, <1>2 DEF FloorInv, Each
  <1>5. QED
    BY <1>3, <1>4 DEF FreshInv

\* A publication: what it overtakes is known to race.
LEMMA FreshPublish ==
  ASSUME TypeInv, FreshInv, NEW c \in Commits, Publish(c)
  PROVE  FreshInv'
  <1>1. /\ UNCHANGED <<mirror, live, commit_ids, fetch, since, answer, floor>>
        /\ vers'[c] = vers[c] + 1 /\ srv'[c].mtime = clock /\ raced \subseteq raced'
        /\ \A d \in Commits : d # c => vers'[d] = vers[d] /\ srv'[d] = srv[d]
        /\ OnItsWay(c) \/ (mirror[c] # None /\ mirror[c].mtime >= clock) =>
             <<c, vers'[c]>> \in raced'
    BY DEF TypeInv, TypeOK, Publish
  <1>2. \A d \in Commits : vers[d] \in Nat /\ vers'[d] \in Nat /\ vers[d] <= vers'[d]
    BY <1>1, Numbers
  <1>3. RaceInv'
    <2> SUFFICES ASSUME NEW p \in Clients, NEW d \in Commits, fetch[p][d] \in {"got", "cut"},
                        NEW v \in (answer[p][d].ver + 1)..vers'[d]
                 PROVE  <<d, v>> \in raced'
      BY <1>1 DEF RaceInv
    <2>1. answer[p][d].ver \in Nat
      BY Numbers
    <2>2. v <= vers[d] => <<d, v>> \in raced
      BY <1>2, <2>1 DEF FreshInv, RaceInv
    <2>3. v > vers[d] => d = c /\ v = vers'[c]
      BY <1>1, <1>2, <2>1
    <2>4. d = c => OnItsWay(c)
      BY DEF OnItsWay
    <2>5. v <= vers[d] \/ v > vers[d]
      BY <1>2, <2>1
    <2>6. QED
      BY <1>1, <2>2, <2>3, <2>4, <2>5
  <1>4. DateInv'
    <2>1. ASSUME NEW d \in Commits, mirror[d] # None, srv'[d] # None, mirror[d].tests # Torn
          PROVE  \/ mirror[d].ver >= vers'[d] \/ mirror[d].mtime < srv'[d].mtime
                 \/ <<d, vers'[d]>> \in raced'
      <3>1. CASE d = c
        <4>1. mirror[c].mtime \in Int /\ clock \in Nat
          BY <2>1, <3>1, Numbers
        <4>2. QED
          BY <1>1, <2>1, <3>1, <4>1
      <3>2. CASE d # c
        BY <1>1, <2>1, <3>2 DEF FreshInv, DateInv
      <3>3. QED
        BY <3>1, <3>2
    <2>2. QED
      BY <1>1, <2>1 DEF FreshInv, DateInv
  <1>5. DoneInv'
    BY <1>1 DEF FreshInv, DoneInv
  <1>6. FloorInv'
    <2>1. ASSUME NEW p \in Clients, NEW d \in Commits PROVE floor[p][d] <= vers'[d]
      BY <1>2, Numbers DEF FreshInv, FloorInv
    <2>2. QED
      BY <1>1, <2>1 DEF FreshInv, FloorInv
  <1>7. IdleInv'
    BY <1>1 DEF FreshInv, IdleInv
  <1>8. QED
    BY <1>3, <1>4, <1>5, <1>6, <1>7 DEF FreshInv

LEMMA FreshUnpublish ==
  ASSUME TypeInv, FreshInv, NEW c \in Commits, Unpublish(c)
  PROVE  FreshInv'
  <1>1. /\ UNCHANGED <<vers, mirror, live, commit_ids, fetch, since, answer, floor, raced>>
        /\ srv'[c] = None /\ \A d \in Commits : d # c => srv'[d] = srv[d]
    BY DEF TypeInv, TypeOK, Unpublish
  <1>2. DateInv'
    BY <1>1 DEF FreshInv, DateInv
  <1>3. RaceInv' /\ DoneInv' /\ FloorInv' /\ IdleInv'
    BY <1>1 DEF FreshInv, RaceInv, DoneInv, FloorInv, IdleInv
  <1>4. QED
    BY <1>2, <1>3 DEF FreshInv

LEMMA FreshKeeps ==
  ASSUME FreshInv, UNCHANGED <<srv, vers, mirror, live, commit_ids, fetch, since, answer, floor, raced>>
  PROVE  FreshInv'
  BY DEF FreshInv, RaceInv, DateInv, DoneInv, FloorInv, IdleInv

\* A command begins with nothing asked and nothing answered.
LEMMA FreshBegin ==
  ASSUME TypeInv, FreshInv, NEW p \in Clients, NEW commits \in Seq(Commits), NEW S,
         \A i \in DOMAIN commits : i <= NFresh => commits[i] \in S, Begin(p, commits, S)
  PROVE  FreshInv'
  <1>1. /\ UNCHANGED <<srv, vers, mirror, since, answer, raced>>
        /\ live' = live \cup {p} /\ p \notin live
        /\ commit_ids'[p] = commits
        /\ \A c \in Commits : fetch'[p][c] = IF c \in S THEN "todo" ELSE "no"
        /\ \A c \in Commits : floor'[p][c] = IF c \in Range(commits) THEN Version(c) ELSE 0
        /\ \A q \in Clients : q # p => /\ commit_ids'[q] = commit_ids[q] /\ fetch'[q] = fetch[q]
                                       /\ floor'[q] = floor[q]
    BY DEF TypeInv, TypeOK, Begin
  <1>2. \A c \in Commits : fetch[p][c] = "no" /\ answer[p][c] = None /\ since[p][c] = None
    BY <1>1 DEF TypeInv, TypeOK, FreshInv, IdleInv
  <1>3. \A c \in Commits : floor'[p][c] <= vers[c]
    <2>1. \A c \in Commits : Version(c) <= vers[c] /\ 0 <= vers[c]
      BY Numbers DEF Version
    <2>2. QED
      BY <1>1, <2>1
  <1>4. RaceInv' /\ DateInv' /\ DoneInv'
    BY <1>1 DEF FreshInv, RaceInv, DateInv, DoneInv
  <1>5. FloorInv'
    <2>1. ASSUME NEW q \in Clients, NEW c \in Commits
          PROVE  floor'[q][c] <= vers[c] /\ (answer[q][c] # None => floor'[q][c] <= answer[q][c].ver)
      BY <1>1, <1>2, <1>3 DEF FreshInv, FloorInv
    <2>2. ASSUME NEW q \in live', NEW i \in DOMAIN commit_ids'[q], i <= NFresh
          PROVE  fetch'[q][commit_ids'[q][i]] # "no"
      <3>1. CASE q = p
        <4>1. commits[i] \in Commits /\ commits[i] \in S
          BY <1>1, <2>2, <3>1
        <4>2. QED
          BY <1>1, <3>1, <4>1
      <3>2. CASE q # p
        <4>1. q \in live /\ q \in Clients
          BY <1>1, <2>2, <3>2 DEF TypeInv, TypeOK
        <4>2. QED
          BY <1>1, <2>2, <3>2, <4>1 DEF FreshInv, FloorInv
      <3>3. QED
        BY <3>1, <3>2
    <2>3. QED
      BY <1>1, <2>1, <2>2 DEF FloorInv
  <1>6. IdleInv'
    BY <1>1, <1>2 DEF FreshInv, IdleInv
  <1>7. QED
    BY <1>4, <1>5, <1>6 DEF FreshInv

LEMMA FreshLog ==
  ASSUME TypeInv, FreshInv, NEW p \in Clients, CmdLog(p)
  PROVE  FreshInv'
  <1>1. PICK commits \in Seq(Commits) : Begin(p, commits, prefetch_capnp(commits))
    BY LogBegins
  <1>2. \A i \in DOMAIN commits : i <= NFresh => commits[i] \in prefetch_capnp(commits)
    BY DEF prefetch_capnp
  <1>3. QED
    BY <1>1, <1>2, FreshBegin

LEMMA FreshShow ==
  ASSUME TypeInv, FreshInv, NEW p \in Clients, CmdShow(p)
  PROVE  FreshInv'
  <1>1. PICK c \in Commits : Begin(p, <<c>>, {c})
    BY ShowBegins
  <1>2. <<c>> \in Seq(Commits) /\ \A i \in DOMAIN <<c>> : i <= NFresh => <<c>>[i] \in {c}
    OBVIOUS
  <1>3. QED
    BY <1>1, <1>2, FreshBegin

LEMMA FreshEnds ==
  ASSUME TypeInv, FreshInv, NEW p \in Clients, Ends(p), UNCHANGED <<srv, vers, mirror, raced>>
  PROVE  FreshInv'
  <1>1. /\ live' = live \ {p}
        /\ \A c \in Commits : /\ fetch'[p][c] = "no" /\ since'[p][c] = None
                              /\ answer'[p][c] = None /\ floor'[p][c] = 0
        /\ \A q \in Clients : q # p =>
             /\ commit_ids'[q] = commit_ids[q] /\ fetch'[q] = fetch[q] /\ since'[q] = since[q]
             /\ answer'[q] = answer[q] /\ floor'[q] = floor[q]
    BY DEF TypeInv, TypeOK, Ends, Each
  <1>2. RaceInv' /\ DateInv' /\ DoneInv' /\ IdleInv'
    BY <1>1 DEF FreshInv, RaceInv, DateInv, DoneInv, IdleInv
  <1>3. FloorInv'
    <2>1. \A c \in Commits : 0 <= vers[c]
      BY Numbers
    <2>2. \A q \in Clients, c \in Commits :
            floor'[q][c] <= vers[c] /\ (answer'[q][c] # None => floor'[q][c] <= answer'[q][c].ver)
      BY <1>1, <2>1 DEF FreshInv, FloorInv
    <2>3. \A q \in live' : q \in live /\ q # p /\ q \in Clients
      BY <1>1 DEF TypeInv, TypeOK
    <2>4. QED
      BY <1>1, <2>2, <2>3 DEF FreshInv, FloorInv
  <1>4. QED
    BY <1>2, <1>3 DEF FreshInv

\* A fetch that moves on does not leave the fetches.
LEMMA FloorFetches ==
  ASSUME TypeInv, FreshInv, UNCHANGED <<live, commit_ids>>,
         \A q \in Clients, d \in Commits : fetch[q][d] # "no" => fetch'[q][d] # "no"
  PROVE  \A q \in live' : \A i \in DOMAIN commit_ids'[q] :
           i <= NFresh => fetch'[q][commit_ids'[q][i]] # "no"
  <1> SUFFICES ASSUME NEW q \in live, NEW i \in DOMAIN commit_ids[q], i <= NFresh
               PROVE  fetch'[q][commit_ids[q][i]] # "no"
    OBVIOUS
  <1>1. q \in Clients /\ commit_ids[q][i] \in Commits
    BY DEF TypeInv, TypeOK
  <1>2. QED
    BY <1>1 DEF FreshInv, FloorInv

LEMMA FreshSend ==
  ASSUME TypeInv, FreshInv, NEW p \in Clients, NEW c \in Commits, Send(p, c)
  PROVE  FreshInv'
  <1>1. /\ fetch[p][c] = "todo" /\ fetch'[p][c] = "sent" /\ since'[p][c] = IfModifiedSince(c)
        /\ \A q \in Clients, d \in Commits : q # p \/ d # c =>
             fetch'[q][d] = fetch[q][d] /\ since'[q][d] = since[q][d]
        /\ UNCHANGED <<srv, vers, mirror, live, commit_ids, answer, floor, raced>>
    BY Sent
  <1>2. RaceInv' /\ DoneInv' /\ IdleInv'
    BY <1>1 DEF FreshInv, RaceInv, DoneInv, IdleInv
  <1>3. DateInv'
    <2>1. since'[p][c] # None => mirror[c] # None /\ since'[p][c] <= mirror[c].mtime
      BY <1>1, Numbers DEF IfModifiedSince
    <2>2. QED
      BY <1>1, <2>1 DEF FreshInv, DateInv
  <1>4. FloorInv'
    BY <1>1, FloorFetches DEF FreshInv, FloorInv
  <1>5. QED
    BY <1>2, <1>3, <1>4 DEF FreshInv

LEMMA FreshFetchError ==
  ASSUME TypeInv, FreshInv, NEW p \in Clients, NEW c \in Commits, FetchError(p, c)
  PROVE  FreshInv'
  <1>1. /\ fetch[p][c] = "sent" /\ fetch'[p][c] = "failed" /\ since'[p][c] = None
        /\ \A q \in Clients, d \in Commits : q # p \/ d # c =>
             fetch'[q][d] = fetch[q][d] /\ since'[q][d] = since[q][d]
        /\ UNCHANGED <<srv, vers, mirror, live, commit_ids, answer, floor, raced>>
    BY FailedFetch
  <1>2. RaceInv' /\ DoneInv' /\ DateInv' /\ IdleInv'
    BY <1>1 DEF FreshInv, RaceInv, DoneInv, DateInv, IdleInv
  <1>3. FloorInv'
    BY <1>1, FloorFetches DEF FreshInv, FloorInv
  <1>4. QED
    BY <1>2, <1>3 DEF FreshInv

LEMMA FreshOpenError ==
  ASSUME TypeInv, FreshInv, NEW p \in Clients, NEW c \in Commits, OpenError(p, c)
  PROVE  FreshInv'
  <1>1. /\ fetch[p][c] = "got" /\ fetch'[p][c] = "lost"
        /\ \A q \in Clients, d \in Commits : q # p \/ d # c => fetch'[q][d] = fetch[q][d]
        /\ UNCHANGED <<srv, vers, mirror, live, commit_ids, since, answer, floor, raced>>
    BY FailedOpen
  <1>2. RaceInv' /\ DoneInv' /\ DateInv' /\ IdleInv'
    BY <1>1 DEF FreshInv, RaceInv, DoneInv, DateInv, IdleInv
  <1>3. FloorInv'
    BY <1>1, FloorFetches DEF FreshInv, FloorInv
  <1>4. QED
    BY <1>2, <1>3 DEF FreshInv

\* An answer is the latest version; a 304 finds it in the mirror, or raced.
LEMMA FreshAnswer ==
  ASSUME TypeInv, FreshInv, NEW p \in Clients, NEW c \in Commits, Answer(p, c)
  PROVE  FreshInv'
  <1>1. /\ fetch[p][c] = "sent" /\ fetch'[p][c] \in {"got", "done"}
        /\ fetch'[p][c] = "got" => srv[c] # None
        /\ fetch'[p][c] = "done" => srv[c] = None \/ (since[p][c] # None /\ srv[c].mtime <= since[p][c])
        /\ answer'[p][c] = srv[c] /\ since'[p][c] = None
        /\ \A q \in Clients, d \in Commits : q # p \/ d # c =>
             fetch'[q][d] = fetch[q][d] /\ answer'[q][d] = answer[q][d] /\ since'[q][d] = since[q][d]
        /\ UNCHANGED <<srv, vers, mirror, live, commit_ids, floor, raced>>
    BY Answered
  <1>2. RaceInv'
    <2>1. fetch'[p][c] \in {"got", "cut"} => (answer'[p][c].ver + 1)..vers[c] = {}
      BY <1>1, Numbers
    <2>2. QED
      BY <1>1, <2>1 DEF FreshInv, RaceInv
  <1>3. DateInv'
    BY <1>1 DEF FreshInv, DateInv
  <1>4. DoneInv'
    <2>1. ASSUME fetch'[p][c] = "done", srv[c] # None
          PROVE  /\ mirror[c] # None
                 /\ \/ mirror[c].ver >= srv[c].ver \/ mirror[c].tests = Torn
                    \/ <<c, srv[c].ver>> \in raced
      <3>1. since[p][c] # None /\ srv[c].mtime <= since[p][c]
        BY <1>1, <2>1
      <3>2. mirror[c] # None /\ since[p][c] <= mirror[c].mtime
        BY <3>1 DEF FreshInv, DateInv
      <3>3. /\ srv[c].mtime \in Int /\ since[p][c] \in Int /\ mirror[c].mtime \in Int
            /\ srv[c].ver = vers[c]
        BY <2>1, <3>1, <3>2, Numbers
      <3>4. ~(mirror[c].mtime < srv[c].mtime)
        BY <3>1, <3>2, <3>3
      <3>5. QED
        BY <2>1, <3>2, <3>3, <3>4 DEF FreshInv, DateInv
    <2>2. QED
      BY <1>1, <2>1 DEF FreshInv, DoneInv
  <1>5. FloorInv'
    <2>1. srv[c] # None => floor[p][c] <= srv[c].ver
      BY Numbers DEF FreshInv, FloorInv
    <2>2. \A q \in live' : \A i \in DOMAIN commit_ids'[q] :
            i <= NFresh => fetch'[q][commit_ids'[q][i]] # "no"
      BY <1>1, FloorFetches
    <2>3. QED
      BY <1>1, <2>1, <2>2 DEF FreshInv, FloorInv
  <1>6. IdleInv'
    BY <1>1 DEF FreshInv, IdleInv
  <1>7. QED
    BY <1>2, <1>3, <1>4, <1>5, <1>6 DEF FreshInv

\* A write leaves the answer, or a torn copy; what the answer is behind is known to race.
LEMMA FreshWrites ==
  ASSUME TypeInv, FreshInv, NEW p \in Clients, NEW c \in Commits, NEW new,
         NEW stage \in {"cut", "done"}, Writes(p, c, new, stage), faults' \in 0..MaxFaults,
         spoilt' \subseteq Commits
  PROVE  FreshInv'
  <1>1. /\ fetch'[p][c] = stage /\ mirror'[c] = new
        /\ \A q \in Clients, d \in Commits : q # p \/ d # c => fetch'[q][d] = fetch[q][d]
        /\ \A d \in Commits : d # c => mirror'[d] = mirror[d]
    BY TypeWrites
  <1>2. /\ fetch[p][c] \in {"got", "cut"} /\ new \in Files /\ new.mtime = Now
        /\ \/ new.tests = Torn
           \/ new.ver = answer[p][c].ver
        /\ UNCHANGED <<srv, vers, live, commit_ids, since, answer, floor, raced>>
    BY DEF Writes
  <1>3. new # None
    BY <1>2, FileFields
  <1>4. ASSUME NEW v \in Nat, v <= vers[c], new.tests # Torn
        PROVE  new.ver >= v \/ <<c, v>> \in raced
    <2>1. new.ver = answer[p][c].ver /\ new.ver \in Nat /\ vers[c] \in Nat
      BY <1>2, <1>4, Numbers
    <2>2. new.ver >= v \/ v \in (new.ver + 1)..vers[c]
      BY <1>4, <2>1
    <2>3. QED
      BY <1>2, <2>1, <2>2 DEF FreshInv, RaceInv
  <1>5. RaceInv'
    BY <1>1, <1>2 DEF FreshInv, RaceInv
  <1>6. DateInv'
    <2>1. new.tests # Torn => new.ver >= vers[c] \/ <<c, vers[c]>> \in raced
      BY <1>4, Numbers
    <2>2. ASSUME NEW q \in Clients, since[q][c] # None PROVE since[q][c] <= new.mtime
      <3>1. mirror[c] # None /\ since[q][c] <= mirror[c].mtime
        BY <2>2 DEF FreshInv, DateInv
      <3>2. /\ mirror[c].mtime \in Int /\ mirror[c].mtime <= Now /\ since[q][c] \in Int
            /\ Now \in Int
        BY <2>2, <3>1, Numbers
      <3>3. QED
        BY <1>2, <3>1, <3>2
    <2>3. QED
      BY <1>1, <1>2, <1>3, <2>1, <2>2 DEF FreshInv, DateInv
  <1>7. DoneInv'
    <2>1. ASSUME NEW q \in Clients, answer[q][c] # None
          PROVE  new.ver >= answer[q][c].ver \/ new.tests = Torn \/ <<c, answer[q][c].ver>> \in raced
      BY <1>4, <2>1, Numbers
    <2>2. QED
      BY <1>1, <1>2, <1>3, <2>1 DEF FreshInv, DoneInv
  <1>8. FloorInv'
    <2>1. \A q \in live' : \A i \in DOMAIN commit_ids'[q] :
            i <= NFresh => fetch'[q][commit_ids'[q][i]] # "no"
      BY <1>1, <1>2, FloorFetches
    <2>2. QED
      BY <1>2, <2>1 DEF FreshInv, FloorInv
  <1>9. IdleInv'
    BY <1>1, <1>2 DEF FreshInv, IdleInv
  <1>10. QED
    BY <1>5, <1>6, <1>7, <1>8, <1>9 DEF FreshInv

LEMMA FreshSave ==
  ASSUME TypeInv, FreshInv, NEW p \in Clients, NEW c \in Commits,
         Truncate(p, c) \/ Save(p, c) \/ SaveError(p, c)
  PROVE  FreshInv'
  <1>1. faults \in 0..MaxFaults /\ spoilt \subseteq Commits
    BY DEF TypeInv, TypeOK
  <1>2. CASE Truncate(p, c)
    BY <1>1, <1>2, TruncateWrites, FreshWrites
  <1>3. CASE Save(p, c)
    <2>1. PICK new : /\ Writes(p, c, new, "done") /\ UNCHANGED faults
                     /\ spoilt' = spoilt \cup {c} \/ spoilt' = spoilt \ {c}
      BY <1>3, SaveWrites, Zenon
    <2>2. QED
      BY <1>1, <2>1, FreshWrites
  <1>4. CASE SaveError(p, c)
    BY <1>1, <1>4, SaveErrorWrites, FreshWrites
  <1>5. QED
    BY <1>2, <1>3, <1>4

LEMMA FreshNext == TypeInv /\ FreshInv /\ [Next]_vars => FreshInv'
  <1> SUFFICES ASSUME TypeInv, FreshInv, [Next]_vars PROVE FreshInv'
    OBVIOUS
  <1>1. ASSUME NEW c \in Commits, Publish(c) \/ Unpublish(c) PROVE FreshInv'
    BY <1>1, FreshPublish, FreshUnpublish
  <1>2. ASSUME NEW r \in DOMAIN repos, NEW b \in DOMAIN repos[r].tip, Push(r, b) PROVE FreshInv'
    BY <1>2, FreshKeeps DEF Push
  <1>3. CASE Tick
    BY <1>3, FreshKeeps DEF Tick
  <1>4. ASSUME NEW p \in Clients, CmdLog(p) \/ CmdShow(p) PROVE FreshInv'
    BY <1>4, FreshLog, FreshShow
  <1>5. ASSUME NEW p \in Clients, Exit(p) \/ Kill(p) PROVE FreshInv'
    BY <1>5, FreshEnds DEF Exit, Kill
  <1>6. ASSUME NEW p \in Clients, NEW c \in Commits, Fetch(p, c) PROVE FreshInv'
    BY <1>6, FreshSend, FreshAnswer, FreshFetchError, FreshOpenError, FreshSave, Zenon DEF Fetch
  <1>7. CASE UNCHANGED vars
    BY <1>7, FreshKeeps
  <1>8. QED
    BY <1>1, <1>2, <1>3, <1>4, <1>5, <1>6, <1>7, Zenon DEF Next

LEMMA FreshInvariant == Spec => []FreshInv
  BY FreshInit, FreshNext, TypeInvariant, PTL DEF Spec

\* What the server had when it answered a command is what the command then reads, or
\* something newer, or torn, unless the copy could not be opened: for any number of
\* commands on one mirror and any skew of the two clocks a copy is behind only when a
\* publication came while an older answer was on its way, or is dated no later than the
\* copy (fetch_capnp_cached).
THEOREM FetchesAreFresh == Spec => []FetchedIsFresh
  <1>1. FreshInv => FetchedIsFresh
    BY DEF FreshInv, DoneInv, FetchedIsFresh
  <1>2. QED
    BY <1>1, FreshInvariant, PTL

\* The newest NFresh commits of a log, and the commit of a show, are at least as new as on
\* the server when the command was started, up to failed requests, to copies that could not
\* be opened and to publications that raced, for any number of commands, commits and
\* branches and any skew of the clocks (prefetch_capnp, commitdir_get_results_full).
THEOREM TipsAreFresh == Spec => []TipIsFresh
  <1>1. TypeInv /\ FreshInv => TipIsFresh
    <2> SUFFICES ASSUME TypeInv, FreshInv, NEW p \in Clients, Finished(p),
                        NEW i \in DOMAIN commit_ids[p], i <= NFresh,
                        NEW c, c = commit_ids[p][i], floor[p][c] > 0,
                        fetch[p][c] # "no" => fetch[p][c] = "done" /\ answer[p][c] # None
                 PROVE  /\ mirror[c] # None
                        /\ \/ mirror[c].ver >= floor[p][c] \/ mirror[c].tests = Torn
                           \/ \E v \in floor[p][c]..vers[c] : <<c, v>> \in raced
      BY DEF TipIsFresh
    <2>1. c \in Commits /\ p \in live
      BY DEF TypeInv, TypeOK, Finished
    <2>2. fetch[p][c] = "done" /\ answer[p][c] # None
      BY <2>1 DEF FreshInv, FloorInv
    <2>3. /\ mirror[c] # None
          /\ \/ mirror[c].ver >= answer[p][c].ver \/ mirror[c].tests = Torn
             \/ <<c, answer[p][c].ver>> \in raced
      BY <2>1, <2>2 DEF FreshInv, DoneInv
    <2>4. /\ floor[p][c] \in Nat /\ answer[p][c].ver \in Nat /\ vers[c] \in Nat
          /\ answer[p][c].ver <= vers[c] /\ mirror[c].ver \in Nat
      BY <2>1, <2>2, <2>3, Numbers
    <2>5. floor[p][c] <= answer[p][c].ver
      BY <2>1, <2>2 DEF FreshInv, FloorInv
    <2>6. answer[p][c].ver \in floor[p][c]..vers[c]
      BY <2>4, <2>5
    <2>7. mirror[c].ver >= answer[p][c].ver => mirror[c].ver >= floor[p][c]
      BY <2>4, <2>5
    <2>8. QED
      BY <2>3, <2>6, <2>7, Zenon
  <1>2. QED
    BY <1>1, TypeInvariant, FreshInvariant, PTL

-----------------------------------------------------------------------------
(* The walk of a request.                                                  *)

\* The recursion that counts untested commits has a solution: the distance to the last
\* tested one.
LEMMA EmptiesExist ==
  ASSUME NEW n \in Nat, NEW K \in SUBSET (1..n)
  PROVE  \E nr : nr = [i \in 0..n |-> IF i = 0 \/ i \in K THEN 0 ELSE nr[i - 1] + 1]
  <1> DEFINE upto(i) == {0} \cup {j \in K : j <= i}
             last(i) == CHOOSE x \in upto(i) : \A y \in upto(i) : y <= x
             nr == [i \in 0..n |-> i - last(i)]
  <1>1. \A i \in 0..n : last(i) \in upto(i) /\ \A y \in upto(i) : y <= last(i)
    <2> SUFFICES ASSUME NEW i \in 0..n PROVE last(i) \in upto(i) /\ \A y \in upto(i) : y <= last(i)
      OBVIOUS
    <2>1. upto(i) \in SUBSET Nat /\ upto(i) # {} /\ i \in Nat /\ \A y \in upto(i) : y <= i
      <3>1. \A y \in upto(i) : y \in Nat /\ y <= i
        OBVIOUS
      <3>2. 0 \in upto(i) /\ i \in Nat
        OBVIOUS
      <3> HIDE DEF upto
      <3>3. QED
        BY <3>1, <3>2
    <2> HIDE DEF upto
    <2>2. \E x \in upto(i) : \A y \in upto(i) : y <= x
      BY <2>1, GreatestNumber
    <2>3. QED
      BY <2>2, Zenon
  <1>2. \A i \in 0..n : /\ last(i) \in Nat /\ last(i) <= i /\ (last(i) = 0 \/ last(i) \in K)
                        /\ \A y \in K : y <= i => y <= last(i)
    <2> SUFFICES ASSUME NEW i \in 0..n
                 PROVE  /\ last(i) \in Nat /\ last(i) <= i /\ (last(i) = 0 \/ last(i) \in K)
                        /\ \A y \in K : y <= i => y <= last(i)
      BY Zenon
    <2> DEFINE l == last(i)
    <2>1. l \in upto(i) /\ \A y \in upto(i) : y <= l
      BY <1>1, Zenon
    <2> HIDE DEF l
    <2>2. l \in Nat /\ l <= i /\ (l = 0 \/ l \in K) /\ \A y \in K : y <= i => y <= l
      BY <2>1
    <2>3. QED
      BY <2>2 DEF l
  <1> HIDE DEF last
  <1>3. \A i \in 0..n : nr[i] = IF i = 0 \/ i \in K THEN 0 ELSE nr[i - 1] + 1
    <2> SUFFICES ASSUME NEW i \in 0..n
                 PROVE  nr[i] = IF i = 0 \/ i \in K THEN 0 ELSE nr[i - 1] + 1
      OBVIOUS
    <2>1. CASE i = 0 \/ i \in K
      <3>1. last(i) = i
        BY <1>2, <2>1
      <3>2. QED
        BY <2>1, <3>1
    <2>2. CASE i # 0 /\ i \notin K
      <3>1. i - 1 \in 0..n
        BY <2>2
      <3>2. last(i) \in 0..i /\ (last(i) = 0 \/ last(i) \in K) /\ last(i - 1) \in 0..(i - 1)
            /\ (last(i - 1) = 0 \/ last(i - 1) \in K)
        BY <1>2, <3>1
      <3>3. last(i) <= last(i - 1)
        BY <1>2, <2>2, <3>1, <3>2
      <3>4. last(i - 1) <= last(i)
        BY <1>2, <2>2, <3>1, <3>2
      <3>5. last(i) = last(i - 1)
        BY <3>2, <3>3, <3>4
      <3>6. QED
        BY <2>2, <3>1, <3>2, <3>5
    <2>3. QED
      BY <2>1, <2>2
  <1>4. nr = [i \in 0..n |-> nr[i]]
    OBVIOUS
  <1> HIDE DEF nr
  <1>5. nr = [i \in 0..n |-> IF i = 0 \/ i \in K THEN 0 ELSE nr[i - 1] + 1]
    BY <1>3, <1>4
  <1>6. QED
    BY <1>5

\* nr_empty counts the untested commits since the last tested one, or since the beginning.
LEMMA EmptiesCount ==
  ASSUME NEW n \in Nat, NEW K \in SUBSET (1..n), NEW nr, nr = Empties(K, n)
  PROVE  \A i \in 0..n : /\ nr[i] \in 0..i
                         /\ \A k \in (i - nr[i] + 1)..i : k \notin K
                         /\ nr[i] < i => i - nr[i] \in K
  <1>1. nr = [i \in 0..n |-> IF i = 0 \/ i \in K THEN 0 ELSE nr[i - 1] + 1]
    <2>1. nr = CHOOSE f : f = [i \in 0..n |-> IF i = 0 \/ i \in K THEN 0 ELSE f[i - 1] + 1]
      BY Zenon DEF Empties
    <2>2. QED
      BY <2>1, EmptiesExist, Zenon
  <1>2. \A i \in 0..n : nr[i] = IF i = 0 \/ i \in K THEN 0 ELSE nr[i - 1] + 1
    BY <1>1, Zenon
  <1> DEFINE Holds(i) == /\ nr[i] \in 0..i
                         /\ \A k \in (i - nr[i] + 1)..i : k \notin K
                         /\ nr[i] < i => i - nr[i] \in K
             T == {i \in Nat : i <= n => Holds(i)}
  <1>3. 0 \in T
    <2>1. nr[0] = 0
      BY <1>2
    <2>2. QED
      BY <2>1
  <1>4. ASSUME NEW i \in Nat, i \in T PROVE i + 1 \in T
    <2> SUFFICES ASSUME i + 1 <= n PROVE Holds(i + 1)
      OBVIOUS
    <2>1. Holds(i) /\ i + 1 \in 0..n
      BY <1>4
    <2>2. CASE i + 1 \in K
      <3>1. nr[i + 1] = 0
        BY <1>2, <2>1, <2>2
      <3>2. QED
        BY <2>2, <3>1
    <2>3. CASE i + 1 \notin K
      <3>1. nr[i + 1] = nr[i] + 1
        <4>1. i + 1 # 0 /\ (i + 1) - 1 = i
          OBVIOUS
        <4>2. QED
          BY <1>2, <2>1, <2>3, <4>1, Zenon
      <3>2. QED
        BY <2>1, <2>3, <3>1
    <2>4. QED
      BY <2>2, <2>3
  <1>5. Nat \subseteq T
    <2> HIDE DEF T
    <2> QED BY <1>3, <1>4, SetInduction
  <1>6. \A i \in 0..n : i \in Nat /\ i <= n
    OBVIOUS
  <1> HIDE DEF Holds
  <1>7. \A i \in 0..n : Holds(i)
    BY <1>5, <1>6
  <1>8. QED
    BY <1>7, Zenon DEF Holds

\* The greatest of some numbers.
LEMMA GreatestOf ==
  ASSUME NEW S \in SUBSET Nat, S # {}, NEW n \in Nat, \A x \in S : x <= n
  PROVE  Max(S) \in S /\ \A y \in S : y <= Max(S)
  <1>1. \E x \in S : \A y \in S : x >= y
    <2>1. PICK x \in S : \A y \in S : y <= x
      BY GreatestNumber
    <2>2. QED
      BY <2>1
  <1>2. Max(S) \in S /\ \A y \in S : Max(S) >= y
    BY <1>1, Zenon DEF Max
  <1>3. QED
    BY <1>2

\* A walk ends with a tested commit, before an untested one, and takes a tested commit if
\* and only if no more than MaxEmpty untested ones in a row come before it.
Reaches(K, last, n) ==
  /\ last \in 0..n /\ (last > 0 => last \in K) /\ (last < n => last + 1 \notin K)
  /\ \A i \in K : i <= last <=>
       \A j \in 1..i : j + MaxEmpty < i => \E k \in j..(j + MaxEmpty) : k \in K

LEMMA WalkStops ==
  ASSUME NEW n \in Nat, NEW K \in SUBSET (1..n), NEW taken, NEW last,
         taken = {i \in 1..n : \A j \in 1..i : Puts(Empties(K, n)[j])},
         last = Max({0} \cup (taken \cap K))
  PROVE  Reaches(K, last, n)
  <1> DEFINE nr == Empties(K, n)
  <1>1. \A i \in 0..n : /\ nr[i] \in 0..i
                        /\ \A k \in (i - nr[i] + 1)..i : k \notin K
                        /\ nr[i] < i => i - nr[i] \in K
    BY EmptiesCount
  <1>2. \A i \in 1..n : i \in taken <=> \A j \in 1..i : nr[j] <= MaxEmpty
    BY DEF Puts
  <1>3. MaxEmpty \in Nat
    BY MirrorConstantsOK
  <1>4. /\ last \in {0} \cup (taken \cap K) /\ \A y \in taken \cap K : y <= last
    <2> DEFINE S == {0} \cup (taken \cap K)
    <2>1. S \in SUBSET Nat /\ S # {} /\ \A x \in S : x <= n
      OBVIOUS
    <2> HIDE DEF S
    <2>2. Max(S) \in S /\ \A y \in S : y <= Max(S)
      BY <2>1, GreatestOf
    <2>3. QED
      BY <2>2 DEF S
  <1> HIDE DEF nr
  <1>5. last \in 0..n /\ (last > 0 => last \in K /\ last \in taken)
    BY <1>4
  <1>6. \A i \in taken : i \in 1..n /\ \A j \in 1..i : j \in taken
    BY <1>2
  <1>7. \A j \in K : nr[j] = 0
    <2> SUFFICES ASSUME NEW j \in K, nr[j] # 0 PROVE FALSE
      OBVIOUS
    <2>1. j \in 0..n /\ nr[j] \in 0..j
      BY <1>1
    <2>2. j \in (j - nr[j] + 1)..j
      BY <2>1
    <2>3. QED
      BY <1>1, <2>1, <2>2
  <1>8. last < n => last + 1 \notin K
    <2> SUFFICES ASSUME last < n, last + 1 \in K PROVE FALSE
      OBVIOUS
    <2>1. last + 1 \in 1..n /\ last + 1 \notin taken
      BY <1>4, <1>5
    <2>2. PICK j \in 1..(last + 1) : ~(nr[j] <= MaxEmpty)
      BY <1>2, <2>1
    <2>3. nr[last + 1] = 0
      BY <1>7
    <2>4. j \in 1..last /\ last > 0
      BY <1>3, <1>5, <2>2, <2>3
    <2>5. QED
      BY <1>2, <1>5, <2>2, <2>4, <2>1
  <1>9. ASSUME NEW i \in K
        PROVE  i <= last <=> i \in taken
    <2>1. i \in 1..n /\ i \in Nat
      OBVIOUS
    <2>2. i \in taken => i <= last
      BY <1>4
    <2>3. i <= last => i \in taken
      BY <1>5, <1>6, <2>1
    <2>4. QED
      BY <2>2, <2>3
  <1>10. ASSUME NEW i \in K, i \in taken, NEW j \in 1..i, j + MaxEmpty < i
         PROVE  \E k \in j..(j + MaxEmpty) : k \in K
    <2> DEFINE m == j + MaxEmpty
    <2>1. m \in 1..i /\ m \in 0..n /\ m > MaxEmpty
      BY <1>3, <1>10
    <2>2. nr[m] <= MaxEmpty
      BY <1>2, <1>10, <2>1
    <2>3. nr[m] \in 0..m /\ (nr[m] < m => m - nr[m] \in K)
      BY <1>1, <2>1
    <2> HIDE DEF m
    <2>4. m - nr[m] \in K
      BY <1>3, <2>1, <2>2, <2>3
    <2>5. m - nr[m] \in j..m
      BY <1>3, <2>1, <2>2, <2>3 DEF m
    <2>6. QED
      BY <2>4, <2>5 DEF m
  <1>11. ASSUME NEW i \in K, i \notin taken
         PROVE  \E j \in 1..i : j + MaxEmpty < i /\ \A k \in j..(j + MaxEmpty) : k \notin K
    <2>1. i \in 1..n
      OBVIOUS
    <2>2. PICK j \in 1..i : ~(nr[j] <= MaxEmpty)
      BY <1>2, <1>11, <2>1
    <2>3. j # i
      BY <1>3, <1>7, <2>2
    <2>4. nr[j] \in 0..j /\ \A k \in (j - nr[j] + 1)..j : k \notin K
      BY <1>1, <2>1
    <2> DEFINE m == j - MaxEmpty
    <2>5. m \in 1..i /\ m + MaxEmpty = j /\ j < i
      BY <1>3, <2>1, <2>2, <2>3, <2>4
    <2>6. \A k \in m..j : k \in (j - nr[j] + 1)..j
      BY <1>3, <2>1, <2>2, <2>4
    <2> HIDE DEF m
    <2>7. QED
      BY <2>4, <2>5, <2>6, Zenon
  <1>12. QED
    BY <1>5, <1>8, <1>9, <1>10, <1>11 DEF Reaches

\* What branch_get_results() returns.
WalkLen(walk) == Min({Len(walk), Depth})
TestedAt(walk, results, matching) ==
  {i \in 1..WalkLen(walk) : DOMAIN filter_results(results[walk[i]], matching) # {}}
Taken(walk, results, matching, last) ==
  [i \in 1..last |-> [id |-> walk[i], tests |-> filter_results(results[walk[i]], matching)]]

LEMMA ResultsWalked ==
  ASSUME NEW walk \in Seq(Commits), NEW results, NEW matching
  PROVE  /\ WalkLen(walk) \in Nat /\ WalkLen(walk) <= Len(walk) /\ WalkLen(walk) <= Depth
         /\ WalkLen(walk) = Len(walk) \/ WalkLen(walk) = Depth
         /\ \E last \in 0..WalkLen(walk) :
              /\ Reaches(TestedAt(walk, results, matching), last, WalkLen(walk))
              /\ branch_get_results(walk, results, matching) = Taken(walk, results, matching, last)
  <1> DEFINE n == WalkLen(walk)
             K == TestedAt(walk, results, matching)
  <1>1. n \in Nat /\ n <= Len(walk) /\ n <= Depth /\ (n = Len(walk) \/ n = Depth)
    <2>1. Len(walk) \in Nat /\ Depth \in Nat
      BY MirrorConstantsOK
    <2>2. n \in {Len(walk), Depth} /\ n <= Len(walk) /\ n <= Depth
      <3>1. Len(walk) \in Int /\ Depth \in Int
        BY <2>1
      <3>2. QED
        BY <3>1, LesserOf, Zenon DEF WalkLen
    <2>3. QED
      BY <2>1, <2>2
  <1>2. K \in SUBSET (1..n)
    BY DEF TestedAt
  <1> DEFINE taken == {i \in 1..n : \A j \in 1..i : Puts(Empties(K, n)[j])}
             last == Max({0} \cup (taken \cap K))
  <1>3. branch_get_results(walk, results, matching) = Taken(walk, results, matching, last)
    BY Zenon DEF branch_get_results, WalkLen, TestedAt, Taken
  <1>4. Reaches(K, last, n)
    <2> HIDE DEF n, K
    <2> QED BY <1>1, <1>2, WalkStops
  <1> HIDE DEF last
  <1>5. last \in 0..n
    BY <1>4, Zenon DEF Reaches
  <1>6. QED
    BY <1>1, <1>3, <1>4, <1>5

-----------------------------------------------------------------------------
(* The branches and the requests for them.                                 *)

\* The results that the pages are made of.
Published == [c \in Commits |-> ReadSrv(c)]

LEMMA PublishedType ==
  ASSUME TypeInv
  PROVE  Published \in [Commits -> Results]
  <1> SUFFICES ASSUME NEW c \in Commits PROVE ReadSrv(c) \in Results
    BY DEF Published
  <1>1. CASE srv[c] = None
    <2>1. NoTests \in [{} -> Status]
      BY DEF NoTests
    <2>2. QED
      BY <1>1, <2>1 DEF ReadSrv, Results
  <1>2. CASE srv[c] # None
    <2>1. srv[c] \in Files
      BY <1>2 DEF TypeInv, TypeOK
    <2>2. QED
      BY <1>2, <2>1, FileFields DEF ReadSrv, TypeInv, SrvInv
  <1>3. QED
    BY <1>1, <1>2

\* Every branch is where its config says.
FetchedInv == \A r \in DOMAIN repos : IsRepo(repos[r]) /\ IsFetched(r, repos[r])

LEMMA FetchedInit == Init => FetchedInv
  BY MirrorConstantsOK DEF Init, FetchedInv

LEMMA FetchedPush ==
  ASSUME TypeInv, TypeInv', FetchedInv, NEW r \in DOMAIN repos, NEW b \in DOMAIN repos[r].tip, Push(r, b)
  PROVE  FetchedInv'
  <1>1. repos' = [repos EXCEPT ![r] = [repos[r] EXCEPT !.tip = [repos[r].tip EXCEPT ![b] = repos[r].tip[b] - 1]]]
    BY DEF Push
  <1>2. DOMAIN repos' = DOMAIN repos
    BY <1>1
  <1>3. \A o \in DOMAIN repos : IsRepo(repos[o]) /\ IsFetched(o, repos[o])
    BY DEF FetchedInv
  <1>4. \A o \in DOMAIN repos : o # r => repos'[o] = repos[o]
    BY <1>1
  <1>5. repos'[r] = [repos[r] EXCEPT !.tip = [repos[r].tip EXCEPT ![b] = repos[r].tip[b] - 1]]
    BY <1>1
  <1>6. repos'[r].history = repos[r].history /\ DOMAIN repos'[r].tip = DOMAIN repos[r].tip
    <2>1. repos[r] \in [history : Seq(Commits), tip : [DOMAIN repos[r].tip -> Nat]]
      BY <1>3 DEF IsRepo
    <2>2. QED
      BY <1>5, <2>1
  <1>7. IsFetched(r, repos'[r])
    BY <1>3, <1>6 DEF IsFetched
  <1>8. \A o \in DOMAIN repos : IsFetched(o, repos'[o])
    BY <1>3, <1>4, <1>7
  <1>9. \A o \in DOMAIN repos' : IsRepo(repos'[o])
    BY DEF TypeInv, TypeOK, IsRepo
  <1>10. QED
    BY <1>2, <1>8, <1>9 DEF FetchedInv, IsFetched, IsRepo

LEMMA FetchedNext == TypeInv /\ TypeInv' /\ FetchedInv /\ [Next]_vars => FetchedInv'
  <1> SUFFICES ASSUME TypeInv, TypeInv', FetchedInv, [Next]_vars PROVE FetchedInv'
    OBVIOUS
  <1>1. ASSUME NEW r \in DOMAIN repos, NEW b \in DOMAIN repos[r].tip, Push(r, b) PROVE FetchedInv'
    BY <1>1, FetchedPush
  <1>2. CASE UNCHANGED repos
    BY <1>2 DEF FetchedInv, IsRepo, IsFetched
  <1>3. (\E r \in DOMAIN repos : \E b \in DOMAIN repos[r].tip : Push(r, b)) \/ UNCHANGED repos
    <2>1. \A c \in Commits : Publish(c) \/ Unpublish(c) => UNCHANGED repos
      BY DEF Publish, Unpublish
    <2>2. Tick \/ UNCHANGED vars => UNCHANGED repos
      BY DEF Tick
    <2>3. \A p \in Clients : CmdLog(p) \/ CmdShow(p) \/ Exit(p) \/ Kill(p) => UNCHANGED repos
      BY DEF CmdLog, CmdShow, Begin, Exit, Kill
    <2>4. \A p \in Clients, c \in Commits : Fetch(p, c) => UNCHANGED repos
      BY DEF Fetch, Send, Answer, FetchError, OpenError, Truncate, Save, SaveError
    <2>5. QED
      BY <2>1, <2>2, <2>3, <2>4, Zenon DEF Next
  <1>4. QED
    BY <1>1, <1>2, <1>3, Zenon

LEMMA FetchedInvariant == Spec => []FetchedInv
  BY FetchedInit, FetchedNext, TypeInvariant, PTL DEF Spec

\* The repo of a branch that was fetched.
HasBranch(r, b) ==
  /\ r \in DOMAIN repos /\ b \in DOMAIN repos[r].tip
  /\ b = <<b[1], b[2]>> /\ b[1] # None /\ b[2] # None
  /\ repos[r].history \in Seq(Commits) /\ repos[r].tip[b] \in 1..Len(repos[r].history)
  /\ \A i, j \in 1..Len(repos[r].history) : repos[r].history[i] = repos[r].history[j] => i = j
  /\ Branch(b) = SubSeq(repos[r].history, repos[r].tip[b], Len(repos[r].history))
  /\ \A q : q.user = b[1] /\ q.branch = b[2] => RepoPath(q) = r

LEMMA FetchedBranch ==
  ASSUME FetchedInv, NEW b \in Fetchable
  PROVE  \E r : HasBranch(r, b)
  <1>1. PICK r \in DOMAIN repos : b \in DOMAIN repos[r].tip
    BY DEF Fetchable
  <1>2. \A o \in DOMAIN repos : b \in DOMAIN repos[o].tip =>
          b = <<b[1], b[2]>> /\ Configured(b[1], b[2]) /\ Users[b[1]][b[2]] = o /\ o \in Repos
    BY DEF FetchedInv, IsFetched
  <1>3. \A o \in DOMAIN repos : b \in DOMAIN repos[o].tip => o = r
    BY <1>1, <1>2
  <1>4. (CHOOSE o \in DOMAIN repos : b \in DOMAIN repos[o].tip) = r
    BY <1>1, <1>3, Zenon
  <1>5. Branch(b) = SubSeq(repos[r].history, repos[r].tip[b], Len(repos[r].history))
    BY <1>4, Zenon DEF Branch
  <1>6. b[1] # None /\ b[2] # None
    BY <1>1, <1>2, MirrorConstantsOK DEF Configured
  <1>7. \A q : q.user = b[1] /\ q.branch = b[2] => RepoPath(q) = r
    BY <1>1, <1>2, Zenon DEF RepoPath
  <1>8. /\ repos[r].history \in Seq(Commits) /\ repos[r].tip[b] \in 1..Len(repos[r].history)
        /\ \A i, j \in DOMAIN repos[r].history : repos[r].history[i] = repos[r].history[j] => i = j
    BY <1>1 DEF FetchedInv, IsRepo, IsFetched
  <1>9. DOMAIN repos[r].history = 1..Len(repos[r].history)
    BY <1>8
  <1>10. QED
    BY <1>1, <1>2, <1>5, <1>6, <1>7, <1>8, <1>9, Zenon DEF HasBranch

\* The commits of a sequence from one on.
LEMMA FromOn ==
  ASSUME NEW h \in Seq(Commits), NEW f \in 1..Len(h), NEW w, w = SubSeq(h, f, Len(h))
  PROVE  /\ w \in Seq(Commits) /\ Len(w) = Len(h) - f + 1
         /\ \A k \in 1..Len(w) : w[k] = h[f + k - 1] /\ f + k - 1 \in 1..Len(h)
  <1>1. Len(h) \in Nat /\ Len(h) \in Int /\ f \in Int /\ \A i \in f..Len(h) : h[i] \in Commits
    OBVIOUS
  <1>2. w \in Seq(Commits)
    BY <1>1, SubSeqProperties, Zenon
  <1>3. Len(w) = Len(h) - f + 1 /\ \A k \in 1..Len(w) : w[k] = h[f + k - 1]
    BY <1>1
  <1>4. QED
    BY <1>1, <1>2, <1>3

\* A log request walks the branch from its tip on, ...
LEMMA LogRequest ==
  ASSUME NEW r, NEW b, HasBranch(r, b), NEW q, q.user = b[1], q.branch = b[2], q.commit = None
  PROVE  /\ Branch(b) \in Seq(Commits)
         /\ ResultsOf(repos, Published, q) = branch_get_results(Branch(b), Published, q.test)
  <1> DEFINE h == repos[r].history
             tip == repos[r].tip[b]
  <1>1. h \in Seq(Commits) /\ tip \in 1..Len(h) /\ Branch(b) = SubSeq(h, tip, Len(h))
    BY DEF HasBranch
  <1>2. Branch(b) \in Seq(Commits)
    <2> HIDE DEF h, tip
    <2> QED BY <1>1, FromOn
  <1>3. RepoPath(q) = r /\ <<q.user, q.branch>> = b /\ b \in DOMAIN repos[r].tip
    BY DEF HasBranch
  <1>4. From(repos[r], q) = tip
    BY <1>3 DEF From
  <1>5. tip # 0
    BY <1>1
  <1>6. QED
    BY <1>1, <1>2, <1>3, <1>4, <1>5, Zenon DEF ResultsOf

\* ... and the request for one of its commits from that commit on.
Asked(q, b, c) == q.user = b[1] /\ q.branch = b[2] /\ q.commit = c

WalkedFrom(q, b, i) ==
  \E w \in Seq(Commits) :
    /\ Len(w) = Len(Branch(b)) - i + 1 /\ \A k \in 1..Len(w) : w[k] = Branch(b)[i + k - 1]
    /\ ResultsOf(repos, Published, q) = branch_get_results(w, Published, q.test)
    /\ Found(q) = ShownOf(w, q.test)

LEMMA CommitRequest ==
  ASSUME NEW r, NEW b, HasBranch(r, b), NEW i \in 1..Len(Branch(b)),
         NEW q, Asked(q, b, Branch(b)[i])
  PROVE  WalkedFrom(q, b, i)
  <1> DEFINE h == repos[r].history
             tip == repos[r].tip[b]
             from == tip + i - 1
             w == SubSeq(h, from, Len(h))
  <1>1. /\ h \in Seq(Commits) /\ tip \in 1..Len(h) /\ Branch(b) = SubSeq(h, tip, Len(h))
        /\ \A j, k \in 1..Len(h) : h[j] = h[k] => j = k
    BY DEF HasBranch
  <1>2. RepoPath(q) = r /\ q.commit = Branch(b)[i]
    BY Zenon DEF HasBranch, Asked
  <1> HIDE DEF h, tip
  <1>3. /\ Branch(b) \in Seq(Commits) /\ Len(Branch(b)) = Len(h) - tip + 1
        /\ \A k \in 1..Len(Branch(b)) : Branch(b)[k] = h[tip + k - 1] /\ tip + k - 1 \in 1..Len(h)
    BY <1>1, FromOn
  <1>4. from \in 1..Len(h) /\ h[from] = q.commit
    BY <1>2, <1>3
  <1>5. q.commit \in Commits /\ q.commit # None
    BY <1>1, <1>4, MirrorConstantsOK
  <1>6. DOMAIN h = 1..Len(h)
    BY <1>1
  <1> HIDE DEF from
  <1>7. (CHOOSE j \in DOMAIN h : h[j] = q.commit) = from
    BY <1>1, <1>4, <1>6, Zenon
  <1>8. From(repos[r], q) = from
    BY <1>4, <1>5, <1>6, <1>7, Zenon DEF From, h
  <1>9. from # 0
    BY <1>4
  <1>10. ResultsOf(repos, Published, q) = branch_get_results(w, Published, q.test)
    BY <1>2, <1>8, <1>9, Zenon DEF ResultsOf, h
  <1>11. /\ w \in Seq(Commits) /\ Len(w) = Len(h) - from + 1
         /\ \A k \in 1..Len(w) : w[k] = h[from + k - 1]
    BY <1>1, <1>4, FromOn
  <1> HIDE DEF w
  <1>12. Len(w) = Len(Branch(b)) - i + 1
    BY <1>1, <1>3, <1>11 DEF from
  <1>13. ASSUME NEW k \in 1..Len(w) PROVE w[k] = Branch(b)[i + k - 1]
    <2>1. i + k - 1 \in 1..Len(Branch(b)) /\ tip + (i + k - 1) - 1 = from + k - 1
      <3>1. Len(h) \in Nat /\ tip \in Nat /\ Len(Branch(b)) \in Nat /\ Len(w) \in Nat
        BY <1>1, <1>3, <1>11
      <3>2. i \in Nat /\ 1 <= i /\ k \in Nat /\ 1 <= k /\ k <= Len(w)
        BY <3>1
      <3>3. QED
        BY <1>12, <3>1, <3>2 DEF from
    <2>2. QED
      BY <1>3, <1>11, <2>1
  <1>14. Found(q) = ShownOf(w, q.test)
    BY <1>2, <1>7, Zenon DEF Found, h, w
  <1>15. QED
    BY <1>10, <1>11, <1>12, <1>13, <1>14, Zenon DEF WalkedFrom

\* A request that the cgi cannot serve, and one that it dispatches.
Served(q) == up /\ RepoPath(q) \in DOMAIN repos

LEMMA NotServed ==
  ASSUME NEW q, ~Served(q)
  PROVE  Dashboard(q).kind = "error" /\ Dashboard(q).links = {}
  <1>1. Dashboard(q) = Page("error", 200, <<>>, {})
    BY Zenon DEF Dashboard, cgi_main, Served
  <1>2. QED
    BY <1>1 DEF Page

LEMMA Dispatched ==
  ASSUME NEW q, Served(q)
  PROVE  Dashboard(q) =
           IF q.status THEN Page("status", 200, <<>>, {})
           ELSE IF q.user = None THEN ci_home(q)
           ELSE IF q.commit # None THEN ci_commit(repos, Published, q)
           ELSE IF q.branch # None THEN ci_log(repos, Published, q)
           ELSE ci_user(q)
  BY Zenon DEF Dashboard, cgi_main, Served, Published

\* The results of a commit among the tests of a request.
StatusesOf(f, c, T) ==
  /\ DOMAIN f \subseteq T \cap Tests
  /\ \A t \in T : (IF t \in DOMAIN f THEN f[t] ELSE None) = StatusAt(c, t)
  /\ \A t \in T : t \in DOMAIN f <=> StatusAt(c, t) # None
  /\ \A t \in DOMAIN f : f[t] = StatusAt(c, t) /\ f[t] \in Status
  /\ T = Tests => f = Published[c]

LEMMA FilteredStatus ==
  ASSUME TypeInv, NEW c \in Commits, NEW T
  PROVE  StatusesOf(filter_results(Published[c], T), c, T)
  <1> DEFINE f == filter_results(Published[c], T)
  <1>1. Published[c] = ReadSrv(c)
    BY DEF Published
  <1>2. PICK U \in SUBSET Tests : Published[c] \in [U -> Status]
    BY PublishedType DEF Results
  <1>3. None \notin Status
    BY MirrorConstantsOK
  <1>4. f = [t \in U \cap T |-> Published[c][t]]
    BY <1>2 DEF filter_results
  <1>5. DOMAIN f = U \cap T /\ \A t \in U \cap T : f[t] = Published[c][t] /\ f[t] \in Status
    BY <1>2, <1>4
  <1>6. \A t : StatusAt(c, t) = IF t \in U THEN Published[c][t] ELSE None
    BY <1>1, <1>2 DEF StatusAt
  <1>7. T = Tests => f = Published[c]
    BY <1>2, <1>4
  <1> HIDE DEF Published, f
  <1>8. \A t \in T : (IF t \in DOMAIN f THEN f[t] ELSE None) = StatusAt(c, t)
    BY <1>5, <1>6
  <1>9. \A t \in T : t \in DOMAIN f <=> StatusAt(c, t) # None
    BY <1>3, <1>5, <1>6
  <1>10. \A t \in DOMAIN f : f[t] = StatusAt(c, t) /\ f[t] \in Status
    BY <1>5, <1>6
  <1>11. QED
    BY <1>5, <1>7, <1>8, <1>9, <1>10, Zenon DEF StatusesOf, f

-----------------------------------------------------------------------------
\* last_good_line() stops at the first commit where the test did not fail.
Statuses(st, commits, t, last) ==
  /\ DOMAIN commits = 1..last /\ Len(commits) = last
  /\ \A k \in 1..last :
       st[k] = IF t \in DOMAIN commits[k].tests THEN commits[k].tests[t] ELSE None

LastGood(good, st, last) ==
  /\ good.nr \in 0..last /\ \A k \in 1..good.nr : st[k] = "Failed"
  /\ good.exact => good.nr < last /\ st[good.nr + 1] = "Passed"
  /\ ~good.exact /\ good.nr < last => st[good.nr + 1] \notin {"Passed", "Failed"}

LEMMA LastGoodLine ==
  ASSUME NEW commits, NEW last \in Nat, NEW t, NEW st, Statuses(st, commits, t, last)
  PROVE  LastGood(last_good_line(commits, t), st, last)
  <1> DEFINE good == last_good_line(commits, t)
  <1> SUFFICES
        /\ good.nr \in 0..last /\ \A k \in 1..good.nr : st[k] = "Failed"
        /\ good.exact => good.nr < last /\ st[good.nr + 1] = "Passed"
        /\ ~good.exact /\ good.nr < last => st[good.nr + 1] \notin {"Passed", "Failed"}
    BY Zenon DEF LastGood
  <1> DEFINE ends == {k \in 1..last : st[k] # "Failed"}
  <1>1. good = IF ends = {} THEN [exact |-> FALSE, nr |-> last]
               ELSE [exact |-> st[Min(ends)] = "Passed", nr |-> Min(ends) - 1]
    <2> DEFINE status(i) == IF t \in DOMAIN commits[i].tests THEN commits[i].tests[t] ELSE None
               stops == {i \in DOMAIN commits : ~GoesOn(status(i))}
    <2>1. good = IF stops = {} THEN [exact |-> FALSE, nr |-> Len(commits)]
                 ELSE [exact |-> status(Min(stops)) = "Passed", nr |-> Min(stops) - 1]
      BY Zenon DEF last_good_line
    <2>2. DOMAIN commits = 1..last /\ Len(commits) = last /\ \A k \in 1..last : status(k) = st[k]
      BY Zenon DEF Statuses
    <2> HIDE DEF status
    <2>3. stops = ends
      BY <2>2 DEF GoesOn
    <2>4. ends # {} => Min(ends) \in 1..last
      <3>1. ends # {} => \E x \in ends : \A y \in ends : x <= y
        <4>1. ends \in SUBSET Nat
          OBVIOUS
        <4> HIDE DEF ends
        <4>2. QED
          BY <4>1, LeastNumber
      <3>2. ends # {} => Min(ends) \in ends
        BY <3>1, Zenon DEF Min
      <3>3. QED
        BY <3>2
    <2> HIDE DEF ends, stops
    <2>5. QED
      BY <2>1, <2>2, <2>3, <2>4, Zenon
  <1>2. CASE ends = {}
    <2>1. good.nr = last /\ ~good.exact
      BY <1>1, <1>2
    <2>2. QED
      BY <1>2, <2>1
  <1>3. CASE ends # {}
    <2> DEFINE m == Min(ends)
    <2>1. m \in ends /\ \A y \in ends : m <= y
      <3>1. ends \in SUBSET Nat
        OBVIOUS
      <3> HIDE DEF ends
      <3>2. \E x \in ends : \A y \in ends : x <= y
        BY <1>3, <3>1, LeastNumber
      <3>3. QED
        BY <3>2, Zenon DEF Min
    <2>2. good.nr = m - 1 /\ (good.exact <=> st[m] = "Passed")
      <3>1. good = [exact |-> st[m] = "Passed", nr |-> m - 1]
        BY <1>1, <1>3, Zenon
      <3> HIDE DEF m
      <3>2. good.nr = m - 1
        BY <3>1
      <3>3. good.exact <=> st[m] = "Passed"
        <4>1. CASE st[m] = "Passed"
          <5>1. good = [exact |-> TRUE, nr |-> m - 1]
            BY <3>1, <4>1, Zenon
          <5>2. QED
            BY <4>1, <5>1
        <4>2. CASE st[m] # "Passed"
          <5>1. good = [exact |-> FALSE, nr |-> m - 1]
            BY <3>1, <4>2, Zenon
          <5>2. QED
            BY <4>2, <5>1
        <4>3. QED
          BY <4>1, <4>2
      <3>4. QED
        BY <3>2, <3>3
    <2> HIDE DEF m
    <2>3. m \in 1..last /\ st[m] # "Failed" /\ \A k \in 1..(m - 1) : st[k] = "Failed"
      BY <2>1
    <2>4. QED
      BY <2>2, <2>3
  <1>4. QED
    BY <1>2, <1>3

\* The page of a commit of a branch, for any server.
CommitPage(b, i) == Dashboard(Query(b[1], b[2], Branch(b)[i], Tests))

LEMMA LastGoodOnPage ==
  ASSUME TypeInv, FetchedInv, NEW b \in Fetchable, NEW i \in DOMAIN Branch(b),
         CommitPage(b, i).kind = "commit",
         NEW t \in DOMAIN CommitPage(b, i).body.good
  PROVE  GoodOf(Branch(b), i, t, CommitPage(b, i).body.good[t])
  <1> DEFINE good == CommitPage(b, i).body.good[t]
  <1> DEFINE walk == Branch(b)
             q == Query(b[1], b[2], walk[i], Tests)
             commits == ResultsOf(repos, Published, q)
             page == CommitPage(b, i)
  <1>1. PICK r : HasBranch(r, b)
    BY FetchedBranch
  <1>2. /\ walk \in Seq(Commits) /\ DOMAIN walk = 1..Len(walk) /\ Len(walk) \in Nat
        /\ i \in 1..Len(walk)
    <2>1. walk \in Seq(Commits)
      <3>1. Query(b[1], b[2], None, Tests).user = b[1] /\ Query(b[1], b[2], None, Tests).branch = b[2]
            /\ Query(b[1], b[2], None, Tests).commit = None
        BY DEF Query
      <3>2. QED
        BY <1>1, <3>1, LogRequest
    <2> HIDE DEF walk
    <2>2. QED
      BY <2>1 DEF walk
  <1>3. /\ q.user = b[1] /\ q.branch = b[2] /\ q.commit = walk[i] /\ q.test = Tests
        /\ ~q.status /\ ~q.json
    BY DEF Query
  <1>4. PICK w \in Seq(Commits) :
          /\ Len(w) = Len(walk) - i + 1 /\ \A k \in 1..Len(w) : w[k] = walk[i + k - 1]
          /\ commits = branch_get_results(w, Published, Tests)
    <2> HIDE DEF q
    <2>1. i \in 1..Len(Branch(b)) /\ Asked(q, b, Branch(b)[i])
      BY <1>2, <1>3 DEF Asked
    <2>2. WalkedFrom(q, b, i)
      BY <1>1, <2>1, CommitRequest, Zenon
    <2>3. QED
      BY <1>3, <2>2, Zenon DEF WalkedFrom
  <1>5. page = ci_commit(repos, Published, q)
    <2>1. page = Dashboard(q) /\ Served(q)
      <3>1. page = Dashboard(q)
        BY Zenon DEF CommitPage
      <3> HIDE DEF q
      <3>2. QED
        BY <3>1, NotServed
    <2>2. q.user # None /\ q.commit # None
      <3>1. b[1] # None
        BY <1>1, Zenon DEF HasBranch
      <3>2. walk[i] \in Commits /\ None \notin Commits
        BY <1>2, MirrorConstantsOK
      <3> HIDE DEF q
      <3>3. QED
        BY <1>3, <3>1, <3>2
    <2> HIDE DEF q
    <2>3. QED
      BY <1>3, <2>1, <2>2, Dispatched, Zenon
  <1> HIDE DEF q, commits, walk, page
  <1>6. /\ commits # None /\ commits # <<>>
        /\ page.body.good = [x \in DOMAIN commits[1].tests |-> last_good_line(commits, x)]
    <2>1. ErrorPage(q).kind # "commit" /\ Page("panic", 500, <<>>, {}).kind # "commit"
      BY DEF ErrorPage, Page
    <2>2. commits # None /\ commits # <<>>
      BY <1>5, <2>1, Zenon DEF ci_commit, commits, page
    <2>3. QED
      BY <1>5, <2>2 DEF ci_commit, commits, Page
  <1> DEFINE n == WalkLen(w)
             K == TestedAt(w, Published, Tests)
  <1>7. /\ n \in Nat /\ n <= Len(w) /\ n <= Depth /\ (n = Len(w) \/ n = Depth)
        /\ \E last \in 0..n : Reaches(K, last, n) /\ commits = Taken(w, Published, Tests, last)
    BY <1>4, ResultsWalked, Zenon
  <1>8. PICK last \in 0..n :
          /\ Reaches(K, last, n)
          /\ commits = [k \in 1..last |-> [id |-> w[k], tests |-> filter_results(Published[w[k]], Tests)]]
    BY <1>7, Zenon DEF Taken
  <1>9. last < n => last + 1 \notin K
    BY <1>8 DEF Reaches
  <1> DEFINE st == [k \in 1..n |-> StatusAt(w[k], t)]
  <1>10. \A k \in 1..n : w[k] \in Commits
    BY <1>7
  <1>11. t \in Tests
    <2>1. t \in DOMAIN commits[1].tests /\ 1 \in 1..last
      <3>1. t \in DOMAIN commits[1].tests
        BY <1>6 DEF page
      <3>2. last # 0
        BY <1>6, <1>8
      <3>3. QED
        BY <3>1, <3>2, <1>7
    <2>2. commits[1].tests = filter_results(Published[w[1]], Tests) /\ w[1] \in Commits
      BY <1>7, <1>8, <1>10, <2>1
    <2>3. QED
      BY <2>1, <2>2, FilteredStatus DEF StatusesOf
  <1>12. \A k \in 1..last :
           st[k] = IF t \in DOMAIN commits[k].tests THEN commits[k].tests[t] ELSE None
    <2> SUFFICES ASSUME NEW k \in 1..last
                 PROVE  st[k] = IF t \in DOMAIN commits[k].tests THEN commits[k].tests[t] ELSE None
      OBVIOUS
    <2>1. k \in 1..n
      BY <1>7
    <2>2. commits[k].tests = filter_results(Published[w[k]], Tests) /\ w[k] \in Commits
      BY <1>8, <1>10, <2>1
    <2>3. st[k] = StatusAt(w[k], t)
      BY <2>1
    <2> HIDE DEF st
    <2>4. QED
      BY <1>11, <2>2, <2>3, FilteredStatus DEF StatusesOf
  <1>13. good = last_good_line(commits, t)
    BY <1>6 DEF page
  <1>14. last \in Nat /\ DOMAIN commits = 1..last /\ Len(commits) = last
    BY <1>7, <1>8
  <1> HIDE DEF st
  <1>15. /\ good.nr \in 0..last /\ \A k \in 1..good.nr : st[k] = "Failed"
         /\ good.exact => good.nr < last /\ st[good.nr + 1] = "Passed"
         /\ ~good.exact /\ good.nr < last => st[good.nr + 1] \notin {"Passed", "Failed"}
    <2>1. Statuses(st, commits, t, last)
      BY <1>12, <1>14, Zenon DEF Statuses
    <2>2. LastGood(good, st, last)
      BY <1>13, <1>14, <2>1, LastGoodLine, Zenon
    <2>3. QED
      BY <2>2, Zenon DEF LastGood
  <1> DEFINE nr == good.nr
  <1>16. nr \in 0..last /\ last \in 0..n
    BY <1>8, <1>15
  <1> HIDE DEF n, K, nr
  <1>17. \A k \in 1..n : walk[i + k - 1] = w[k] /\ st[k] = StatusAt(w[k], t)
    BY <1>4, <1>7 DEF st
  <1>18. \A j \in i..(i + nr - 1) : StatusAt(walk[j], t) = "Failed"
    <2> SUFFICES ASSUME NEW j \in i..(i + nr - 1) PROVE StatusAt(walk[j], t) = "Failed"
      OBVIOUS
    <2> DEFINE k == j - i + 1
    <2>1. k \in 1..nr /\ k \in 1..n /\ i + k - 1 = j
      BY <1>2, <1>7, <1>16
    <2> HIDE DEF k
    <2>2. QED
      BY <1>15, <1>17, <2>1 DEF nr
  <1>19. good.exact => StatusAt(walk[i + nr], t) = "Passed"
    <2> SUFFICES ASSUME good.exact PROVE StatusAt(walk[i + nr], t) = "Passed"
      OBVIOUS
    <2>1. nr < last /\ st[nr + 1] = "Passed"
      BY <1>15, Zenon DEF nr
    <2>2. nr + 1 \in 1..n /\ i + (nr + 1) - 1 = i + nr
      BY <1>2, <1>7, <1>16, <2>1
    <2>3. QED
      BY <1>17, <2>1, <2>2
  <1>20. ASSUME ~good.exact, i + nr \in DOMAIN walk, nr < Depth
         PROVE  StatusAt(walk[i + nr], t) \notin {"Passed", "Failed"}
    <2>1. nr + 1 \in 1..n /\ i + (nr + 1) - 1 = i + nr
      BY <1>2, <1>4, <1>7, <1>16, <1>20
    <2>2. CASE nr < last
      BY <1>15, <1>17, <1>20, <2>1, <2>2 DEF nr
    <2>3. CASE nr = last
      <3>1. last + 1 \notin K
        BY <1>7, <1>9, <1>16, <2>1, <2>3
      <3>2. DOMAIN filter_results(Published[w[nr + 1]], Tests) = {} /\ w[nr + 1] \in Commits
        BY <1>10, <2>1, <2>3, <3>1 DEF K, n, TestedAt
      <3>3. StatusAt(w[nr + 1], t) = None
        BY <1>11, <3>2, FilteredStatus DEF StatusesOf
      <3>4. "Passed" # None /\ "Failed" # None
        BY MirrorConstantsOK DEF Status
      <3>5. QED
        BY <1>17, <2>1, <3>3, <3>4
    <2>4. QED
      BY <1>16, <2>2, <2>3
  <1>21. QED
    BY <1>18, <1>19, <1>20 DEF nr, walk, GoodOf

\* "Last good n commits ago" on the page of a commit is true of the branch: for any branch,
\* any results and any depth of a walk, the test failed in each of the n commits from this
\* one back, and then passed or, for ">= n", has no verdict (last_good_line over the
\* untested commits that branch_get_results keeps).
THEOREM LastGoodHolds == Spec => []LastGoodIsTrue
  <1>1. TypeInv /\ FetchedInv => LastGoodIsTrue
    <2> SUFFICES ASSUME TypeInv, FetchedInv PROVE LastGoodIsTrue
      OBVIOUS
    <2>1. \A b \in Fetchable : \A i \in DOMAIN Branch(b) :
            CommitPage(b, i).kind = "commit" =>
              \A t \in DOMAIN CommitPage(b, i).body.good : GoodOf(Branch(b), i, t, CommitPage(b, i).body.good[t])
      BY LastGoodOnPage, Zenon
    <2>2. QED
      BY <2>1, Zenon DEF LastGoodIsTrue, CommitPage
  <1>2. QED
    BY <1>1, TypeInvariant, FetchedInvariant, PTL

-----------------------------------------------------------------------------
(* The logs.                                                               *)

\* What branch_get_results() keeps of a walk, and what is to be shown of it.
Keeps(walk, ts, last) ==
  /\ last \in 0..Len(walk) /\ (last > 0 => last \in ShownOf(walk, ts))
  /\ ShownOf(walk, ts) = {i \in 1..last : DOMAIN filter_results(Published[walk[i]], ts) # {}}
  /\ branch_get_results(walk, Published, ts) = Taken(walk, Published, ts, last)

LEMMA WalkShown ==
  ASSUME TypeInv, NEW walk \in Seq(Commits), NEW ts \in SUBSET Tests
  PROVE  \E last : Keeps(walk, ts, last)
  <1> DEFINE n == WalkLen(walk)
             K == TestedAt(walk, Published, ts)
             tested == {i \in DOMAIN walk : \E t \in ts : StatusAt(walk[i], t) # None}
  <1>1. /\ n \in Nat /\ n <= Len(walk) /\ n <= Depth /\ (n = Len(walk) \/ n = Depth)
        /\ \E last \in 0..n : /\ Reaches(K, last, n)
                              /\ branch_get_results(walk, Published, ts) = Taken(walk, Published, ts, last)
    BY ResultsWalked, Zenon
  <1>2. PICK last \in 0..n : /\ Reaches(K, last, n)
                             /\ branch_get_results(walk, Published, ts) = Taken(walk, Published, ts, last)
    BY <1>1, Zenon
  <1>3. DOMAIN walk = 1..Len(walk) /\ Len(walk) \in Nat /\ Depth \in Nat /\ MaxEmpty \in Nat
    BY MirrorConstantsOK
  <1>4. \A i \in 1..Len(walk) : i \in tested <=> DOMAIN filter_results(Published[walk[i]], ts) # {}
    <2> SUFFICES ASSUME NEW i \in 1..Len(walk)
                 PROVE  (\E t \in ts : StatusAt(walk[i], t) # None)
                          <=> DOMAIN filter_results(Published[walk[i]], ts) # {}
      BY <1>3
    <2> DEFINE f == filter_results(Published[walk[i]], ts)
    <2>1. walk[i] \in Commits
      OBVIOUS
    <2>2. /\ DOMAIN f \subseteq ts
          /\ \A t \in ts : t \in DOMAIN f <=> StatusAt(walk[i], t) # None
      BY <2>1, FilteredStatus DEF StatusesOf
    <2> HIDE DEF f
    <2>3. QED
      BY <2>2 DEF f
  <1>5. \A i : i \in K <=> i \in 1..n /\ i \in tested
    <2>1. n \in Nat /\ n <= Len(walk)
      BY <1>1, Zenon
    <2>2. K = {i \in 1..n : DOMAIN filter_results(Published[walk[i]], ts) # {}}
      BY DEF TestedAt
    <2> HIDE DEF n, K, tested
    <2>3. \A i \in 1..n : i \in 1..Len(walk)
      BY <1>3, <2>1
    <2>4. QED
      BY <1>4, <2>2, <2>3
  <1> HIDE DEF n, K
  <1>6. n \in Nat /\ n <= Len(walk) /\ n <= Depth /\ (n = Len(walk) \/ n = Depth)
    BY <1>1, Zenon
  <1> DEFINE L == Len(walk)
  <1>7. /\ L \in Nat /\ Depth \in Nat /\ MaxEmpty \in Nat /\ n \in Nat /\ n <= L /\ n <= Depth
        /\ n = L \/ n = Depth
    BY <1>3, <1>6, Zenon
  <1>8. ShownOf(walk, ts) = {i \in tested :
          i <= Depth /\ \A j \in 1..i : j + MaxEmpty < i => tested \cap (j..(j + MaxEmpty)) # {}}
    BY Zenon DEF ShownOf
  <1>9. \A i \in tested : i \in 1..L
    BY <1>3
  <1> HIDE DEF tested, L
  <1>10. ShownOf(walk, ts) = {i \in K : i <= last}
    <2>1. \A i \in tested : i <= Depth <=> i \in K
      <3> SUFFICES ASSUME NEW i \in tested PROVE i <= Depth <=> i \in 1..n
        BY <1>5
      <3>1. QED
        BY <1>7, <1>9
    <2>2. ASSUME NEW i \in K
          PROVE  (\A j \in 1..i : j + MaxEmpty < i => tested \cap (j..(j + MaxEmpty)) # {}) <=> i <= last
      <3>1. i <= last <=> \A j \in 1..i : j + MaxEmpty < i => \E k \in j..(j + MaxEmpty) : k \in K
        BY <1>2 DEF Reaches
      <3>2. i \in 1..n
        BY <1>5
      <3>3. ASSUME NEW j \in 1..i, j + MaxEmpty < i
            PROVE  (tested \cap (j..(j + MaxEmpty)) # {}) <=> (\E k \in j..(j + MaxEmpty) : k \in K)
        <4>1. \A k \in j..(j + MaxEmpty) : k \in 1..n
          BY <1>7, <3>2, <3>3
        <4>2. \A k \in j..(j + MaxEmpty) : k \in tested <=> k \in K
          BY <1>5, <4>1
        <4>3. QED
          BY <4>2
      <3>4. QED
        BY <3>1, <3>3
    <2>3. \A i \in K : i \in tested
      BY <1>5
    <2>4. QED
      BY <1>8, <2>1, <2>2, <2>3
  <1>11. ShownOf(walk, ts) = {i \in 1..last : DOMAIN filter_results(Published[walk[i]], ts) # {}}
    <2>1. last \in Nat /\ last <= n
      BY <1>7
    <2>2. \A i \in 1..last : i \in 1..n /\ i \in 1..L
      BY <1>7, <2>1
    <2>3. \A i \in 1..last : i \in K <=> DOMAIN filter_results(Published[walk[i]], ts) # {}
      BY <1>4, <1>5, <2>2 DEF L
    <2>4. \A i \in K : i <= last => i \in 1..last
      BY <1>5, <2>1
    <2>5. \A i \in 1..last : i <= last
      BY <2>1
    <2>6. \A i : i \in K /\ i <= last <=>
                 i \in 1..last /\ DOMAIN filter_results(Published[walk[i]], ts) # {}
      BY <2>3, <2>4, <2>5, Zenon
    <2>7. QED
      BY <1>10, <2>6, Zenon
  <1>12. last \in 0..L /\ last <= last
    BY <1>7
  <1>13. last > 0 => last \in ShownOf(walk, ts)
    BY <1>2, <1>10, <1>12 DEF Reaches
  <1>14. QED
    BY <1>2, <1>11, <1>12, <1>13, Zenon DEF Keeps, L

\* The commits of a log, for the request in any form.
LogOf(q, walk, last) ==
  /\ walk = Branch(<<q.user, q.branch>>) /\ walk \in Seq(Commits) /\ last \in 0..Len(walk)
  /\ q.commit = None /\ q.user # None /\ q.branch # None /\ ~q.status /\ q.test \subseteq Tests
  /\ Shown(q) = {i \in 1..last : DOMAIN filter_results(Published[walk[i]], q.test) # {}}
  /\ \A p : p.user = q.user /\ p.branch = q.branch => RepoPath(p) \in DOMAIN repos
  /\ \A p : p.user = q.user /\ p.branch = q.branch /\ p.commit = None /\ p.test = q.test =>
       ResultsOf(repos, Published, p) = Taken(walk, Published, q.test, last)

\* A log is of a branch that was fetched.
LEMMA LogQuery ==
  ASSUME FetchedInv, NEW q \in Logs
  PROVE  \E r : /\ HasBranch(r, <<q.user, q.branch>>) /\ q.commit = None /\ ~q.status /\ ~q.json
                /\ q.test \in SUBSET Tests /\ <<q.user, q.branch>> \in Fetchable
  <1>1. PICK b \in Fetchable, ts \in SUBSET Tests : q = Query(b[1], b[2], None, ts)
    BY DEF Logs
  <1>2. /\ q.user = b[1] /\ q.branch = b[2] /\ q.commit = None /\ q.test = ts
        /\ ~q.status /\ ~q.json
    BY <1>1 DEF Query
  <1>3. PICK r : HasBranch(r, b)
    BY FetchedBranch
  <1>4. b = <<b[1], b[2]>>
    BY <1>3, Zenon DEF HasBranch
  <1>5. <<q.user, q.branch>> = b
    BY <1>2, <1>4, Zenon
  <1>6. QED
    BY <1>2, <1>3, <1>5, Zenon

LEMMA LogWalked ==
  ASSUME TypeInv, FetchedInv, NEW q \in Logs
  PROVE  \E walk, last : LogOf(q, walk, last)
  <1> DEFINE b == <<q.user, q.branch>>
             walk == Branch(b)
  <1>1. PICK r : HasBranch(r, b) /\ q.commit = None /\ ~q.status /\ q.test \in SUBSET Tests
    BY LogQuery, Zenon
  <1>2. b[1] = q.user /\ b[2] = q.branch
    OBVIOUS
  <1> HIDE DEF b
  <1>3. walk \in Seq(Commits)
    BY <1>1, <1>2, LogRequest
  <1>4. \A p : p.user = q.user /\ p.branch = q.branch /\ p.commit = None /\ p.test = q.test =>
          ResultsOf(repos, Published, p) = branch_get_results(walk, Published, q.test)
    BY <1>1, <1>2, LogRequest
  <1>5. /\ b[1] # None /\ b[2] # None
        /\ \A p : p.user = q.user /\ p.branch = q.branch => RepoPath(p) \in DOMAIN repos
    BY <1>1, <1>2, Zenon DEF HasBranch
  <1>6. Shown(q) = ShownOf(walk, q.test)
    BY Zenon DEF Shown, b
  <1> HIDE DEF walk
  <1>7. PICK last : Keeps(walk, q.test, last)
    BY <1>1, <1>3, WalkShown
  <1>8. q.test \subseteq Tests
    BY <1>1
  <1>9. LogOf(q, walk, last)
    BY <1>1, <1>2, <1>3, <1>4, <1>5, <1>6, <1>7, <1>8, Zenon DEF LogOf, Keeps, walk, b
  <1>10. QED
    BY <1>9, Zenon

\* A commit of a walk with its results.
TakenFrom(commits, walk, T, last) ==
  /\ commits \in Seq([id : Commits, tests : Results]) /\ commits # None
  /\ DOMAIN commits = 1..last /\ Len(commits) = last
  /\ \A i \in 1..last : /\ commits[i].id = walk[i] /\ walk[i] \in Commits
                        /\ commits[i].tests = filter_results(Published[walk[i]], T)

LEMMA TakenCommits ==
  ASSUME TypeInv, NEW walk \in Seq(Commits), NEW last \in 0..Len(walk), NEW T
  PROVE  TakenFrom(Taken(walk, Published, T, last), walk, T, last)
  <1> DEFINE commits == Taken(walk, Published, T, last)
  <1>1. commits = [i \in 1..last |-> [id |-> walk[i], tests |-> filter_results(Published[walk[i]], T)]]
    BY Zenon DEF Taken
  <1>2. last \in Nat /\ \A i \in 1..last : walk[i] \in Commits
    OBVIOUS
  <1>3. \A i \in 1..last : filter_results(Published[walk[i]], T) \in Results
    <2> SUFFICES ASSUME NEW i \in 1..last PROVE filter_results(Published[walk[i]], T) \in Results
      OBVIOUS
    <2> DEFINE c == walk[i]
    <2>1. c \in Commits
      BY <1>2
    <2> HIDE DEF c
    <2>2. PICK U \in SUBSET Tests : Published[c] \in [U -> Status]
      BY <2>1, PublishedType DEF Results
    <2>3. filter_results(Published[c], T) \in [U \cap T -> Status]
      BY <2>2 DEF filter_results
    <2>4. QED
      BY <2>3 DEF Results, c
  <1> HIDE DEF commits
  <1>4. commits \in Seq([id : Commits, tests : Results])
    BY <1>1, <1>2, <1>3
  <1>5. commits # None
    BY <1>4, MirrorConstantsOK
  <1>6. DOMAIN commits = 1..last /\ Len(commits) = last
    BY <1>1, <1>2
  <1>7. \A i \in 1..last : /\ commits[i].id = walk[i] /\ walk[i] \in Commits
                           /\ commits[i].tests = filter_results(Published[walk[i]], T)
    BY <1>1, <1>2
  <1>8. QED
    BY <1>4, <1>5, <1>6, <1>7, Zenon DEF commits, TakenFrom

LEMMA Pairs ==
  ASSUME NEW S, IsFiniteSet(S), NEW t
  PROVE  Cardinality({<<i, t>> : i \in S}) = Cardinality(S) /\ IsFiniteSet({<<i, t>> : i \in S})
  <1> DEFINE T == {<<i, t>> : i \in S}
             f == [i \in S |-> <<i, t>>]
  <1>1. f \in Bijection(S, T)
    BY DEF Bijection, Injection, Surjection, IsInjective
  <1>2. ExistsBijection(S, T)
    BY <1>1 DEF ExistsBijection
  <1> HIDE DEF T
  <1>3. IsFiniteSet(T) /\ Cardinality(T) = Cardinality(S)
    BY <1>2, FS_Bijection
  <1>4. QED
    BY <1>3 DEF T

\* The positions of a log with a status.
At(walk, last, t, s) == {i \in 1..last : StatusAt(walk[i], t) = s}

LEMMA AtIsFinite ==
  ASSUME NEW walk, NEW last \in Nat, NEW t, NEW s
  PROVE  IsFiniteSet(At(walk, last, t, s)) /\ Cardinality(At(walk, last, t, s)) \in Nat
  <1>1. IsFiniteSet(1..last) /\ At(walk, last, t, s) \in SUBSET (1..last)
    BY FS_Interval DEF At
  <1>2. IsFiniteSet(At(walk, last, t, s))
    BY <1>1, FS_Subset
  <1>3. QED
    BY <1>2, FS_CardinalityType

Rates(P, F) ==
  IF P = {} /\ F = {} THEN None
  ELSE [completed |-> Cardinality(P) + Cardinality(F),
        passed |-> Cardinality(P), failed |-> Cardinality(F)]

\* single_test_stats() of the log of one test.
LEMMA StatsOfOne ==
  ASSUME TypeInv, NEW walk \in Seq(Commits), NEW last \in 0..Len(walk), NEW t \in Tests
  PROVE  single_test_stats(Taken(walk, Published, {t}, last)) =
           Rates(At(walk, last, t, "Passed"), At(walk, last, t, "Failed"))
  <1> DEFINE P == At(walk, last, t, "Passed")
             F == At(walk, last, t, "Failed")
             commits == Taken(walk, Published, {t}, last)
             names == UNION {DOMAIN commits[i].tests : i \in DOMAIN commits}
             runs == {r \in (DOMAIN commits) \X names :
                        /\ r[2] \in DOMAIN commits[r[1]].tests
                        /\ Completed(commits[r[1]].tests[r[2]])}
             of(s) == {r \in runs : commits[r[1]].tests[r[2]] = s}
  <1>1. single_test_stats(commits) =
          IF Cardinality(names) > 1 \/ runs = {} THEN None
          ELSE [completed |-> Cardinality(runs), passed |-> Cardinality(of("Passed")),
                failed |-> Cardinality(of("Failed"))]
    BY Zenon DEF single_test_stats
  <1>2. /\ DOMAIN commits = 1..last
        /\ \A i \in 1..last : walk[i] \in Commits /\ commits[i].tests = filter_results(Published[walk[i]], {t})
    <2>1. TakenFrom(commits, walk, {t}, last)
      BY TakenCommits
    <2>2. QED
      BY <2>1, Zenon DEF TakenFrom
  <1>3. last \in Nat
    OBVIOUS
  <1> HIDE DEF commits
  <1>4. \A i \in 1..last : /\ DOMAIN commits[i].tests \subseteq {t}
                           /\ t \in DOMAIN commits[i].tests <=> StatusAt(walk[i], t) # None
                           /\ t \in DOMAIN commits[i].tests => commits[i].tests[t] = StatusAt(walk[i], t)
    <2> SUFFICES ASSUME NEW i \in 1..last
                 PROVE  /\ DOMAIN commits[i].tests \subseteq {t}
                        /\ t \in DOMAIN commits[i].tests <=> StatusAt(walk[i], t) # None
                        /\ t \in DOMAIN commits[i].tests => commits[i].tests[t] = StatusAt(walk[i], t)
      OBVIOUS
    <2> DEFINE T == {t}
               f == filter_results(Published[walk[i]], T)
    <2>1. commits[i].tests = f /\ walk[i] \in Commits
      BY <1>2
    <2> HIDE DEF T
    <2>2. /\ DOMAIN f \subseteq T \cap Tests
          /\ \A x \in T : x \in DOMAIN f <=> StatusAt(walk[i], x) # None
          /\ \A x \in DOMAIN f : f[x] = StatusAt(walk[i], x) /\ f[x] \in Status
      BY <2>1, FilteredStatus DEF StatusesOf
    <2> HIDE DEF f
    <2>3. QED
      BY <2>1, <2>2 DEF T
  <1>5. names \subseteq {t}
    BY <1>2, <1>4
  <1>6. ~(Cardinality(names) > 1)
    <2>1. names = {} \/ names = {t}
      BY <1>5
    <2> HIDE DEF names
    <2>2. Cardinality(names) \in {0, 1}
      BY <2>1, FS_EmptySet, FS_Singleton
    <2>3. QED
      BY <2>2
  <1>7. \A i \in 1..last : t \in DOMAIN commits[i].tests => t \in names
    BY <1>2
  <1> HIDE DEF names
  <1>8. "Passed" # None /\ "Failed" # None
    BY MirrorConstantsOK DEF Status
  <1>9. \A r : r \in runs <=> \E i \in 1..last : r = <<i, t>> /\ StatusAt(walk[i], t) \in {"Passed", "Failed"}
    <2>1. ASSUME NEW r \in runs
          PROVE  \E i \in 1..last : r = <<i, t>> /\ StatusAt(walk[i], t) \in {"Passed", "Failed"}
      <3>1. PICK i \in 1..last, x \in names : r = <<i, x>>
        BY <1>2
      <3>2. x = t
        BY <1>5, <3>1
      <3>3. t \in DOMAIN commits[i].tests /\ Completed(commits[i].tests[t])
        BY <3>1, <3>2
      <3>4. QED
        BY <1>4, <3>1, <3>2, <3>3 DEF Completed
    <2>2. ASSUME NEW i \in 1..last, StatusAt(walk[i], t) \in {"Passed", "Failed"}
          PROVE  <<i, t>> \in runs
      <3>1. t \in DOMAIN commits[i].tests
        BY <1>4, <1>8, <2>2
      <3>2. commits[i].tests[t] \in {"Passed", "Failed"}
        BY <1>4, <2>2, <3>1
      <3>3. Completed(commits[i].tests[t])
        BY <3>2, Zenon DEF Completed
      <3>4. t \in names /\ i \in DOMAIN commits
        BY <1>2, <1>7, <3>1
      <3>5. QED
        BY <3>1, <3>3, <3>4
    <2> HIDE DEF runs
    <2>3. QED
      BY <2>1, <2>2
  <1>10. \A i \in 1..last : <<i, t>> \in runs => commits[<<i, t>>[1]].tests[<<i, t>>[2]] = StatusAt(walk[i], t)
    <2> SUFFICES ASSUME NEW i \in 1..last, <<i, t>> \in runs
                 PROVE  commits[i].tests[t] = StatusAt(walk[i], t)
      OBVIOUS
    <2>1. t \in DOMAIN commits[i].tests
      OBVIOUS
    <2>2. QED
      BY <1>4, <2>1
  <1> HIDE DEF runs
  <1>11. of("Passed") = {<<i, t>> : i \in P}
    BY <1>9, <1>10 DEF At
  <1>12. of("Failed") = {<<i, t>> : i \in F}
    BY <1>9, <1>10 DEF At
  <1>13. runs = {<<i, t>> : i \in P \cup F}
    BY <1>9 DEF At
  <1> HIDE DEF of
  <1>14. /\ IsFiniteSet(P) /\ IsFiniteSet(F) /\ Cardinality(P) \in Nat /\ Cardinality(F) \in Nat
    BY <1>3, AtIsFinite
  <1>15. P \cap F = {}
    BY DEF At
  <1> HIDE DEF P, F
  <1>16. IsFiniteSet(P \cup F) /\ Cardinality(P \cup F) = Cardinality(P) + Cardinality(F)
    <2>1. IsFiniteSet(P \cup F) /\ Cardinality(P \cup F) = Cardinality(P) + Cardinality(F) - Cardinality(P \cap F)
      BY <1>14, FS_Union
    <2>2. Cardinality(P \cap F) = 0
      BY <1>15, FS_EmptySet
    <2>3. QED
      BY <1>14, <2>1, <2>2
  <1>17. /\ Cardinality(runs) = Cardinality(P) + Cardinality(F)
         /\ Cardinality(of("Passed")) = Cardinality(P) /\ Cardinality(of("Failed")) = Cardinality(F)
    <2>1. Cardinality(of("Passed")) = Cardinality(P)
      BY <1>11, <1>14, Pairs, Zenon
    <2>2. Cardinality(of("Failed")) = Cardinality(F)
      BY <1>12, <1>14, Pairs, Zenon
    <2>3. Cardinality(runs) = Cardinality(P \cup F)
      BY <1>13, <1>16, Pairs, Zenon
    <2>4. QED
      BY <1>16, <2>1, <2>2, <2>3
  <1>18. runs = {} <=> P = {} /\ F = {}
    BY <1>13
  <1>19. QED
    <2>1. CASE P = {} /\ F = {}
      <3>1. single_test_stats(commits) = None
        BY <1>1, <1>18, <2>1
      <3>2. QED
        BY <2>1, <3>1 DEF commits, Rates, P, F
    <2>2. CASE ~(P = {} /\ F = {})
      <3>1. single_test_stats(commits) =
              [completed |-> Cardinality(runs), passed |-> Cardinality(of("Passed")),
               failed |-> Cardinality(of("Failed"))]
        BY <1>1, <1>6, <1>18, <2>2, Zenon
      <3>2. QED
        BY <1>17, <2>2, <3>1 DEF commits, Rates, P, F
    <2>3. QED
      BY <2>1, <2>2

\* The page of a log with these commits.
LogPage(p, commits) ==
  Page("log", 200,
       [entries |-> branch_entries(commits),
        stats |-> IF p.json \/ p.test = Tests THEN None ELSE single_test_stats(commits)],
       search_form(p) \cup
         {Query(p.user, p.branch, commits[i].id, Tests)
          : i \in {i \in DOMAIN commits : DOMAIN commits[i].tests # {}}})

SameLog(p, q) == p.user = q.user /\ p.branch = q.branch /\ p.commit = None /\ p.test = q.test /\ ~p.status

LEMMA LogIsPage ==
  ASSUME TypeInv, up, NEW q, NEW walk, NEW last, LogOf(q, walk, last), NEW p, SameLog(p, q)
  PROVE  Dashboard(p) = LogPage(p, Taken(walk, Published, q.test, last))
  <1> DEFINE commits == Taken(walk, Published, q.test, last)
  <1>1. ResultsOf(repos, Published, p) = commits
    BY Zenon DEF LogOf, SameLog
  <1>2. commits # None
    BY TakenCommits, Zenon DEF LogOf, TakenFrom
  <1>3. Served(p)
    BY Zenon DEF Served, LogOf, SameLog
  <1>4. p.user # None /\ p.branch # None
    BY Zenon DEF LogOf, SameLog
  <1>5. Dashboard(p) = ci_log(repos, Published, p)
    BY <1>3, <1>4, Dispatched, Zenon DEF SameLog
  <1>6. QED
    BY <1>1, <1>2, <1>5, Zenon DEF ci_log, LogPage

\* The rates above the log of one test count its finished runs in the commits that the log
\* shows, for any branch and any results, and are there exactly when there is one
\* (single_test_stats).
THEOREM RatesHold == Spec => []RatesAreOfTheLog
  <1>1. ASSUME TypeInv, FetchedInv, up, NEW q \in Logs, NEW t \in Tests, q.test = {t}, q.test # Tests
        PROVE  LET walk == Branch(<<q.user, q.branch>>)
                   nr(s) == Cardinality({i \in Shown(q) : StatusAt(walk[i], t) = s})
                   stats == Dashboard(q).body.stats
               IN IF nr("Passed") + nr("Failed") = 0 THEN stats = None
                  ELSE stats = [completed |-> nr("Passed") + nr("Failed"),
                                passed |-> nr("Passed"), failed |-> nr("Failed")]
    <2>1. q.test = {t} /\ q.commit = None /\ ~q.status /\ ~q.json
      BY <1>1, LogQuery, Zenon
    <2>2. PICK walk, last : LogOf(q, walk, last)
      BY <1>1, LogWalked, Zenon
    <2> DEFINE commits == Taken(walk, Published, q.test, last)
               P == At(walk, last, t, "Passed")
               F == At(walk, last, t, "Failed")
               nr(s) == Cardinality({i \in Shown(q) : StatusAt(walk[i], t) = s})
    <2>3. Dashboard(q).body.stats = single_test_stats(commits)
      <3>1. Dashboard(q) = LogPage(q, commits)
        BY <1>1, <2>1, <2>2, LogIsPage, Zenon DEF SameLog
      <3> HIDE DEF commits
      <3>2. QED
        BY <1>1, <2>1, <3>1 DEF Page, LogPage
    <2>4. /\ walk = Branch(<<q.user, q.branch>>) /\ walk \in Seq(Commits) /\ last \in 0..Len(walk)
          /\ Shown(q) = {i \in 1..last : DOMAIN filter_results(Published[walk[i]], q.test) # {}}
      BY <2>2, Zenon DEF LogOf
    <2>5. single_test_stats(commits) = Rates(P, F)
      BY <1>1, <2>1, <2>4, StatsOfOne
    <2>6. \A i \in 1..last : StatusAt(walk[i], t) # None => i \in Shown(q)
      <3> SUFFICES ASSUME NEW i \in 1..last, StatusAt(walk[i], t) # None
                   PROVE  DOMAIN filter_results(Published[walk[i]], q.test) # {}
        BY <2>4
      <3>1. walk[i] \in Commits
        BY <2>4
      <3>2. \A u \in q.test : u \in DOMAIN filter_results(Published[walk[i]], q.test) <=> StatusAt(walk[i], u) # None
        BY <1>1, <3>1, FilteredStatus DEF StatusesOf
      <3>3. QED
        BY <2>1, <3>2
    <2>7. \A s \in Status : {i \in Shown(q) : StatusAt(walk[i], t) = s} = At(walk, last, t, s)
      <3>1. None \notin Status
        BY MirrorConstantsOK
      <3>2. QED
        BY <2>1, <2>4, <2>6, <3>1 DEF At
    <2>8. nr("Passed") = Cardinality(P) /\ nr("Failed") = Cardinality(F)
      <3>1. "Passed" \in Status /\ "Failed" \in Status
        BY DEF Status
      <3>2. QED
        BY <2>7, <3>1
    <2>9. /\ IsFiniteSet(P) /\ IsFiniteSet(F) /\ Cardinality(P) \in Nat /\ Cardinality(F) \in Nat
      BY <2>4, AtIsFinite
    <2>10. P = {} /\ F = {} <=> Cardinality(P) + Cardinality(F) = 0
      <3>1. (P = {} <=> Cardinality(P) = 0) /\ (F = {} <=> Cardinality(F) = 0)
        BY <2>9, FS_EmptySet
      <3> HIDE DEF P, F
      <3>2. QED
        BY <2>9, <3>1
    <2> HIDE DEF P, F, commits, nr
    <2>11. IF nr("Passed") + nr("Failed") = 0 THEN Dashboard(q).body.stats = None
           ELSE Dashboard(q).body.stats = [completed |-> nr("Passed") + nr("Failed"),
                                           passed |-> nr("Passed"), failed |-> nr("Failed")]
      BY <2>3, <2>5, <2>8, <2>10, Zenon DEF Rates
    <2>12. QED
      BY <2>4, <2>11, Zenon DEF nr
  <1>2. TypeInv /\ FetchedInv => RatesAreOfTheLog
    BY <1>1, Zenon DEF RatesAreOfTheLog
  <1>3. QED
    BY <1>2, TypeInvariant, FetchedInvariant, PTL

\* A line of a log.
EntryOf(e, q, walk, i) ==
  /\ e.commit = walk[i]
  /\ \A s \in Status : e.nr[s] = Cardinality({t \in q.test : StatusAt(walk[i], t) = s})

EntriesOf(entries, q, walk) ==
  /\ Len(entries) = Cardinality(Shown(q)) /\ DOMAIN entries = 1..Cardinality(Shown(q))
  /\ \A i \in Shown(q) : /\ Cardinality({j \in Shown(q) : j <= i}) \in DOMAIN entries
                         /\ EntryOf(entries[Cardinality({j \in Shown(q) : j <= i})], q, walk, i)
  /\ \A k \in DOMAIN entries : \E i \in Shown(q) : EntryOf(entries[k], q, walk, i)

LEMMA LogEntries ==
  ASSUME TypeInv, NEW q, NEW walk, NEW last, LogOf(q, walk, last)
  PROVE  EntriesOf(branch_entries(Taken(walk, Published, q.test, last)), q, walk)
  <1> DEFINE commits == Taken(walk, Published, q.test, last)
             I == {i \in DOMAIN commits : DOMAIN commits[i].tests # {}}
             tested == Picked(commits, I)
             entry(c) == [commit |-> c.id, nr |-> [s \in Status |-> count_status(c.tests, s)]]
             entries == branch_entries(commits)
  <1>1. entries = [i \in DOMAIN tested |-> entry(tested[i])]
    BY Zenon DEF branch_entries
  <1>2. /\ walk \in Seq(Commits) /\ last \in 0..Len(walk) /\ last \in Nat
        /\ Shown(q) = {i \in 1..last : DOMAIN filter_results(Published[walk[i]], q.test) # {}}
    <2>1. /\ walk \in Seq(Commits) /\ last \in 0..Len(walk)
          /\ Shown(q) = {i \in 1..last : DOMAIN filter_results(Published[walk[i]], q.test) # {}}
      BY Zenon DEF LogOf
    <2>2. QED
      BY <2>1
  <1>3. /\ DOMAIN commits = 1..last
        /\ \A i \in 1..last : /\ commits[i].id = walk[i] /\ walk[i] \in Commits
                              /\ commits[i].tests = filter_results(Published[walk[i]], q.test)
    <2>1. TakenFrom(commits, walk, q.test, last)
      BY <1>2, TakenCommits
    <2>2. QED
      BY <2>1, Zenon DEF TakenFrom
  <1> HIDE DEF commits, entries
  <1>4. I = Shown(q) /\ I \in SUBSET (1..last)
    BY <1>2, <1>3
  <1> HIDE DEF I
  <1>5. PickedFrom(tested, commits, I)
    BY <1>2, <1>4, PickedElements
  <1> HIDE DEF tested
  <1>6. ASSUME NEW i \in I
        PROVE  EntryOf(entry(commits[i]), q, walk, i)
    <2> DEFINE f == commits[i].tests
    <2>1. /\ i \in 1..last /\ commits[i].id = walk[i] /\ walk[i] \in Commits
          /\ f = filter_results(Published[walk[i]], q.test)
      BY <1>3, <1>4
    <2>2. StatusesOf(f, walk[i], q.test)
      BY <2>1, FilteredStatus, Zenon
    <2> HIDE DEF f
    <2>3. ASSUME NEW s \in Status
          PROVE  {t \in DOMAIN f : f[t] = s} = {t \in q.test : StatusAt(walk[i], t) = s}
      <3>1. s # None
        BY MirrorConstantsOK
      <3>2. /\ DOMAIN f \subseteq q.test
            /\ \A t \in q.test : t \in DOMAIN f <=> StatusAt(walk[i], t) # None
            /\ \A t \in DOMAIN f : f[t] = StatusAt(walk[i], t)
        BY <2>2, Zenon DEF StatusesOf
      <3>3. QED
        BY <3>1, <3>2
    <2>4. entry(commits[i]).commit = walk[i]
      BY <2>1
    <2>5. \A s \in Status : entry(commits[i]).nr[s] = Cardinality({t \in DOMAIN f : f[t] = s})
      BY DEF count_status, f
    <2> HIDE DEF entry
    <2>6. QED
      BY <2>3, <2>4, <2>5, Zenon DEF EntryOf
  <1> HIDE DEF entry
  <1>7. DOMAIN entries = DOMAIN tested /\ \A k \in DOMAIN tested : entries[k] = entry(tested[k])
    BY <1>1, Zenon
  <1>8. /\ Cardinality(I) \in Nat /\ DOMAIN tested = 1..Cardinality(I)
        /\ \A i \in I : /\ Cardinality({j \in I : j <= i}) \in 1..Cardinality(I)
                        /\ tested[Cardinality({j \in I : j <= i})] = commits[i]
        /\ \A k \in DOMAIN tested : \E i \in I : tested[k] = commits[i]
    BY <1>5, Zenon DEF PickedFrom
  <1>9. Len(entries) = Cardinality(I)
    <2> DEFINE m == Cardinality(I)
    <2>1. m \in Nat /\ entries = [i \in 1..m |-> entry(tested[i])]
      BY <1>1, <1>8, Zenon
    <2> HIDE DEF m
    <2>2. Len(entries) = m
      BY <2>1
    <2>3. QED
      BY <2>2 DEF m
  <1>10. \A i \in I : /\ Cardinality({j \in I : j <= i}) \in DOMAIN entries
                      /\ EntryOf(entries[Cardinality({j \in I : j <= i})], q, walk, i)
    BY <1>6, <1>7, <1>8, Zenon
  <1>11. \A k \in DOMAIN entries : \E i \in I : EntryOf(entries[k], q, walk, i)
    BY <1>6, <1>7, <1>8, Zenon
  <1>12. QED
    BY <1>4, <1>7, <1>8, <1>9, <1>10, <1>11, Zenon DEF EntriesOf, entries, commits

\* The log in JSON.
LEMMA LogJson ==
  ASSUME TypeInv, FetchedInv, up, NEW q \in Logs
  PROVE  /\ Dashboard(Json(q)).kind = "log" /\ Dashboard(Json(q)).code = 200
         /\ EntriesOf(Dashboard(Json(q)).body.entries, q, Branch(<<q.user, q.branch>>))
  <1>1. PICK walk, last : LogOf(q, walk, last)
    BY LogWalked, Zenon
  <1> DEFINE commits == Taken(walk, Published, q.test, last)
             p == Json(q)
  <1>2. SameLog(p, q)
    <2>1. \E user, branch, test : q = Query(user, branch, None, test)
      BY DEF Logs
    <2>2. QED
      BY <2>1 DEF Query, Json, SameLog
  <1> HIDE DEF p
  <1>3. Dashboard(p) = LogPage(p, commits)
    BY <1>1, <1>2, LogIsPage, Zenon
  <1>4. Dashboard(p).kind = "log" /\ Dashboard(p).code = 200 /\ Dashboard(p).body.entries = branch_entries(commits)
    BY <1>3 DEF LogPage, Page
  <1>5. walk = Branch(<<q.user, q.branch>>)
    BY <1>1, Zenon DEF LogOf
  <1>6. EntriesOf(branch_entries(commits), q, walk)
    BY <1>1, LogEntries, Zenon
  <1>7. QED
    BY <1>4, <1>5, <1>6, Zenon DEF p

\* A log shows exactly the tested commits within reach, in the order of the branch and each
\* with its own counts, for any branch and any results (branch_get_results, branch_entries).
THEOREM LogHolds == Spec => []LogShowsTested
  <1>1. TypeInv /\ FetchedInv => LogShowsTested
    <2>1. ASSUME TypeInv, FetchedInv, up, NEW q \in Logs
          PROVE  EntriesOf(Dashboard(Json(q)).body.entries, q, Branch(<<q.user, q.branch>>))
      BY <2>1, LogJson
    <2>2. QED
      BY <2>1, Zenon DEF LogShowsTested, EntriesOf, EntryOf
  <1>2. QED
    BY <1>1, TypeInvariant, FetchedInvariant, PTL

-----------------------------------------------------------------------------
(* The links.                                                              *)

\* A request for a commit of a branch, and its page: the commit, or a panic.
Asks(q, b, c) == Asked(q, b, c) /\ q.test \in SUBSET Tests /\ ~q.status

ShowsCommit(page, q, f) ==
  /\ page.kind = "commit" /\ page.code = 200 /\ page.body.commit = q.commit
  /\ page.body.tests = [t \in DOMAIN f |-> to_str(f[t])]
  /\ page.links = search_form(q) \cup {Query(q.user, q.branch, None, {t}) : t \in DOMAIN f}
Panics(page, q) == page.kind = "panic" /\ page.links = {} /\ Found(q) = {}

\* The page of a commit shows that commit, unless nothing is found from it on.
LEMMA CommitShown ==
  ASSUME TypeInv, FetchedInv, up, NEW b \in Fetchable, NEW i \in DOMAIN Branch(b),
         NEW q, Asks(q, b, Branch(b)[i])
  PROVE  LET f == filter_results(Published[Branch(b)[i]], q.test)
         IN /\ ShowsCommit(Dashboard(q), q, f) \/ Panics(Dashboard(q), q)
            /\ Depth > 0 /\ DOMAIN f # {} => ShowsCommit(Dashboard(q), q, f)
  <1> DEFINE walk == Branch(b)
             c == walk[i]
             f == filter_results(Published[c], q.test)
             commits == ResultsOf(repos, Published, q)
  <1>1. PICK r : HasBranch(r, b)
    BY FetchedBranch
  <1>2. walk \in Seq(Commits) /\ DOMAIN walk = 1..Len(walk) /\ Len(walk) \in Nat /\ i \in 1..Len(walk)
    <2>1. walk \in Seq(Commits)
      <3>1. Query(b[1], b[2], None, Tests).user = b[1] /\ Query(b[1], b[2], None, Tests).branch = b[2]
            /\ Query(b[1], b[2], None, Tests).commit = None
        BY DEF Query
      <3>2. QED
        BY <1>1, <3>1, LogRequest
    <2> HIDE DEF walk
    <2>2. QED
      BY <2>1 DEF walk
  <1>3. PICK w \in Seq(Commits) :
          /\ Len(w) = Len(walk) - i + 1 /\ \A k \in 1..Len(w) : w[k] = walk[i + k - 1]
          /\ commits = branch_get_results(w, Published, q.test)
          /\ Found(q) = ShownOf(w, q.test)
    <2>1. i \in 1..Len(Branch(b)) /\ Asked(q, b, Branch(b)[i])
      BY <1>2 DEF Asks
    <2>2. WalkedFrom(q, b, i)
      BY <1>1, <2>1, CommitRequest, Zenon
    <2>3. QED
      BY <2>2, Zenon DEF WalkedFrom
  <1>4. c \in Commits /\ Len(w) \in Nat /\ Len(w) >= 1 /\ w[1] = c
    <2> HIDE DEF walk
    <2>1. Len(w) \in Nat /\ Len(w) >= 1 /\ i + 1 - 1 = i
      BY <1>2, <1>3
    <2>2. QED
      BY <1>2, <1>3, <2>1
  <1>5. /\ q.user = b[1] /\ q.branch = b[2] /\ q.commit = c /\ q.test \in SUBSET Tests /\ ~q.status
        /\ b[1] # None /\ b[2] # None /\ Served(q)
    <2>1. q.user = b[1] /\ q.branch = b[2] /\ q.commit = c /\ q.test \in SUBSET Tests /\ ~q.status
      BY Zenon DEF Asks, Asked
    <2>2. b[1] # None /\ b[2] # None /\ RepoPath(q) \in DOMAIN repos
      BY <1>1, <2>1, Zenon DEF HasBranch
    <2>3. QED
      BY <2>1, <2>2, Zenon DEF Served
  <1>6. Dashboard(q) = ci_commit(repos, Published, q)
    <2>1. c # None
      BY <1>4, MirrorConstantsOK
    <2>2. QED
      BY <1>5, <2>1, Dispatched, Zenon
  <1> HIDE DEF walk, c
  <1>7. PICK last : Keeps(w, q.test, last)
    BY <1>3, <1>5, WalkShown
  <1>8. /\ last \in 0..Len(w) /\ last \in Nat /\ (last > 0 => last \in ShownOf(w, q.test))
        /\ ShownOf(w, q.test) = {k \in 1..last : DOMAIN filter_results(Published[w[k]], q.test) # {}}
        /\ commits = Taken(w, Published, q.test, last)
    <2>1. /\ last \in 0..Len(w) /\ (last > 0 => last \in ShownOf(w, q.test))
          /\ ShownOf(w, q.test) = {k \in 1..last : DOMAIN filter_results(Published[w[k]], q.test) # {}}
          /\ commits = Taken(w, Published, q.test, last)
      BY <1>3, <1>7, Zenon DEF Keeps
    <2>2. QED
      BY <1>4, <2>1
  <1>9. TakenFrom(commits, w, q.test, last)
    BY <1>3, <1>8, TakenCommits
  <1> HIDE DEF commits, f
  <1>10. commits # None /\ DOMAIN commits = 1..last /\ Len(commits) = last
    BY <1>9, Zenon DEF TakenFrom
  <1>11. CASE last = 0
    <2>1. commits = <<>>
      BY <1>9, <1>11 DEF TakenFrom
    <2>2. Dashboard(q) = Page("panic", 500, <<>>, {})
      BY <1>6, <1>10, <2>1, Zenon DEF ci_commit, commits
    <2>3. Found(q) = {}
      BY <1>3, <1>8, <1>11
    <2>4. Panics(Dashboard(q), q)
      BY <2>2, <2>3 DEF Page, Panics
    <2>5. Depth > 0 /\ DOMAIN f # {} => FALSE
      <3> SUFFICES ASSUME Depth > 0, DOMAIN f # {} PROVE 1 \in ShownOf(w, q.test)
        BY <1>3, <2>3
      <3>1. PICK t \in q.test : StatusAt(w[1], t) # None
        <4>1. StatusesOf(f, c, q.test)
          BY <1>4, FilteredStatus DEF f
        <4>2. QED
          BY <1>4, <4>1 DEF StatusesOf
      <3>2. 1 \in DOMAIN w /\ 1 <= Depth /\ MaxEmpty \in Nat /\ Depth \in Nat
        BY <1>3, <1>4, MirrorConstantsOK
      <3>3. \A k \in 1..1 : ~(k + MaxEmpty < 1)
        BY <3>2
      <3>4. QED
        BY <3>1, <3>2, <3>3, Zenon DEF ShownOf
    <2>6. QED
      BY <2>4, <2>5 DEF f, c, walk
  <1>12. CASE last # 0
    <2>1. 1 \in 1..last
      BY <1>8, <1>12
    <2>2. commits # <<>> /\ commits[1].id = c /\ commits[1].tests = f
      <3>1. commits[1].id = c /\ commits[1].tests = f
        BY <1>4, <1>9, <2>1, Zenon DEF TakenFrom, f
      <3>2. QED
        BY <1>10, <1>12, <3>1
    <2>3. Dashboard(q) =
            Page("commit", 200,
                 [commit |-> commits[1].id,
                  tests |-> [t \in DOMAIN commits[1].tests |-> to_str(commits[1].tests[t])],
                  good |-> [t \in DOMAIN commits[1].tests |-> last_good_line(commits, t)]],
                 search_form(q) \cup
                   IF q.branch = None THEN {}
                   ELSE {Query(q.user, q.branch, None, {t}) : t \in DOMAIN commits[1].tests})
      BY <1>6, <1>10, <2>2, Zenon DEF ci_commit, commits
    <2>4. ShowsCommit(Dashboard(q), q, f)
      BY <1>5, <2>2, <2>3 DEF Page, ShowsCommit
    <2>5. QED
      BY <2>4 DEF f, c, walk
  <1>13. QED
    BY <1>11, <1>12

\* The requests that the links of the dashboard lead to.
LogLink(q) ==
  \E u, b : Configured(u, b) /\ \E ts \in SUBSET Tests : q = Query(u, b, None, ts)
CommitLink(q) ==
  /\ up /\ Depth > 0
  /\ \E b \in Fetchable : \E i \in DOMAIN Branch(b), ts \in SUBSET Tests :
       /\ DOMAIN Published[Branch(b)[i]] # {}
       /\ q = Query(b[1], b[2], Branch(b)[i], ts)
HomeLink(q) ==
  \/ q = Query(None, None, None, Tests)
  \/ q = [Query(None, None, None, Tests) EXCEPT !.status = TRUE]
  \/ \E u \in DOMAIN Users : q = Query(u, None, None, Tests)

IsLink(q) == HomeLink(q) \/ LogLink(q) \/ CommitLink(q)

\* What LinksLead says of a page.
Leads(q) ==
  /\ Dashboard(q).kind = "error" => Unavailable(q)
  /\ Dashboard(q).kind = "panic" => q.commit # None /\ q.test # Tests /\ Found(q) = {}
  /\ Dashboard(q).kind = "commit" =>
       /\ Dashboard(q).body.commit = q.commit
       /\ Dashboard(q).body.tests =
            [t \in DOMAIN ReadSrv(q.commit) \cap q.test |-> to_str(ReadSrv(q.commit)[t])]
  /\ q.commit # None => Dashboard(q).kind \in {"commit", "panic"}

LEMMA CommitLeads ==
  ASSUME TypeInv, FetchedInv, NEW q, CommitLink(q)
  PROVE  Leads(q) /\ \A l \in Dashboard(q).links : IsLink(l)
  <1>1. PICK b \in Fetchable : \E i \in DOMAIN Branch(b), ts \in SUBSET Tests :
          /\ DOMAIN Published[Branch(b)[i]] # {}
          /\ q = Query(b[1], b[2], Branch(b)[i], ts)
    BY Zenon DEF CommitLink
  <1>2. PICK i \in DOMAIN Branch(b), ts \in SUBSET Tests :
          /\ DOMAIN Published[Branch(b)[i]] # {}
          /\ q = Query(b[1], b[2], Branch(b)[i], ts)
    BY <1>1, Zenon
  <1> DEFINE c == Branch(b)[i]
             f == filter_results(Published[c], q.test)
  <1>3. Asks(q, b, c) /\ q.commit = c /\ q.test = ts /\ q.user = b[1] /\ q.branch = b[2]
    BY <1>2 DEF Query, Asks, Asked
  <1>4. up /\ Depth > 0
    BY Zenon DEF CommitLink
  <1>5. /\ ShowsCommit(Dashboard(q), q, f) \/ Panics(Dashboard(q), q)
        /\ DOMAIN f # {} => ShowsCommit(Dashboard(q), q, f)
    BY <1>3, <1>4, CommitShown, Zenon
  <1>6. PICK r \in DOMAIN repos : b \in DOMAIN repos[r].tip /\ b = <<b[1], b[2]>> /\ Configured(b[1], b[2])
    BY DEF Fetchable, FetchedInv, IsFetched
  <1>7. c \in Commits /\ c # None
    <2>1. PICK o : HasBranch(o, b)
      BY FetchedBranch
    <2>2. Query(b[1], b[2], None, Tests).user = b[1] /\ Query(b[1], b[2], None, Tests).branch = b[2]
          /\ Query(b[1], b[2], None, Tests).commit = None
      BY DEF Query
    <2>3. Branch(b) \in Seq(Commits)
      BY <2>1, <2>2, LogRequest
    <2>4. QED
      BY <2>3, MirrorConstantsOK
  <1>8. DOMAIN Published[c] # {}
    BY <1>2
  <1> HIDE DEF c
  <1>9. Published[c] = ReadSrv(c) /\ Published[c] \in Results
    BY <1>7, PublishedType DEF Published
  <1>10. f = [t \in DOMAIN ReadSrv(c) \cap q.test |-> ReadSrv(c)[t]]
    BY <1>9, Zenon DEF filter_results
  <1>11. q.test = Tests => DOMAIN f # {}
    BY <1>7, <1>8, FilteredStatus, Zenon DEF StatusesOf
  <1> HIDE DEF f
  <1>12. DOMAIN f = DOMAIN ReadSrv(c) \cap q.test /\ \A t \in DOMAIN f : f[t] = ReadSrv(c)[t]
    BY <1>10
  <1>13. CASE ShowsCommit(Dashboard(q), q, f)
    <2>1. /\ Dashboard(q).kind = "commit" /\ Dashboard(q).body.commit = q.commit
          /\ Dashboard(q).body.tests = [t \in DOMAIN f |-> to_str(f[t])]
          /\ Dashboard(q).links = search_form(q) \cup {Query(q.user, q.branch, None, {t}) : t \in DOMAIN f}
      BY <1>13, Zenon DEF ShowsCommit
    <2>2. Dashboard(q).body.tests =
            [t \in DOMAIN ReadSrv(q.commit) \cap q.test |-> to_str(ReadSrv(q.commit)[t])]
      <3> DEFINE g == [t \in DOMAIN f |-> to_str(f[t])]
                 h == [t \in DOMAIN f |-> to_str(ReadSrv(c)[t])]
      <3>1. g = h
        BY <1>12
      <3>2. h = [t \in DOMAIN ReadSrv(q.commit) \cap q.test |-> to_str(ReadSrv(q.commit)[t])]
        BY <1>3, <1>12, Zenon
      <3>3. QED
        BY <2>1, <3>1, <3>2, Zenon
    <2>3. Leads(q)
      BY <2>1, <2>2 DEF Leads
    <2>4. ASSUME NEW l \in search_form(q) PROVE CommitLink(l)
      <3>1. PICK us \in SUBSET Tests : l = Query(b[1], b[2], c, us)
        BY <1>3, <2>4 DEF search_form
      <3>2. QED
        BY <1>4, <1>8, <3>1, Zenon DEF CommitLink, c
    <2>5. ASSUME NEW t \in DOMAIN f PROVE LogLink(Query(q.user, q.branch, None, {t}))
      <3>1. {t} \in SUBSET Tests
        BY <1>9, <1>12 DEF Results
      <3>2. QED
        BY <1>3, <1>6, <3>1, Zenon DEF LogLink
    <2>6. QED
      BY <2>1, <2>3, <2>4, <2>5, Zenon DEF IsLink
  <1>14. CASE ~ShowsCommit(Dashboard(q), q, f)
    <2>1. Dashboard(q).kind = "panic" /\ Dashboard(q).links = {} /\ Found(q) = {} /\ q.test # Tests
      BY <1>5, <1>11, <1>14, Zenon DEF Panics
    <2>2. QED
      BY <1>3, <1>7, <2>1 DEF Leads
  <1>15. QED
    BY <1>13, <1>14

LEMMA LogLeads ==
  ASSUME TypeInv, FetchedInv, NEW q, LogLink(q)
  PROVE  Leads(q) /\ \A l \in Dashboard(q).links : IsLink(l)
  <1>1. PICK u, br : Configured(u, br) /\ \E ts \in SUBSET Tests : q = Query(u, br, None, ts)
    BY Zenon DEF LogLink
  <1>2. PICK ts \in SUBSET Tests : q = Query(u, br, None, ts)
    BY <1>1, Zenon
  <1>3. /\ q.user = u /\ q.branch = br /\ q.commit = None /\ q.test = ts /\ ~q.status
    BY <1>2 DEF Query
  <1> DEFINE b == <<u, br>>
  <1>4. b[1] = u /\ b[2] = br
    OBVIOUS
  <1>5. u # None /\ br # None
    BY <1>1, MirrorConstantsOK DEF Configured
  <1>6. CASE Served(q) /\ b \in Fetchable
    <2>1. q \in Logs
      BY <1>2, <1>4, <1>6 DEF Logs
    <2>2. PICK walk, last : LogOf(q, walk, last)
      BY <2>1, LogWalked, Zenon
    <2>3. SameLog(q, q) /\ up
      BY <1>3, <1>6, Zenon DEF SameLog, Served
    <2> DEFINE commits == Taken(walk, Published, q.test, last)
               I == {i \in DOMAIN commits : DOMAIN commits[i].tests # {}}
    <2>4. Dashboard(q) = LogPage(q, commits)
      BY <2>2, <2>3, LogIsPage, Zenon
    <2>5. /\ walk = Branch(b) /\ walk \in Seq(Commits) /\ last \in 0..Len(walk)
          /\ Shown(q) = {i \in 1..last : DOMAIN filter_results(Published[walk[i]], q.test) # {}}
      BY <1>3, <2>2, Zenon DEF LogOf
    <2>6. /\ DOMAIN commits = 1..last
          /\ \A i \in 1..last : /\ commits[i].id = walk[i] /\ walk[i] \in Commits
                                /\ commits[i].tests = filter_results(Published[walk[i]], q.test)
      <3>1. TakenFrom(commits, walk, q.test, last)
        BY <2>5, TakenCommits
      <3>2. QED
        BY <3>1, Zenon DEF TakenFrom
    <2> HIDE DEF commits
    <2>7. /\ Dashboard(q).kind = "log"
          /\ Dashboard(q).links = search_form(q) \cup {Query(q.user, q.branch, commits[i].id, Tests) : i \in I}
      BY <2>4 DEF LogPage, Page
    <2>8. Leads(q)
      BY <1>3, <2>7 DEF Leads
    <2>9. ASSUME NEW i \in I PROVE CommitLink(Query(q.user, q.branch, commits[i].id, Tests))
      <3>1. i \in 1..last /\ DOMAIN filter_results(Published[walk[i]], q.test) # {} /\ commits[i].id = walk[i]
            /\ walk[i] \in Commits
        BY <2>6, <2>9
      <3>2. i \in Shown(q)
        BY <2>5, <3>1
      <3>3. i <= Depth
        BY <3>2, Zenon DEF Shown, ShownOf
      <3>4. Depth > 0
        BY <2>5, <3>1, <3>3, MirrorConstantsOK
      <3>5. DOMAIN Published[walk[i]] # {}
        BY <3>1 DEF filter_results
      <3>6. i \in DOMAIN Branch(b)
        BY <2>5, <3>1
      <3>7. Query(q.user, q.branch, commits[i].id, Tests) = Query(b[1], b[2], Branch(b)[i], Tests)
        BY <1>3, <1>4, <2>5, <3>1, Zenon
      <3>8. Tests \in SUBSET Tests
        OBVIOUS
      <3> HIDE DEF b
      <3>9. QED
        BY <1>6, <2>3, <2>5, <3>4, <3>5, <3>6, <3>7, <3>8, Zenon DEF CommitLink
    <2>10. ASSUME NEW l \in search_form(q) PROVE LogLink(l)
      <3>1. PICK us \in SUBSET Tests : l = Query(u, br, None, us)
        BY <1>3, <2>10 DEF search_form
      <3>2. QED
        BY <1>1, <3>1, Zenon DEF LogLink
    <2>11. QED
      BY <2>7, <2>8, <2>9, <2>10, Zenon DEF IsLink
  <1>7. CASE Served(q) /\ b \notin Fetchable
    <2> DEFINE r == RepoPath(q)
    <2>1. r \in DOMAIN repos
      BY <1>7 DEF Served
    <2> HIDE DEF r
    <2>2. b \notin DOMAIN repos[r].tip
      BY <1>7, <2>1 DEF Fetchable
    <2>3. From(repos[r], q) = 0
      BY <1>3, <2>2, Zenon DEF From
    <2>4. ResultsOf(repos, Published, q) = None
      BY <2>3, Zenon DEF ResultsOf, r
    <2>5. Dashboard(q) = ci_log(repos, Published, q)
      BY <1>3, <1>5, <1>7, Dispatched, Zenon
    <2>6. Dashboard(q) = ErrorPage(q)
      BY <2>4, <2>5, Zenon DEF ci_log
    <2>7. Dashboard(q).links = {} /\ Dashboard(q).kind = "error"
      BY <2>6 DEF ErrorPage, Page
    <2>8. Leads(q)
      BY <1>3, <1>7, <2>7 DEF Leads, Unavailable
    <2>9. QED
      BY <2>7, <2>8
  <1>8. CASE ~Served(q)
    BY <1>3, <1>8, NotServed DEF Leads, Unavailable, Served
  <1>9. QED
    BY <1>6, <1>7, <1>8

LEMMA HomeLeads ==
  ASSUME TypeInv, FetchedInv, NEW q, HomeLink(q)
  PROVE  Leads(q) /\ \A l \in Dashboard(q).links : IsLink(l)
  <1>1. q.commit = None
    BY MirrorConstantsOK DEF HomeLink, Query
  <1> SUFFICES ASSUME Served(q) PROVE Leads(q) /\ \A l \in Dashboard(q).links : IsLink(l)
    BY <1>1, NotServed DEF Leads, Unavailable, Served
  <1>2. CASE q = Query(None, None, None, Tests)
    <2>1. Dashboard(q) = ci_home(q)
      <3>1. ~q.status /\ q.user = None
        BY <1>2 DEF Query
      <3>2. QED
        BY <3>1, Dispatched, Zenon
    <2>2. /\ Dashboard(q).kind = "home"
          /\ Dashboard(q).links = {[Query(None, None, None, Tests) EXCEPT !.status = TRUE]}
                                    \cup {Query(u, None, None, Tests) : u \in DOMAIN Users}
      BY <2>1 DEF ci_home, Page
    <2>3. \A l \in Dashboard(q).links : HomeLink(l)
      BY <2>2 DEF HomeLink
    <2>4. q.commit = None
      BY <1>2 DEF Query
    <2>5. Leads(q)
      BY <2>2, <2>4 DEF Leads
    <2>6. QED
      BY <2>3, <2>5, Zenon DEF IsLink
  <1>3. CASE q = [Query(None, None, None, Tests) EXCEPT !.status = TRUE]
    <2>1. q.status /\ q.commit = None
      BY <1>3 DEF Query
    <2>2. Dashboard(q) = Page("status", 200, <<>>, {})
      BY <2>1, Dispatched, Zenon
    <2>3. Dashboard(q).kind = "status" /\ Dashboard(q).links = {}
      BY <2>2 DEF Page
    <2>4. QED
      BY <2>1, <2>3 DEF Leads
  <1>4. ASSUME NEW u \in DOMAIN Users, q = Query(u, None, None, Tests)
        PROVE  Leads(q) /\ \A l \in Dashboard(q).links : IsLink(l)
    <2>1. q.user = u /\ q.commit = None /\ q.branch = None /\ ~q.status /\ u # None
      BY <1>4, MirrorConstantsOK DEF Query
    <2>2. Dashboard(q) = ci_user(q)
      BY <2>1, Dispatched, Zenon
    <2>3. CASE Users[u] = None
      <3>1. Dashboard(q) = Page("badconfig", IF q.json THEN 500 ELSE 200, <<>>, {})
        BY <2>1, <2>2, <2>3, Zenon DEF ci_user
      <3>2. Dashboard(q).kind = "badconfig" /\ Dashboard(q).links = {}
        BY <3>1 DEF Page
      <3>3. QED
        BY <2>1, <3>2 DEF Leads
    <2>4. CASE Users[u] # None
      <3>1. Dashboard(q) = Page("user", 200, DOMAIN Users[u], {Query(u, b, None, Tests) : b \in DOMAIN Users[u]})
        BY <2>1, <2>2, <2>4, Zenon DEF ci_user
      <3>2. /\ Dashboard(q).kind = "user"
            /\ Dashboard(q).links = {Query(u, b, None, Tests) : b \in DOMAIN Users[u]}
        BY <3>1 DEF Page
      <3>3. \A b \in DOMAIN Users[u] : Configured(u, b)
        BY <2>4 DEF Configured
      <3>4. Tests \in SUBSET Tests
        OBVIOUS
      <3>5. \A l \in Dashboard(q).links : LogLink(l)
        BY <3>2, <3>3, <3>4, Zenon DEF LogLink
      <3>6. Leads(q)
        BY <2>1, <3>2 DEF Leads
      <3>7. QED
        BY <3>5, <3>6, Zenon DEF IsLink
    <2>5. QED
      BY <2>3, <2>4
  <1>5. QED
    BY <1>2, <1>3, <1>4, Zenon DEF HomeLink

\* A link or a search of the dashboard leads to an error only where nothing can be had, and
\* to a panic only when the search of a commit page finds nothing from that commit on; any
\* other link to a commit shows that commit with the results published for it: for any
\* configuration, any repos that are missing, any branches, results and patterns (cgi_main's
\* choice of the repo, search_form, ci_commit's use of the first commit).
THEOREM LinksHold == Spec => []LinksLead
  <1>1. ASSUME TypeInv, FetchedInv PROVE \A q \in Reached : Leads(q)
    <2>1. \A q : IsLink(q) => Leads(q) /\ \A l \in Dashboard(q).links : IsLink(l)
      BY <1>1, CommitLeads, LogLeads, HomeLeads, Zenon DEF IsLink
    <2>2. \A S : (\A q \in S : IsLink(q)) => \A q \in Follow(S) : IsLink(q)
      BY <2>1 DEF Follow
    <2>3. \A q \in {Query(None, None, None, Tests)} : IsLink(q)
      BY DEF IsLink, HomeLink
    <2>4. \A q \in Reached : IsLink(q)
      BY <2>2, <2>3, Zenon DEF Reached
    <2>5. QED
      BY <2>1, <2>4, Zenon
  <1>2. TypeInv /\ FetchedInv => LinksLead
    BY <1>1, Zenon DEF LinksLead, Leads
  <1>3. QED
    BY <1>2, TypeInvariant, FetchedInvariant, PTL

-----------------------------------------------------------------------------
(* What ci-status --user prints.                                           *)

\* A status is read back from its wire form, ...
LEMMA WireRead ==
  ASSUME NEW s \in Status
  PROVE  from_wire(to_str(s)) = s
  <1>1. \A x, y \in Status : to_str(x) = to_str(y) => x = y
    BY DEF Status, to_str
  <1>2. (CHOOSE x \in Status : to_str(x) = to_str(s)) = s
    BY <1>1, Zenon
  <1>3. QED
    BY <1>2, Zenon DEF from_wire

\* ... and a failure comes before all others.
LEMMA FailedFirst ==
  ASSUME NEW s \in Status, s # "Failed"
  PROVE  Rank("Failed") < Rank(s)
  BY DEF Status, Rank

\* render_show() of the results of a commit.
RenderOf(printed, f) ==
  /\ \A s \in {"Passed", "Failed", "Inprogress"} : printed.nr[s] = Cardinality({t \in DOMAIN f : f[t] = s})
  /\ \A t, u \in DOMAIN f : f[t] = "Failed" /\ f[u] # "Failed" => t \in printed.before[u]

LEMMA ShowRendered ==
  ASSUME NEW f \in Results
  PROVE  RenderOf(render_show([t \in DOMAIN f |-> to_str(f[t])]), f)
  <1> DEFINE tests == [t \in DOMAIN f |-> to_str(f[t])]
             status(t) == from_wire(tests[t])
             printed == render_show(tests)
  <1>1. \A t \in DOMAIN f : status(t) = f[t] /\ f[t] \in Status
    <2> SUFFICES ASSUME NEW t \in DOMAIN f PROVE status(t) = f[t] /\ f[t] \in Status
      OBVIOUS
    <2>1. f[t] \in Status
      BY DEF Results
    <2>2. tests[t] = to_str(f[t])
      OBVIOUS
    <2>3. QED
      BY <2>1, <2>2, WireRead
  <1>2. DOMAIN tests = DOMAIN f
    OBVIOUS
  <1>3. printed =
          [before |-> [t \in DOMAIN tests |-> {u \in DOMAIN tests : Rank(status(u)) < Rank(status(t))}],
           total |-> Cardinality(DOMAIN tests),
           nr |-> [s \in {"Passed", "Failed", "Inprogress"} |->
                     Cardinality({t \in DOMAIN tests : status(t) = s})]]
    BY Zenon DEF render_show
  <1> HIDE DEF tests, status, printed
  <1>4. /\ printed.before = [t \in DOMAIN f |-> {u \in DOMAIN f : Rank(status(u)) < Rank(status(t))}]
        /\ printed.nr = [s \in {"Passed", "Failed", "Inprogress"} |-> Cardinality({t \in DOMAIN f : status(t) = s})]
    BY <1>2, <1>3
  <1>5. ASSUME NEW s \in {"Passed", "Failed", "Inprogress"}
        PROVE  printed.nr[s] = Cardinality({t \in DOMAIN f : f[t] = s})
    <2>1. {t \in DOMAIN f : status(t) = s} = {t \in DOMAIN f : f[t] = s}
      BY <1>1
    <2>2. QED
      BY <1>4, <2>1, Zenon
  <1>6. ASSUME NEW t \in DOMAIN f, NEW u \in DOMAIN f, f[t] = "Failed", f[u] # "Failed"
        PROVE  t \in printed.before[u]
    <2>1. Rank(status(t)) < Rank(status(u))
      BY <1>1, <1>6, FailedFirst
    <2>2. QED
      BY <1>4, <2>1, Zenon
  <1>7. RenderOf(printed, f)
    BY <1>5, <1>6, Zenon DEF RenderOf
  <1>8. QED
    BY <1>7 DEF printed, tests

\* A line of a log and the commit that is printed for it.
Agrees(entry, q) ==
  LET printed == render_show(server_get(Dashboard(Json(Query(q.user, q.branch, entry.commit, Tests)))).tests)
  IN /\ \A s \in {"Passed", "Failed", "Inprogress"} : printed.nr[s] = entry.nr[s]
     /\ \A t, u \in DOMAIN ReadSrv(entry.commit) :
          ReadSrv(entry.commit)[t] = "Failed" /\ ReadSrv(entry.commit)[u] # "Failed" => t \in printed.before[u]

LEMMA EntryAgrees ==
  ASSUME TypeInv, FetchedInv, up, NEW q \in Logs, q.test = Tests, NEW e, NEW k \in Shown(q),
         EntryOf(e, q, Branch(<<q.user, q.branch>>), k)
  PROVE  Agrees(e, q)
  <1> DEFINE b == <<q.user, q.branch>>
             walk == Branch(b)
             c == walk[k]
             p == Json(Query(q.user, q.branch, c, Tests))
  <1>1. PICK wlk, last : LogOf(q, wlk, last)
    BY LogWalked, Zenon
  <1>2. /\ walk \in Seq(Commits) /\ last \in 0..Len(walk)
        /\ Shown(q) = {i \in 1..last : DOMAIN filter_results(Published[walk[i]], q.test) # {}}
    BY <1>1, Zenon DEF LogOf
  <1>3. b \in Fetchable
    BY LogQuery, Zenon
  <1>4. k \in 1..last /\ last \in Nat /\ DOMAIN filter_results(Published[c], q.test) # {}
    <2> HIDE DEF walk
    <2>1. k \in {i \in 1..last : DOMAIN filter_results(Published[walk[i]], q.test) # {}}
      BY <1>2, Zenon
    <2>2. last \in Nat
      BY <1>2
    <2>3. QED
      BY <2>1, <2>2
  <1>5. k \in DOMAIN walk /\ c \in Commits
    <2> HIDE DEF walk
    <2> QED BY <1>2, <1>4
  <1>6. Depth > 0
    <2>1. k <= Depth
      BY Zenon DEF Shown, ShownOf
    <2>2. QED
      BY <1>4, <2>1, MirrorConstantsOK
  <1>7. Asks(p, b, c) /\ p.test = Tests
    BY DEF Asks, Asked, Query, Json
  <1>8. filter_results(Published[c], p.test) = Published[c]
    <2> HIDE DEF p, c
    <2>1. StatusesOf(filter_results(Published[c], p.test), c, p.test)
      BY <1>5, FilteredStatus, Zenon
    <2>2. QED
      BY <1>7, <2>1, Zenon DEF StatusesOf
  <1>9. ShowsCommit(Dashboard(p), p, Published[c])
    <2>1. DOMAIN filter_results(Published[c], p.test) # {}
      BY <1>4, <1>7
    <2> HIDE DEF p, b
    <2>2. QED
      BY <1>3, <1>5, <1>6, <1>7, <1>8, <2>1, CommitShown, Zenon
  <1>10. e.commit = c /\ \A s \in Status : e.nr[s] = Cardinality({t \in q.test : StatusAt(c, t) = s})
    BY Zenon DEF EntryOf
  <1> HIDE DEF p, c
  <1> DEFINE f == Published[c]
             show == server_get(Dashboard(p))
             printed == render_show(show.tests)
  <1>11. f \in Results /\ f = ReadSrv(c)
    BY <1>5, PublishedType DEF Published
  <1> HIDE DEF f
  <1>12. show.tests = [t \in DOMAIN f |-> to_str(f[t])]
    BY <1>9 DEF ShowsCommit, server_get, f
  <1> HIDE DEF show
  <1>13. RenderOf(printed, f)
    BY <1>11, <1>12, ShowRendered, Zenon
  <1> HIDE DEF printed
  <1>14. ASSUME NEW s \in {"Passed", "Failed", "Inprogress"}
         PROVE  printed.nr[s] = e.nr[s]
    <2>1. s \in Status /\ s # None
      BY MirrorConstantsOK DEF Status
    <2>2. \A t : StatusAt(c, t) = IF t \in DOMAIN f THEN f[t] ELSE None
      BY <1>11, Zenon DEF StatusAt
    <2>3. DOMAIN f \subseteq Tests
      BY <1>11 DEF Results
    <2>4. {t \in DOMAIN f : f[t] = s} = {t \in q.test : StatusAt(c, t) = s}
      BY <2>1, <2>2, <2>3
    <2>5. printed.nr[s] = Cardinality({t \in DOMAIN f : f[t] = s})
      BY <1>13, Zenon DEF RenderOf
    <2>6. e.nr[s] = Cardinality({t \in q.test : StatusAt(c, t) = s})
      BY <1>10, <2>1, Zenon
    <2>7. QED
      BY <2>4, <2>5, <2>6, Zenon
  <1>15. \A t, u \in DOMAIN f : f[t] = "Failed" /\ f[u] # "Failed" => t \in printed.before[u]
    BY <1>13, Zenon DEF RenderOf
  <1>16. printed = render_show(server_get(Dashboard(Json(Query(q.user, q.branch, e.commit, Tests)))).tests)
    BY <1>10, Zenon DEF printed, show, p
  <1>17. QED
    BY <1>10, <1>11, <1>14, <1>15, <1>16, Zenon DEF Agrees

\* ci-status --user prints of each commit of a log what the log says of it, for any branch
\* and any results: as many tests that passed, failed and are in progress, and those that
\* failed before all others (server_show and render_show over the wire form of ci_commit,
\* against server_log).
THEOREM ServerShowHolds == Spec => []ServerShowAgrees
  <1>1. ASSUME TypeInv, FetchedInv, up, NEW q \in Logs, q.test = Tests
        PROVE  \A i \in DOMAIN server_get(Dashboard(Json(q))).entries :
                 Agrees(server_get(Dashboard(Json(q))).entries[i], q)
    <2> DEFINE page == Dashboard(Json(q))
    <2>1. page.kind = "log" /\ page.code = 200 /\ EntriesOf(page.body.entries, q, Branch(<<q.user, q.branch>>))
      BY <1>1, LogJson
    <2>2. server_get(page) = page.body
      BY <2>1 DEF server_get
    <2> HIDE DEF page
    <2>3. ASSUME NEW i \in DOMAIN page.body.entries PROVE Agrees(page.body.entries[i], q)
      <3> DEFINE e == page.body.entries[i]
      <3>1. PICK k \in Shown(q) : EntryOf(e, q, Branch(<<q.user, q.branch>>), k)
        BY <2>1, <2>3, Zenon DEF EntriesOf
      <3> HIDE DEF e
      <3>2. Agrees(e, q)
        BY <1>1, <3>1, EntryAgrees
      <3>3. QED
        BY <3>2 DEF e
    <2>4. QED
      BY <2>2, <2>3, Zenon DEF page
  <1>2. TypeInv /\ FetchedInv => ServerShowAgrees
    BY <1>1, Zenon DEF ServerShowAgrees, Agrees
  <1>3. QED
    BY <1>2, TypeInvariant, FetchedInvariant, PTL

=============================================================================
