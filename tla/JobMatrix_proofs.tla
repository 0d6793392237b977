--------------------------- MODULE JobMatrix_proofs ---------------------------
(***************************************************************************)
(* Proofs about the reader of the configuration (TestGroups), the cache of *)
(* test listings, the table of durations (TestDurations) and the window of *)
(* jobs (JobMatrix), for every set of configurations.                      *)
(***************************************************************************)
EXTENDS JobMatrix, Ordering_proofs

USE DEF groupVars, passVars, vars

(* The parts of a step.                                                    *)

\* A step of the passes leaves the configuration alone.
LEMMA PassKeepsGroups ==
  ASSUME Next, ~ReadConfig
  PROVE  UNCHANGED groupVars
  BY DEF Next, Edit, EditSourced, GenAvgDuration, StartPass, CacheHit, CacheMiss, ListTests, ListFails,
         StoreListing, EndPass

-----------------------------------------------------------------------------
(* The walk of resolve_group().                                            *)

\* The reader's stack is a path of unresolved groups; a name is still to come, resolved or
\* on the stack; a resolved group's parent is resolved.
WalkInv ==
  /\ outcome \in {"reading", "ok", "cycle", "undefined", "branch"}
  /\ Defined \subseteq Groups /\ left \subseteq Defined /\ Done \subseteq Defined
  /\ stack \in Seq(Defined) /\ StackIsPath
  /\ \A g \in Defined : g \in left \/ g \in Done \/ OnStack(g)
  /\ \A g \in Done : raw[g].extends = None \/ raw[g].extends \in Done

LEMMA WalkInit == Init => WalkInv
  <1> SUFFICES ASSUME NEW s \in Scenarios, GroupsInit(s) PROVE WalkInv
    BY DEF Init
  <1>1. Defined \subseteq Groups
    BY ScenariosOK DEF GroupsInit, Defined, IsScenario
  <1>2. stack = <<>> /\ stack \in Seq(Defined) /\ Len(stack) = 0
    BY DEF GroupsInit
  <1>3. DOMAIN resolved = {}
    BY DEF GroupsInit
  <1>4. QED
    BY <1>1, <1>2, <1>3 DEF WalkInv, StackIsPath, GroupsInit, Done

LEMMA WalkNextGroup ==
  ASSUME WalkInv, NEW g \in left, NextGroup(g)
  PROVE  WalkInv'
  <1> USE DEF Defined, Done
  <1>1. /\ UNCHANGED <<raw, wanted, resolved, outcome>> /\ left' = left \ {g} /\ stack = <<>>
        /\ stack' = IF g \in Done THEN stack ELSE <<g>>
        /\ g \in Defined
    BY DEF NextGroup, WalkInv
  <1>2. CASE g \in Done
    BY <1>1, <1>2 DEF WalkInv, StackIsPath, OnStack
  <1>3. CASE g \notin Done
    <2>1. stack' = <<g>> /\ stack' \in Seq(Defined) /\ Len(stack') = 1 /\ stack'[1] = g
      BY <1>1, <1>3
    <2>2. StackIsPath'
      BY <2>1, <1>3, <1>1 DEF StackIsPath
    <2>3. \A h \in Defined : h \in left' \/ h \in Done \/ OnStack(h)'
      <3> SUFFICES ASSUME NEW h \in Defined PROVE h \in left' \/ h \in Done \/ OnStack(h)'
        OBVIOUS
      <3>1. ~OnStack(h)
        BY <1>1 DEF OnStack
      <3>2. h = g => OnStack(h)'
        BY <2>1 DEF OnStack
      <3>3. QED
        BY <1>1, <3>1, <3>2 DEF WalkInv
    <2>4. QED
      BY <1>1, <2>1, <2>2, <2>3 DEF WalkInv
  <1>4. QED
    BY <1>2, <1>3

LEMMA WalkCallParent ==
  ASSUME WalkInv, CallParent
  PROVE  WalkInv'
  <1> USE DEF Defined, Done
  <1> PICK n \in Nat : n = Len(stack)
    BY DEF WalkInv
  <1> PICK p : p = raw[top].extends
    OBVIOUS
  <1>1. /\ UNCHANGED <<raw, wanted, left, resolved, outcome>> /\ stack' = Append(stack, p)
        /\ p \in Defined /\ p \notin Done /\ ~OnStack(p) /\ stack # <<>>
        /\ stack \in Seq(Defined)
    BY DEF CallParent, Unresolved, IsCycle, WalkInv
  <1>2. /\ n > 0 /\ Len(stack') = n + 1 /\ stack' \in Seq(Defined)
        /\ \A i \in 1..n : stack'[i] = stack[i]
        /\ stack'[n + 1] = p /\ raw[stack[n]].extends = p
    BY <1>1 DEF top
  <1>3. StackIsPath'
    <2>1. \A i \in 1..n : raw[stack'[i]].extends = stack'[i + 1]
      <3> SUFFICES ASSUME NEW i \in 1..n PROVE raw[stack'[i]].extends = stack'[i + 1]
        OBVIOUS
      <3>1. CASE i = n
        BY <1>2, <3>1
      <3>2. CASE i # n
        <4>1. i \in 1..(n - 1) /\ i + 1 \in 1..n
          BY <3>2
        <4>2. QED
          BY <4>1, <1>2 DEF WalkInv, StackIsPath
      <3>3. QED
        BY <3>1, <3>2
    <2>2. \A i \in 1..(n + 1) : stack'[i] \notin Done
      BY <1>1, <1>2 DEF WalkInv, StackIsPath
    <2>3. \A i, j \in 1..(n + 1) : stack'[i] = stack'[j] => i = j
      <3>1. \A i \in 1..n : stack[i] # p
        BY <1>1 DEF OnStack
      <3>2. QED
        BY <3>1, <1>2 DEF WalkInv, StackIsPath
    <2>4. QED
      BY <1>1, <1>2, <2>1, <2>2, <2>3 DEF StackIsPath
  <1>4. \A g \in Defined : OnStack(g) => OnStack(g)'
    BY <1>2 DEF OnStack
  <1>5. QED
    BY <1>1, <1>2, <1>3, <1>4 DEF WalkInv

LEMMA WalkReturn ==
  ASSUME WalkInv, Return
  PROVE  /\ WalkInv'
         /\ top \in Defined \ Done /\ Done' = Done \cup {top}
         /\ raw[top].extends = None \/ raw[top].extends \in Done
  <1> USE DEF Defined, Done
  <1> PICK n \in Nat : n = Len(stack)
    BY DEF WalkInv
  <1> PICK t : t = top
    OBVIOUS
  <1>1. /\ UNCHANGED <<raw, wanted, left, outcome>> /\ stack # <<>>
        /\ DOMAIN resolved' = Done \cup {t} /\ stack' = SubSeq(stack, 1, n - 1)
        /\ raw[t].extends = None \/ raw[t].extends \in Done
        /\ stack \in Seq(Defined)
    BY DEF Return, Unresolved, WalkInv
  <1>2. /\ n > 0 /\ Len(stack') = n - 1 /\ stack' \in Seq(Defined)
        /\ \A i \in 1..(n - 1) : stack'[i] = stack[i]
        /\ stack[n] = t /\ t \in Defined
    BY <1>1 DEF top
  <1>3. t \notin Done
    BY <1>2 DEF WalkInv, StackIsPath
  <1>4. StackIsPath'
    <2>1. \A i \in 1..(n - 1) : stack'[i] # t /\ stack'[i] \notin Done
      BY <1>2 DEF WalkInv, StackIsPath
    <2>2. \A i \in 1..(n - 2) : raw[stack'[i]].extends = stack'[i + 1]
      <3> SUFFICES ASSUME NEW i \in 1..(n - 2) PROVE raw[stack'[i]].extends = stack'[i + 1]
        OBVIOUS
      <3>1. i \in 1..(n - 1) /\ i + 1 \in 1..(n - 1)
        BY <1>2
      <3>2. QED
        BY <3>1, <1>2 DEF WalkInv, StackIsPath
    <2>3. \A i, j \in 1..(n - 1) : stack'[i] = stack'[j] => i = j
      BY <1>2 DEF WalkInv, StackIsPath
    <2>4. QED
      BY <1>1, <1>2, <2>1, <2>2, <2>3 DEF StackIsPath
  <1>5. \A g \in Defined : OnStack(g) => g = t \/ OnStack(g)'
    <2> SUFFICES ASSUME NEW g \in Defined, OnStack(g), g # t PROVE OnStack(g)'
      OBVIOUS
    <2>1. PICK i \in 1..n : stack[i] = g
      BY DEF OnStack
    <2>2. i \in 1..(n - 1)
      BY <2>1, <1>2
    <2>3. QED
      BY <2>1, <2>2, <1>2 DEF OnStack
  <1>6. WalkInv'
    BY <1>1, <1>2, <1>4, <1>5 DEF WalkInv
  <1>7. QED
    BY <1>1, <1>2, <1>3, <1>6

LEMMA WalkNext == WalkInv /\ [Next]_vars => WalkInv'
  <1> SUFFICES ASSUME WalkInv, [Next]_vars PROVE WalkInv'
    OBVIOUS
  <1> USE DEF Defined, Done
  <1>1. CASE UNCHANGED groupVars
    BY <1>1 DEF WalkInv, StackIsPath, OnStack
  <1>2. CASE ReadConfig
    <2>1. CASE \E g \in left : NextGroup(g)
      BY <2>1, WalkNextGroup
    <2>2. CASE ParentIsCycle \/ ParentUndefined \/ CheckBranches
      BY <2>2 DEF ParentIsCycle, ParentUndefined, CheckBranches, WalkInv, StackIsPath, OnStack
    <2>3. QED
      BY <1>2, <2>1, <2>2, WalkCallParent, WalkReturn DEF ReadConfig, GroupsNext
  <1>3. QED
    BY <1>1, <1>2, PassKeepsGroups

LEMMA WalkInvariant == Spec => []WalkInv
  BY WalkInit, WalkNext, PTL DEF Spec

\* The calls of resolve_group() in progress follow `extends`, hold no group twice and none
\* that is resolved: on every configuration the recursion ends.
THEOREM WalkEnds == Spec => []StackIsPath
  <1>1. WalkInv => StackIsPath
    BY DEF WalkInv
  <1>2. QED
    BY <1>1, WalkInvariant, PTL

-----------------------------------------------------------------------------
(* The cache of listings.                                                  *)

\* The listings since the file's mtime was set have the present one, and no other when the
\* test lists from its own file; the mtime that get_subtests() took is no newer than the
\* file, and a listing taken under the file's present mtime is empty or one of these.
CacheInv ==
  /\ pc \in {"idle", "stat", "list", "store"}
  /\ edits \in 0..MaxEdits /\ failures \in 0..MaxFailures
  /\ DOMAIN cache = DOMAIN file
  /\ \A t \in DOMAIN file :
       /\ file[t].mtime \in Nat /\ file[t].content \in file[t].since
       /\ t \notin site.sourcing => file[t].since = {file[t].content}
       /\ cache[t] = None \/ cache[t].mtime \in 0..file[t].mtime
       /\ cache[t] # None /\ cache[t].mtime = file[t].mtime => cache[t].list \in file[t].since
       /\ pc \in {"list", "store"} /\ t = Head(rows).test => mtime \in 0..file[t].mtime
       /\ pc = "store" /\ t = Head(rows).test /\ mtime = file[t].mtime =>
            listing = <<>> \/ listing \in file[t].since

LEMMA CacheInit == Init => CacheInv
  BY ScenariosOK DEF Init, CacheInv

LEMMA CacheEdit ==
  ASSUME CacheInv, NEW t \in DOMAIN file, Edit(t) \/ EditSourced(t)
  PROVE  CacheInv'
  <1>1. /\ UNCHANGED <<site, cache, pc, rows, mtime, listing, failures>>
        /\ edits < MaxEdits /\ edits' = edits + 1
    BY DEF Edit, EditSourced
  <1>2. file[t].mtime \in Nat /\ edits' \in 0..MaxEdits
    BY <1>1, ScenariosOK DEF CacheInv
  <1>3. /\ DOMAIN file' = DOMAIN file
        /\ \A u \in DOMAIN file : u # t => file'[u] = file[u]
        /\ \/ /\ file'[t].mtime = file[t].mtime + 1
              /\ file'[t].since = {file'[t].content}
           \/ /\ file'[t].mtime = file[t].mtime /\ t \in site.sourcing
              /\ file'[t].since = file[t].since \cup {file'[t].content}
    <2>1. CASE Edit(t)
      <3>1. PICK content : file' = [file EXCEPT ![t] = [content |-> content,
                                      mtime |-> file[t].mtime + 1, since |-> {content}]]
        BY <2>1 DEF Edit
      <3>2. QED
        BY <3>1
    <2>2. CASE EditSourced(t)
      <3>1. PICK content : file' = [file EXCEPT ![t] = [content |-> content,
                                      mtime |-> file[t].mtime,
                                      since |-> file[t].since \cup {content}]]
        BY <2>2 DEF EditSourced
      <3>2. t \in site.sourcing
        BY <2>2 DEF EditSourced
      <3>3. QED
        BY <3>1, <3>2
    <2>3. QED
      BY <2>1, <2>2
  <1>4. ASSUME NEW u \in DOMAIN file
        PROVE  /\ file'[u].mtime \in Nat /\ file'[u].content \in file'[u].since
               /\ u \notin site.sourcing => file'[u].since = {file'[u].content}
               /\ cache[u] = None \/ cache[u].mtime \in 0..file'[u].mtime
               /\ cache[u] # None /\ cache[u].mtime = file'[u].mtime =>
                    cache[u].list \in file'[u].since
               /\ pc \in {"list", "store"} /\ u = Head(rows).test => mtime \in 0..file'[u].mtime
               /\ pc = "store" /\ u = Head(rows).test /\ mtime = file'[u].mtime =>
                    listing = <<>> \/ listing \in file'[u].since
    <2>1. CASE u # t
      BY <1>3, <2>1 DEF CacheInv
    <2>2. CASE u = t
      BY <1>2, <1>3, <2>2 DEF CacheInv
    <2>3. QED
      BY <2>1, <2>2
  <1>5. QED
    BY <1>1, <1>2, <1>3, <1>4 DEF CacheInv

LEMMA CacheStore ==
  ASSUME CacheInv, StoreListing
  PROVE  CacheInv'
  <1> PICK h : h = Head(rows).test
    OBVIOUS
  <1>1. /\ UNCHANGED <<site, file, edits, failures>> /\ pc = "store" /\ pc' = "stat"
        /\ cache' = IF listing = <<>> THEN cache
                    ELSE [cache EXCEPT ![h] = [list |-> listing, mtime |-> mtime]]
    BY DEF StoreListing, Cached, Tag
  <1>2. DOMAIN cache' = DOMAIN file
    BY <1>1 DEF CacheInv
  <1>3. ASSUME NEW u \in DOMAIN file
        PROVE  /\ cache'[u] = None \/ cache'[u].mtime \in 0..file[u].mtime
               /\ cache'[u] # None /\ cache'[u].mtime = file[u].mtime =>
                    cache'[u].list \in file[u].since
    <2>1. CASE u # h \/ listing = <<>>
      BY <1>1, <2>1 DEF CacheInv
    <2>2. CASE u = h /\ listing # <<>>
      <3>1. cache'[u] = [list |-> listing, mtime |-> mtime]
        BY <1>1, <2>2 DEF CacheInv
      <3>2. QED
        BY <3>1, <1>1, <2>2 DEF CacheInv
    <2>3. QED
      BY <2>1, <2>2
  <1>4. QED
    BY <1>1, <1>2, <1>3 DEF CacheInv

LEMMA CacheNext == CacheInv /\ [Next]_vars => CacheInv'
  <1> SUFFICES ASSUME CacheInv, [Next]_vars PROVE CacheInv'
    OBVIOUS
  <1>1. CASE ReadConfig \/ UNCHANGED vars
    BY <1>1 DEF ReadConfig, CacheInv
  <1>2. CASE \E t \in DOMAIN file : Edit(t) \/ EditSourced(t)
    BY <1>2, CacheEdit
  <1>3. CASE GenAvgDuration
    BY <1>3 DEF GenAvgDuration, CacheInv
  <1>4. CASE StartPass
    BY <1>4 DEF StartPass, CacheInv
  <1>5. CASE CacheHit
    BY <1>5 DEF CacheHit, CacheInv
  <1>6. CASE CacheMiss
    BY <1>6 DEF CacheMiss, CacheInv
  <1>7. CASE ListTests
    BY <1>7 DEF ListTests, CacheInv
  <1>8. CASE ListFails
    BY <1>8, ScenariosOK DEF ListFails, CacheInv
  <1>9. CASE EndPass
    BY <1>9 DEF EndPass, CacheInv
  <1>10. QED
    BY <1>1, <1>2, <1>3, <1>4, <1>5, <1>6, <1>7, <1>8, <1>9, CacheStore DEF Next

LEMMA CacheInvariant == Spec => []CacheInv
  BY CacheInit, CacheNext, PTL DEF Spec

\* get_subtests() never answers from the cache with a list older than the file's mtime,
\* whatever edits of the file, or of what it lists from, fall between the stat, the listing
\* and the store of a pass; a test that lists from its own file gets its present list.
THEOREM CacheCurrent == Spec => []CacheIsCurrent
  <1>1. CacheInv => CacheIsCurrent
    BY DEF CacheInv, CacheIsCurrent
  <1>2. QED
    BY <1>1, CacheInvariant, PTL

\* The reader and the passes stay within their types: the loop, the stack and the result
\* of userrc_read_str() name defined groups only, and no cache entry is newer than its file.
THEOREM TypeCorrect == Spec => []TypeOK
  <1>1. WalkInv /\ CacheInv => TypeOK
    BY DEF WalkInv, CacheInv, TypeOK
  <1>2. QED
    BY <1>1, WalkInvariant, CacheInvariant, PTL

-----------------------------------------------------------------------------
(* Ancestors.                                                              *)

LEMMA DepthIsNat == Depth \in Nat
  BY ScenariosOK, FS_CardinalityType DEF Depth

\* The recursion that Ancestor is made of has a solution.
LEMMA AncestorsExist ==
  ASSUME NEW g
  PROVE  \E up : up = [n \in 0..Depth |-> IF n = 0 THEN g ELSE Parent(up[n - 1])]
  <1> DEFINE Upto(up, k) == up = [n \in 0..k |-> IF n = 0 THEN g ELSE Parent(up[n - 1])]
             T == {k \in Nat : \E up : Upto(up, k)}
  <1>1. 0 \in T
    <2>1. Upto([n \in 0..0 |-> g], 0)
      OBVIOUS
    <2>2. QED
      BY <2>1
  <1>2. ASSUME NEW k \in Nat, k \in T PROVE k + 1 \in T
    <2>1. PICK up : Upto(up, k)
      BY <1>2
    <2> DEFINE more == [n \in 0..(k + 1) |-> IF n = k + 1 THEN Parent(up[k]) ELSE up[n]]
    <2>2. \A n \in 0..(k + 1) : more[n] = IF n = 0 THEN g ELSE Parent(more[n - 1])
      <3> SUFFICES ASSUME NEW n \in 0..(k + 1)
                   PROVE  more[n] = IF n = 0 THEN g ELSE Parent(more[n - 1])
        OBVIOUS
      <3>1. CASE n = k + 1
        <4>1. more[n] = Parent(up[k]) /\ more[n - 1] = up[k] /\ n # 0
          BY <3>1
        <4>2. QED
          BY <4>1
      <3>2. CASE n # k + 1 /\ n # 0
        <4>1. n \in 0..k /\ n - 1 \in 0..(k + 1) /\ n - 1 # k + 1
          BY <3>2
        <4>2. more[n] = up[n] /\ more[n - 1] = up[n - 1]
          BY <4>1
        <4>3. up[n] = Parent(up[n - 1])
          BY <2>1, <4>1, <3>2
        <4>4. QED
          BY <4>2, <4>3, <3>2
      <3>3. CASE n # k + 1 /\ n = 0
        <4>1. more[n] = up[n] /\ n \in 0..k
          BY <3>3
        <4>2. up[n] = g
          BY <4>1, <2>1, <3>3
        <4>3. QED
          BY <4>1, <4>2, <3>3
      <3>4. QED
        BY <3>1, <3>2, <3>3
    <2>3. Upto(more, k + 1)
      <3>1. more = [n \in 0..(k + 1) |-> more[n]]
        OBVIOUS
      <3> HIDE DEF more
      <3>2. QED
        BY <2>2, <3>1
    <2> HIDE DEF more, Upto
    <2>4. QED
      BY <2>3
  <1> HIDE DEF Upto
  <1>3. Nat \subseteq T
    <2> HIDE DEF T
    <2>1. QED
      BY <1>1, <1>2, SetInduction
  <1>4. \E up : Upto(up, Depth)
    BY <1>3, DepthIsNat
  <1>5. QED
    BY <1>4 DEF Upto

LEMMA AncestorStep ==
  ASSUME NEW g
  PROVE  /\ Ancestor(g, 0) = g
         /\ \A n \in 0..Depth : n # 0 => Ancestor(g, n) = Parent(Ancestor(g, n - 1))
  <1> DEFINE up == CHOOSE f : f = [n \in 0..Depth |-> IF n = 0 THEN g ELSE Parent(f[n - 1])]
  <1>1. up = [n \in 0..Depth |-> IF n = 0 THEN g ELSE Parent(up[n - 1])]
    BY AncestorsExist, Zenon
  <1>2. \A n : Ancestor(g, n) = up[n]
    BY Zenon DEF Ancestor
  <1> HIDE DEF up
  <1>3. \A n \in 0..Depth : up[n] = IF n = 0 THEN g ELSE Parent(up[n - 1])
    BY <1>1, Zenon
  <1>4. 0 \in 0..Depth
    BY DepthIsNat
  <1>5. up[0] = g
    BY <1>3, <1>4, Zenon
  <1>6. ASSUME NEW n \in 0..Depth, n # 0
        PROVE  Ancestor(g, n) = Parent(Ancestor(g, n - 1))
    BY <1>2, <1>3, <1>6, Zenon
  <1>7. QED
    BY <1>2, <1>5, <1>6, Zenon

\* The ancestors stay as long as the configuration does.
LEMMA AncestorsKept ==
  ASSUME UNCHANGED raw
  PROVE  \A g, i : Ancestor(g, i)' = Ancestor(g, i)
  BY DEF Ancestor, Parent, Defined

\* An ancestor of the parent is one of the group, one further away.
LEMMA AncestorShift ==
  ASSUME NEW g, NEW n \in 0..Depth, n # 0
  PROVE  Ancestor(g, n) = Ancestor(Parent(g), n - 1)
  <1> PICK p : p = Parent(g)
    OBVIOUS
  <1> PICK d \in Nat : d = Depth
    BY DepthIsNat
  <1> DEFINE T == {k \in Nat : k < d => Ancestor(g, k + 1) = Ancestor(p, k)}
  <1>1. 0 \in T
    <2> SUFFICES ASSUME 0 < d PROVE Ancestor(g, 0 + 1) = Ancestor(p, 0)
      OBVIOUS
    <2>1. 0 + 1 = 1 /\ 1 \in 0..Depth /\ 1 # 0 /\ 1 - 1 = 0
      OBVIOUS
    <2>2. Ancestor(g, 1) = Parent(Ancestor(g, 1 - 1))
      BY <2>1, AncestorStep
    <2>3. QED
      BY <2>1, <2>2, AncestorStep
  <1>2. ASSUME NEW k \in Nat, k \in T PROVE k + 1 \in T
    <2> SUFFICES ASSUME k + 1 < d PROVE Ancestor(g, k + 1 + 1) = Ancestor(p, k + 1)
      OBVIOUS
    <2>1. /\ k + 1 \in 0..Depth /\ k + 1 # 0 /\ (k + 1) - 1 = k
          /\ k + 1 + 1 \in 0..Depth /\ k + 1 + 1 # 0 /\ (k + 1 + 1) - 1 = k + 1
      OBVIOUS
    <2>2. Ancestor(g, k + 1) = Ancestor(p, k)
      BY <1>2
    <2>3. Ancestor(g, k + 1 + 1) = Parent(Ancestor(g, k + 1))
      BY <2>1, AncestorStep
    <2>4. Ancestor(p, k + 1) = Parent(Ancestor(p, k))
      <3>1. Ancestor(p, k + 1) = Parent(Ancestor(p, (k + 1) - 1))
        BY <2>1, AncestorStep, Zenon
      <3>2. QED
        BY <2>1, <3>1, Zenon
    <2>5. QED
      BY <2>2, <2>3, <2>4
  <1>3. Nat \subseteq T
    <2> HIDE DEF T
    <2>1. QED
      BY <1>1, <1>2, SetInduction
  <1>4. n - 1 \in Nat /\ n - 1 < d /\ (n - 1) + 1 = n
    OBVIOUS
  <1>5. n - 1 \in T
    BY <1>3, <1>4
  <1>6. QED
    BY <1>4, <1>5

\* A group set that is closed under Parent holds the ancestors of its members.
LEMMA AncestorsClosed ==
  ASSUME NEW S, NEW g \in S, \A a \in S : Parent(a) \in S
  PROVE  \A n \in 0..Depth : Ancestor(g, n) \in S
  <1> PICK d \in Nat : d = Depth
    BY DepthIsNat
  <1> DEFINE T == {k \in Nat : k <= d => Ancestor(g, k) \in S}
  <1>1. 0 \in T
    BY AncestorStep
  <1>2. ASSUME NEW k \in Nat, k \in T PROVE k + 1 \in T
    <2> SUFFICES ASSUME k + 1 <= d PROVE Ancestor(g, k + 1) \in S
      OBVIOUS
    <2>1. k + 1 \in 0..Depth /\ k + 1 # 0 /\ (k + 1) - 1 = k /\ k <= d
      OBVIOUS
    <2>2. Ancestor(g, k + 1) = Parent(Ancestor(g, k))
      BY <2>1, AncestorStep
    <2>3. QED
      BY <2>1, <2>2, <1>2
  <1>3. Nat \subseteq T
    <2> HIDE DEF T
    <2>1. QED
      BY <1>1, <1>2, SetInduction
  <1>4. QED
    BY <1>3

LEMMA NearestSelf ==
  ASSUME NEW S, NEW g \in S
  PROVE  0 \in Nearest(g, S)
  BY AncestorStep, DepthIsNat DEF Nearest

LEMMA NearestShift ==
  ASSUME NEW S, NEW g, g \notin S, NEW i \in Nat, i < Depth, i \in Nearest(Parent(g), S)
  PROVE  i + 1 \in Nearest(g, S)
  <1> PICK p : p = Parent(g)
    OBVIOUS
  <1> PICK d \in Nat : d = Depth
    BY DepthIsNat
  <1>1. Ancestor(p, i) \in S /\ \A j \in 0..(i - 1) : Ancestor(p, j) \notin S
    BY DEF Nearest
  <1>2. i + 1 \in 0..Depth /\ i + 1 # 0 /\ (i + 1) - 1 = i
    OBVIOUS
  <1>3. Ancestor(g, i + 1) = Ancestor(p, i)
    BY <1>2, AncestorShift
  <1>4. ASSUME NEW j \in 0..i PROVE Ancestor(g, j) \notin S
    <2>1. CASE j = 0
      BY <2>1, AncestorStep
    <2>2. CASE j # 0
      <3>1. j \in 0..Depth /\ j - 1 \in 0..(i - 1)
        BY <2>2
      <3>2. Ancestor(g, j) = Ancestor(p, j - 1)
        BY <3>1, <2>2, AncestorShift
      <3>3. QED
        BY <3>1, <3>2, <1>1
    <2>3. QED
      BY <2>1, <2>2
  <1>5. QED
    BY <1>1, <1>2, <1>3, <1>4 DEF Nearest

LEMMA NoneNearer ==
  ASSUME NEW S, NEW g, g \notin S, \A i \in 0..Depth : Ancestor(Parent(g), i) \notin S
  PROVE  \A i \in 0..Depth : Ancestor(g, i) \notin S
  <1> SUFFICES ASSUME NEW i \in 0..Depth PROVE Ancestor(g, i) \notin S
    OBVIOUS
  <1>1. CASE i = 0
    BY <1>1, AncestorStep
  <1>2. CASE i # 0
    <2>1. i - 1 \in 0..Depth
      BY <1>2, DepthIsNat
    <2>2. Ancestor(g, i) = Ancestor(Parent(g), i - 1)
      BY <1>2, AncestorShift
    <2>3. QED
      BY <2>1, <2>2
  <1>3. QED
    BY <1>1, <1>2

LEMMA NoAncestors ==
  ASSUME WalkInv
  PROVE  \A i \in 0..Depth : Ancestor(None, i) = None
  <1>1. Parent(None) = None
    BY ScenariosOK DEF WalkInv, Parent
  <1>2. \A i \in 0..Depth : Ancestor(None, i) \in {None}
    BY <1>1, AncestorsClosed
  <1>3. QED
    BY <1>2

-----------------------------------------------------------------------------
(* The flattened groups.                                                   *)

\* Resolved group g has each setting and variable from the nearest group of its chain that
\* mentions it, and the chain ends within m groups.
Settled(g, m) ==
  \A s \in Settings :
    \/ /\ \A i \in 0..Depth : Ancestor(g, i) \notin Setting(s)
       /\ resolved[g].set[s] = Default[s]
    \/ \E i \in Nearest(g, Setting(s)) :
         i < m /\ resolved[g].set[s] = raw[Ancestor(g, i)].set[s]

Exported(g, m) ==
  \A v \in EnvVars :
    \/ /\ \A i \in 0..Depth : Ancestor(g, i) \notin Exporting(v)
       /\ v \notin DOMAIN resolved[g].env
    \/ /\ v \in DOMAIN resolved[g].env
       /\ \E i \in Nearest(g, Exporting(v)) :
            i < m /\ resolved[g].env[v] = raw[Ancestor(g, i)].env[v]

EndsWithin(g, m) ==
  \E i \in 0..Depth :
    i <= m /\ Ancestor(g, i) = None /\ \A j \in 0..(i - 1) : Ancestor(g, j) \in Defined

\* How many groups are resolved bounds how far away the nearest is.
FlatInv ==
  \A g \in Done : LET m == Cardinality(Done)
                  IN Settled(g, m) /\ Exported(g, m) /\ EndsWithin(g, m)

LEMMA RawKept ==
  ASSUME UNCHANGED raw
  PROVE  /\ Defined' = Defined
         /\ \A g, i : Ancestor(g, i)' = Ancestor(g, i)
         /\ \A s : Setting(s)' = Setting(s)
         /\ \A v : Exporting(v)' = Exporting(v)
         /\ \A g, s : Nearest(g, Setting(s))' = Nearest(g, Setting(s))
         /\ \A g, v : Nearest(g, Exporting(v))' = Nearest(g, Exporting(v))
  <1>1. Defined' = Defined
    BY DEF Defined
  <1>2. \A g, i : Ancestor(g, i)' = Ancestor(g, i)
    BY AncestorsKept
  <1>3. (\A s : Setting(s)' = Setting(s)) /\ (\A v : Exporting(v)' = Exporting(v))
    BY <1>1 DEF Setting, Exporting
  <1>4. \A g, s : Nearest(g, Setting(s))' = Nearest(g, Setting(s))
    BY <1>2, <1>3 DEF Nearest
  <1>5. \A g, v : Nearest(g, Exporting(v))' = Nearest(g, Exporting(v))
    BY <1>2, <1>3 DEF Nearest
  <1>6. QED
    BY <1>1, <1>2, <1>3, <1>4, <1>5

\* The counts that bound the distances.
LEMMA DoneBounded ==
  ASSUME WalkInv
  PROVE  IsFiniteSet(Done) /\ Cardinality(Done) \in Nat /\ Cardinality(Done) <= Depth
  <1>1. Done \subseteq Groups
    BY DEF WalkInv
  <1>2. QED
    BY <1>1, ScenariosOK, FS_Subset, FS_CardinalityType DEF Depth

\* What was settled for a group stays, and the bound may grow.
LEMMA FlatKept ==
  ASSUME UNCHANGED raw, NEW g, resolved'[g] = resolved[g], NEW m \in Nat,
         Settled(g, m), Exported(g, m), EndsWithin(g, m)
  PROVE  Settled(g, m + 1)' /\ Exported(g, m + 1)' /\ EndsWithin(g, m + 1)'
  <1>1. \A i \in 0..Depth : i \in Nat
    BY DepthIsNat
  <1>2. \A S : \A i \in Nearest(g, S) : i \in Nat
    BY <1>1 DEF Nearest
  <1>3. \A i \in Nat : (i < m => i < m + 1) /\ (i <= m => i <= m + 1)
    OBVIOUS
  <1>4. Settled(g, m + 1)'
    BY RawKept, <1>2, <1>3 DEF Settled
  <1>5. Exported(g, m + 1)'
    BY RawKept, <1>2, <1>3 DEF Exported
  <1>6. EndsWithin(g, m + 1)'
    BY RawKept, <1>1, <1>3 DEF EndsWithin
  <1>7. QED
    BY <1>4, <1>5, <1>6

\* The group that returns: its own settings first, then its parent's.
LEMMA ReturnSettles ==
  ASSUME WalkInv, NEW t \in Defined, NEW p, p = raw[t].extends, UNCHANGED raw,
         NEW m \in Nat, m + 1 <= Depth, resolved'[t] = Flattened(t),
         p = None \/ Settled(p, m)
  PROVE  Settled(t, m + 1)'
  <1> SUFFICES ASSUME NEW s \in Settings
               PROVE  \/ /\ \A i \in 0..Depth : Ancestor(t, i) \notin Setting(s)
                         /\ resolved'[t].set[s] = Default[s]
                      \/ \E i \in Nearest(t, Setting(s)) :
                           i < m + 1 /\ resolved'[t].set[s] = raw[Ancestor(t, i)].set[s]
    BY RawKept DEF Settled
  <1> PICK S : S = Setting(s)
    OBVIOUS
  <1>1. resolved'[t].set[s] = IF s \in DOMAIN raw[t].set THEN raw[t].set[s]
                             ELSE IF p = None THEN Default[s] ELSE resolved[p].set[s]
    BY DEF Flattened, Inherited
  <1>2. Parent(t) = p
    BY DEF Parent
  <1>3. CASE s \in DOMAIN raw[t].set
    <2>1. 0 \in Nearest(t, S) /\ Ancestor(t, 0) = t
      BY <1>3, NearestSelf, AncestorStep DEF Setting
    <2>2. QED
      BY <2>1, <1>1, <1>3
  <1>4. CASE s \notin DOMAIN raw[t].set /\ p = None
    <2>1. t \notin S /\ None \notin S
      BY <1>4, ScenariosOK DEF Setting, WalkInv
    <2>2. \A i \in 0..Depth : Ancestor(t, i) \notin S
      BY <2>1, <1>2, <1>4, NoAncestors, NoneNearer
    <2>3. QED
      BY <2>2, <1>1, <1>4
  <1>5. CASE s \notin DOMAIN raw[t].set /\ p # None
    <2>1. t \notin S
      BY <1>5 DEF Setting
    <2>2. CASE \A i \in 0..Depth : Ancestor(p, i) \notin S
      <3>1. \A i \in Nearest(p, S) : FALSE
        BY <2>2 DEF Nearest
      <3>2. resolved[p].set[s] = Default[s]
        BY <3>1, <1>5 DEF Settled
      <3>3. \A i \in 0..Depth : Ancestor(t, i) \notin S
        BY <2>1, <2>2, <1>2, NoneNearer
      <3>4. QED
        BY <3>2, <3>3, <1>1, <1>5
    <2>3. CASE ~ \A i \in 0..Depth : Ancestor(p, i) \notin S
      <3>1. PICK i \in Nearest(p, S) : i < m /\ resolved[p].set[s] = raw[Ancestor(p, i)].set[s]
        BY <2>3, <1>5 DEF Settled
      <3>2. i \in Nat /\ i < Depth /\ i + 1 < m + 1 /\ i + 1 \in 0..Depth /\ i + 1 # 0
            /\ (i + 1) - 1 = i
        BY <3>1, DepthIsNat DEF Nearest
      <3>3. i + 1 \in Nearest(t, S)
        BY <3>1, <3>2, <2>1, <1>2, NearestShift
      <3>4. Ancestor(t, i + 1) = Ancestor(p, i)
        BY <3>2, <1>2, AncestorShift
      <3>5. QED
        BY <3>1, <3>2, <3>3, <3>4, <1>1, <1>5
    <2>4. QED
      BY <2>2, <2>3
  <1>6. QED
    BY <1>3, <1>4, <1>5

LEMMA ReturnExports ==
  ASSUME WalkInv, NEW t \in Defined, NEW p, p = raw[t].extends, UNCHANGED raw,
         NEW m \in Nat, m + 1 <= Depth, resolved'[t] = Flattened(t),
         p = None \/ Exported(p, m)
  PROVE  Exported(t, m + 1)'
  <1> SUFFICES ASSUME NEW v \in EnvVars
               PROVE  \/ /\ \A i \in 0..Depth : Ancestor(t, i) \notin Exporting(v)
                         /\ v \notin DOMAIN resolved'[t].env
                      \/ /\ v \in DOMAIN resolved'[t].env
                         /\ \E i \in Nearest(t, Exporting(v)) :
                              i < m + 1 /\ resolved'[t].env[v] = raw[Ancestor(t, i)].env[v]
    BY RawKept DEF Exported
  <1> PICK S : S = Exporting(v)
    OBVIOUS
  <1> PICK h : h = IF p = None THEN << >> ELSE resolved[p].env
    OBVIOUS
  <1>1. /\ DOMAIN resolved'[t].env = DOMAIN raw[t].env \cup DOMAIN h
        /\ v \in DOMAIN raw[t].env => resolved'[t].env[v] = raw[t].env[v]
        /\ v \in DOMAIN h /\ v \notin DOMAIN raw[t].env => resolved'[t].env[v] = h[v]
    BY DEF Flattened, MergedEnv, InheritedEnv
  <1>2. Parent(t) = p
    BY DEF Parent
  <1>3. CASE v \in DOMAIN raw[t].env
    <2>1. 0 \in Nearest(t, S) /\ Ancestor(t, 0) = t
      BY <1>3, NearestSelf, AncestorStep DEF Exporting
    <2>2. QED
      BY <2>1, <1>1, <1>3
  <1>4. CASE v \notin DOMAIN raw[t].env /\ p = None
    <2>1. t \notin S /\ None \notin S
      BY <1>4, ScenariosOK DEF Exporting, WalkInv
    <2>2. \A i \in 0..Depth : Ancestor(t, i) \notin S
      BY <2>1, <1>2, <1>4, NoAncestors, NoneNearer
    <2>3. DOMAIN h = {}
      BY <1>4
    <2>4. QED
      BY <2>2, <2>3, <1>1, <1>4
  <1>5. CASE v \notin DOMAIN raw[t].env /\ p # None
    <2>1. t \notin S /\ h = resolved[p].env
      BY <1>5 DEF Exporting
    <2>2. CASE \A i \in 0..Depth : Ancestor(p, i) \notin S
      <3>1. \A i \in Nearest(p, S) : FALSE
        BY <2>2 DEF Nearest
      <3>2. v \notin DOMAIN h
        BY <3>1, <2>1, <1>5 DEF Exported
      <3>3. \A i \in 0..Depth : Ancestor(t, i) \notin S
        BY <2>1, <2>2, <1>2, NoneNearer
      <3>4. QED
        BY <3>2, <3>3, <1>1, <1>5
    <2>3. CASE ~ \A i \in 0..Depth : Ancestor(p, i) \notin S
      <3>1. /\ v \in DOMAIN h
            /\ \E i \in Nearest(p, S) : i < m /\ h[v] = raw[Ancestor(p, i)].env[v]
        BY <2>1, <2>3, <1>5 DEF Exported
      <3>2. PICK i \in Nearest(p, S) : i < m /\ h[v] = raw[Ancestor(p, i)].env[v]
        BY <3>1
      <3>3. i \in Nat /\ i < Depth /\ i + 1 < m + 1 /\ i + 1 \in 0..Depth /\ i + 1 # 0
            /\ (i + 1) - 1 = i
        BY <3>2, DepthIsNat DEF Nearest
      <3>4. i + 1 \in Nearest(t, S)
        BY <3>2, <3>3, <2>1, <1>2, NearestShift
      <3>5. Ancestor(t, i + 1) = Ancestor(p, i)
        BY <3>3, <1>2, AncestorShift
      <3>6. QED
        BY <3>1, <3>2, <3>3, <3>4, <3>5, <1>1, <1>5
    <2>4. QED
      BY <2>2, <2>3
  <1>6. QED
    BY <1>3, <1>4, <1>5

LEMMA ReturnEnds ==
  ASSUME WalkInv, NEW t \in Defined, NEW p, p = raw[t].extends, UNCHANGED raw,
         NEW m \in Nat, m + 1 <= Depth, p = None \/ EndsWithin(p, m)
  PROVE  EndsWithin(t, m + 1)'
  <1>1. Parent(t) = p
    BY DEF Parent
  <1>2. PICK i \in Nat : /\ i <= m /\ Ancestor(p, i) = None
                         /\ \A j \in 0..(i - 1) : Ancestor(p, j) \in Defined
    <2>1. CASE p = None
      BY <2>1, AncestorStep
    <2>2. CASE p # None
      BY <2>2, DepthIsNat DEF EndsWithin
    <2>3. QED
      BY <2>1, <2>2
  <1>3. i + 1 \in 0..Depth /\ i + 1 # 0 /\ (i + 1) - 1 = i /\ i + 1 <= m + 1
    BY <1>2, DepthIsNat
  <1>4. Ancestor(t, i + 1) = None
    BY <1>1, <1>2, <1>3, AncestorShift
  <1>5. ASSUME NEW j \in 0..i PROVE Ancestor(t, j) \in Defined
    <2>1. CASE j = 0
      BY <2>1, AncestorStep
    <2>2. CASE j # 0
      <3>1. j \in 0..Depth /\ j - 1 \in 0..(i - 1)
        BY <2>2, <1>3, DepthIsNat
      <3>2. Ancestor(t, j) = Ancestor(p, j - 1)
        BY <3>1, <2>2, <1>1, AncestorShift
      <3>3. QED
        BY <3>1, <3>2, <1>2
    <2>3. QED
      BY <2>1, <2>2
  <1>6. EndsWithin(t, m + 1)
    BY <1>3, <1>4, <1>5 DEF EndsWithin
  <1>7. QED
    BY <1>6, RawKept DEF EndsWithin

LEMMA FlatReturn ==
  ASSUME WalkInv, FlatInv, Return
  PROVE  FlatInv'
  <1> PICK m \in Nat : m = Cardinality(Done)
    BY DoneBounded
  <1> PICK t : t = top
    OBVIOUS
  <1> PICK p : p = raw[t].extends
    OBVIOUS
  <1>1. /\ WalkInv' /\ t \in Defined /\ t \notin Done /\ Done' = Done \cup {t}
        /\ p = None \/ p \in Done
    BY WalkReturn DEF Return
  <1>2. UNCHANGED raw
    BY DEF Return
  <1>3. Cardinality(Done') = m + 1 /\ m + 1 <= Depth
    <2>1. Cardinality(Done \cup {t}) = m + 1
      BY <1>1, DoneBounded, FS_AddElement
    <2>2. Done \cup {t} \subseteq Groups
      BY <1>1 DEF WalkInv
    <2>3. Cardinality(Done \cup {t}) <= Depth
      BY <2>2, ScenariosOK, FS_Subset DEF Depth
    <2>4. QED
      BY <2>1, <2>3, <1>1
  <1>4. resolved'[t] = Flattened(t) /\ \A g \in Done : resolved'[g] = resolved[g]
    BY <1>1 DEF Return
  <1>5. \A g \in Done : Settled(g, m) /\ Exported(g, m) /\ EndsWithin(g, m)
    BY DEF FlatInv
  <1>6. ASSUME NEW g \in Done'
        PROVE  Settled(g, m + 1)' /\ Exported(g, m + 1)' /\ EndsWithin(g, m + 1)'
    <2>1. CASE g \in Done
      BY <2>1, <1>2, <1>4, <1>5, FlatKept
    <2>2. CASE g = t
      <3>1. p = None \/ (Settled(p, m) /\ Exported(p, m) /\ EndsWithin(p, m))
        BY <1>1, <1>5
      <3>2. Settled(t, m + 1)'
        BY <3>1, <1>1, <1>2, <1>3, <1>4, ReturnSettles
      <3>3. Exported(t, m + 1)'
        BY <3>1, <1>1, <1>2, <1>3, <1>4, ReturnExports
      <3>4. EndsWithin(t, m + 1)'
        BY <3>1, <1>1, <1>2, <1>3, ReturnEnds
      <3>5. QED
        BY <2>2, <3>2, <3>3, <3>4
    <2>3. QED
      BY <1>1, <2>1, <2>2
  <1>7. QED
    BY <1>3, <1>6 DEF FlatInv

LEMMA FlatNext == WalkInv /\ FlatInv /\ [Next]_vars => FlatInv'
  <1> SUFFICES ASSUME WalkInv, FlatInv, [Next]_vars PROVE FlatInv'
    OBVIOUS
  <1>1. CASE Return
    BY <1>1, FlatReturn
  <1>2. CASE UNCHANGED <<raw, resolved>>
    <2>1. Done' = Done
      BY <1>2 DEF Done
    <2>2. \A g, m : /\ Settled(g, m)' = Settled(g, m) /\ Exported(g, m)' = Exported(g, m)
                    /\ EndsWithin(g, m)' = EndsWithin(g, m)
      BY <1>2, RawKept DEF Settled, Exported, EndsWithin
    <2>3. QED
      BY <2>1, <2>2 DEF FlatInv
  <1>3. CASE ReadConfig /\ ~Return
    BY <1>3, <1>2 DEF ReadConfig, GroupsNext, NextGroup, ParentIsCycle, ParentUndefined,
                      CallParent, CheckBranches
  <1>4. QED
    BY <1>1, <1>2, <1>3, PassKeepsGroups

LEMMA FlatInvariant == Spec => []FlatInv
  <1>1. Init => FlatInv
    BY DEF Init, GroupsInit, FlatInv, Done
  <1>2. QED
    BY <1>1, FlatNext, WalkInvariant, PTL DEF Spec

\* In whatever order userrc_read_str() comes to the names, a flattened group has each
\* setting and each env variable from the nearest group of its `extends` chain that
\* mentions it, and the default otherwise.
THEOREM NearestWins == Spec => []ResolvedIsNearest
  <1>1. FlatInv => ResolvedIsNearest
    <2> SUFFICES ASSUME FlatInv, NEW g \in Done
                 PROVE  /\ \A s \in Settings :
                             \/ /\ Nearest(g, Setting(s)) = {}
                                /\ resolved[g].set[s] = Default[s]
                             \/ \E i \in Nearest(g, Setting(s)) :
                                  resolved[g].set[s] = raw[Ancestor(g, i)].set[s]
                        /\ \A v \in EnvVars :
                             \/ /\ Nearest(g, Exporting(v)) = {}
                                /\ v \notin DOMAIN resolved[g].env
                             \/ /\ v \in DOMAIN resolved[g].env
                                /\ \E i \in Nearest(g, Exporting(v)) :
                                     resolved[g].env[v] = raw[Ancestor(g, i)].env[v]
      BY DEF ResolvedIsNearest
    <2>1. \A S : (\A i \in 0..Depth : Ancestor(g, i) \notin S) => Nearest(g, S) = {}
      BY DEF Nearest
    <2>2. QED
      BY <2>1 DEF FlatInv, Settled, Exported
  <1>2. QED
    BY <1>1, FlatInvariant, PTL

-----------------------------------------------------------------------------
(* The verdict on the configuration.                                       *)

\* Each outcome has its cause in the configuration as written.
OutcomeInv ==
  /\ outcome = "ok" => Done = Defined /\ wanted \subseteq Defined
  /\ outcome = "branch" => ~(wanted \subseteq Defined)
  /\ outcome = "undefined" =>
       \E g \in Defined : raw[g].extends # None /\ raw[g].extends \notin Defined
  /\ outcome = "cycle" =>
       \E S \in SUBSET Defined : S # {} /\ \A g \in S : raw[g].extends \in S

\* The stack from the group on that the innermost call extends is a cycle.
LEMMA CycleFound ==
  ASSUME WalkInv, ParentIsCycle
  PROVE  \E S \in SUBSET Defined : S # {} /\ \A g \in S : raw[g].extends \in S
  <1> PICK n \in Nat : n = Len(stack)
    BY DEF WalkInv
  <1>1. stack # <<>> /\ stack \in Seq(Defined) /\ OnStack(raw[stack[n]].extends)
    BY DEF ParentIsCycle, Unresolved, IsCycle, top, WalkInv
  <1>2. PICK k \in 1..n : stack[k] = raw[stack[n]].extends
    BY <1>1 DEF OnStack
  <1> DEFINE S == {stack[i] : i \in k..n}
  <1>3. S \subseteq Defined /\ stack[k] \in S
    BY <1>1, <1>2
  <1>4. ASSUME NEW i \in k..n PROVE raw[stack[i]].extends \in S
    <2>1. CASE i = n
      BY <2>1, <1>2, <1>3
    <2>2. CASE i # n
      <3>1. i \in 1..(n - 1) /\ i + 1 \in k..n
        BY <2>2
      <3>2. raw[stack[i]].extends = stack[i + 1]
        BY <3>1 DEF WalkInv, StackIsPath
      <3>3. QED
        BY <3>1, <3>2
    <2>3. QED
      BY <2>1, <2>2
  <1>5. \A g \in S : raw[g].extends \in S
    BY <1>4
  <1>6. QED
    BY <1>3, <1>5

LEMMA OutcomeNext == WalkInv /\ OutcomeInv /\ [Next]_vars => OutcomeInv'
  <1> SUFFICES ASSUME WalkInv, OutcomeInv, [Next]_vars PROVE OutcomeInv'
    OBVIOUS
  <1> USE DEF Defined, Done
  <1>1. CASE UNCHANGED groupVars
    BY <1>1 DEF OutcomeInv
  <1>2. CASE ReadConfig
    <2>1. CASE (\E g \in left : NextGroup(g)) \/ CallParent \/ Return
      BY <2>1 DEF NextGroup, CallParent, Unresolved, Return, OutcomeInv
    <2>2. CASE ParentIsCycle
      <3>1. outcome' = "cycle" /\ raw' = raw
        BY <2>2 DEF ParentIsCycle
      <3>2. QED
        BY <2>2, <3>1, CycleFound DEF OutcomeInv
    <2>3. CASE ParentUndefined
      <3>1. outcome' = "undefined" /\ raw' = raw /\ raw[top].extends # None
            /\ raw[top].extends \notin Defined
        BY <2>3 DEF ParentUndefined, Unresolved
      <3>2. top \in Defined
        BY <2>3 DEF ParentUndefined, Unresolved, WalkInv, top
      <3>3. QED
        BY <3>1, <3>2 DEF OutcomeInv
    <2>4. CASE CheckBranches
      <3>1. Done = Defined
        BY <2>4 DEF CheckBranches, WalkInv, OnStack
      <3>2. QED
        BY <3>1, <2>4 DEF CheckBranches, OutcomeInv
    <2>5. QED
      BY <1>2, <2>1, <2>2, <2>3, <2>4 DEF ReadConfig, GroupsNext
  <1>3. QED
    BY <1>1, <1>2, PassKeepsGroups

LEMMA OutcomeInvariant == Spec => []OutcomeInv
  <1>1. Init => OutcomeInv
    BY DEF Init, GroupsInit, OutcomeInv
  <1>2. QED
    BY <1>1, OutcomeNext, WalkInvariant, PTL DEF Spec

\* A configuration is accepted exactly when every `extends` chain ends and every group the
\* branches name is there: userrc_read_str() lets no cycle or dangling name through, sees
\* none where there is none, and leaves no group of an accepted configuration out.
THEOREM AcceptedIsWellFormed == Spec => []AcceptsWellFormed
  <1>1. WalkInv /\ FlatInv /\ OutcomeInv => AcceptsWellFormed
    <2> SUFFICES ASSUME WalkInv, FlatInv, OutcomeInv PROVE AcceptsWellFormed
      OBVIOUS
    <2>1. CASE outcome = "ok"
      <3>1. \A g \in Defined : \E i \in 0..Depth :
              Ancestor(g, i) = None /\ \A j \in 0..(i - 1) : Ancestor(g, j) \in Defined
        BY <2>1 DEF OutcomeInv, FlatInv, EndsWithin
      <3>2. QED
        BY <2>1, <3>1 DEF OutcomeInv, AcceptsWellFormed, WellFormed
    <2>2. CASE outcome = "branch"
      BY <2>2 DEF OutcomeInv, AcceptsWellFormed, WellFormed
    <2>3. CASE outcome = "undefined"
      <3>1. PICK g \in Defined : raw[g].extends # None /\ raw[g].extends \notin Defined
        BY <2>3 DEF OutcomeInv
      <3>2. ASSUME WellFormed PROVE FALSE
        <4>1. PICK i \in 0..Depth :
                Ancestor(g, i) = None /\ \A j \in 0..(i - 1) : Ancestor(g, j) \in Defined
          BY <3>2 DEF WellFormed
        <4>2. Ancestor(g, 0) = g /\ g # None
          BY AncestorStep, ScenariosOK DEF WalkInv
        <4>3. i # 0 /\ 1 \in 0..Depth /\ 1 # 0 /\ 1 - 1 = 0
          BY <4>1, <4>2, DepthIsNat
        <4>4. Ancestor(g, 1) = raw[g].extends
          BY <4>2, <4>3, AncestorStep DEF Parent
        <4>5. i # 1
          BY <4>1, <4>4, <3>1
        <4>6. 1 \in 0..(i - 1)
          BY <4>3, <4>5, DepthIsNat
        <4>7. QED
          BY <4>1, <4>4, <4>6, <3>1
      <3>3. QED
        BY <2>3, <3>2 DEF AcceptsWellFormed
    <2>4. CASE outcome = "cycle"
      <3>1. PICK S \in SUBSET Defined : S # {} /\ \A g \in S : raw[g].extends \in S
        BY <2>4 DEF OutcomeInv
      <3>2. PICK g : g \in S
        BY <3>1
      <3>3. \A a \in S : Parent(a) \in S
        BY <3>1 DEF Parent
      <3>4. \A i \in 0..Depth : Ancestor(g, i) \in S
        BY <3>2, <3>3, AncestorsClosed
      <3>5. None \notin S
        BY ScenariosOK DEF WalkInv
      <3>6. ~WellFormed
        BY <3>2, <3>4, <3>5 DEF WellFormed
      <3>7. QED
        BY <2>4, <3>6 DEF AcceptsWellFormed
    <2>5. CASE outcome = "reading"
      BY <2>5 DEF AcceptsWellFormed
    <2>6. QED
      BY <2>1, <2>2, <2>3, <2>4, <2>5 DEF WalkInv
  <1>2. QED
    BY <1>1, OutcomeInvariant, WalkInvariant, FlatInvariant, PTL

-----------------------------------------------------------------------------
(* The table of durations.                                                 *)

\* A table sorted by name.
SortedTable(table, n) ==
  /\ n \in Nat /\ Len(table) = n /\ DOMAIN table = 1..n
  /\ \A i \in 1..n : table[i].test \in Seq(Int)
  /\ \A i, j \in 1..n : i < j => LexLess(table[i].test, table[j].test)

\* What the search of rows l + 1 .. r is to find.
Hits(table, key, l, r) == {i \in (l + 1)..r : table[i].test = key}
Hit(table, key, l, r) ==
  IF Hits(table, key, l, r) = {} THEN None ELSE table[CHOOSE i \in Hits(table, key, l, r) : TRUE]

\* One step of the search.
Halve(table, key, f, w) ==
  IF w[1] >= w[2] THEN None
  ELSE IF LexLess(key, table[w[1] + (w[2] - w[1]) \div 2 + 1].test)
       THEN f[<<w[1], w[1] + (w[2] - w[1]) \div 2>>]
  ELSE IF LexLess(table[w[1] + (w[2] - w[1]) \div 2 + 1].test, key)
       THEN f[<<w[1] + (w[2] - w[1]) \div 2 + 1, w[2]>>]
  ELSE table[w[1] + (w[2] - w[1]) \div 2 + 1]

LEMMA HitOne ==
  ASSUME NEW table, NEW n, SortedTable(table, n), NEW key \in Seq(Int),
         NEW l \in 0..n, NEW r \in 0..n, NEW i \in Hits(table, key, l, r)
  PROVE  Hit(table, key, l, r) = table[i]
  <1>1. \A a, b \in Hits(table, key, l, r) : a = b
    <2> SUFFICES ASSUME NEW a \in Hits(table, key, l, r), NEW b \in Hits(table, key, l, r), a < b
                 PROVE  FALSE
      <3>1. \A a \in Hits(table, key, l, r) : a \in Int
        BY DEF Hits, SortedTable
      <3>2. QED
        BY <3>1
    <2>1. a \in 1..n /\ b \in 1..n /\ table[a].test = key /\ table[b].test = key
      BY DEF Hits, SortedTable
    <2>2. LexLess(key, key)
      BY <2>1 DEF SortedTable
    <2>3. QED
      BY <2>2, LexIrreflexive
  <1>2. (CHOOSE a \in Hits(table, key, l, r) : TRUE) = i
    BY <1>1, Zenon
  <1>3. QED
    BY <1>2, Zenon DEF Hit

\* The windows of less than d rows are searched.
Searched(f, table, key, n, d) ==
  \A a, b \in 0..n : b - a < d => f[<<a, b>>] = Hit(table, key, a, b)

\* All windows are searched.
AllSearched(f, table, key, n) == \A l, r \in 0..n : f[<<l, r>>] = Hit(table, key, l, r)

LEMMA SearchStep ==
  ASSUME NEW table, NEW n, SortedTable(table, n), NEW key \in Seq(Int), NEW f,
         NEW l \in 0..n, NEW r \in 0..n,
         Searched(f, table, key, n, r - l)
  PROVE  Halve(table, key, f, <<l, r>>) = Hit(table, key, l, r)
  <1> DEFINE h == (r - l) \div 2
             m == l + h
             T(i) == table[i].test
             w == <<l, r>>
  <1>1. /\ n \in Nat /\ \A i \in 1..n : T(i) \in Seq(Int)
        /\ \A i, j \in 1..n : i < j => LexLess(T(i), T(j))
    BY DEF SortedTable
  <1>w. w[1] = l /\ w[2] = r
    OBVIOUS
  <1>h. ASSUME ~(l >= r) PROVE h \in Int /\ 0 <= h /\ h < r - l
    <2> DEFINE d == r - l
    <2>1. d \in Nat /\ d > 0
      BY <1>1, <1>h
    <2> HIDE DEF d
    <2>2. d \div 2 \in Int /\ 0 <= d \div 2 /\ d \div 2 < d
      BY <2>1, SMT
    <2>3. QED
      BY <2>2 DEF d
  <1>s. Halve(table, key, f, w) =
          IF l >= r THEN None
          ELSE IF LexLess(key, T(m + 1)) THEN f[<<l, m>>]
          ELSE IF LexLess(T(m + 1), key) THEN f[<<m + 1, r>>]
          ELSE table[m + 1]
    <2> HIDE DEF w
    <2>1. QED
      BY <1>w, SMT DEF Halve, m, T, h
  <1>2. CASE l >= r
    <2>1. Hits(table, key, l, r) = {}
      BY <1>1, <1>2 DEF Hits
    <2>2. Hit(table, key, l, r) = None
      BY <2>1, Zenon DEF Hit
    <2> HIDE DEF w, m, h
    <2>3. QED
      BY <1>2, <2>2, <1>s, Zenon DEF w
  <1> HIDE DEF h
  <1>3. ASSUME ~(l >= r) PROVE l <= m /\ m < r /\ m \in 0..n /\ m + 1 \in 0..n /\ m + 1 \in 1..n
    BY <1>1, <1>3, <1>h
  <1> HIDE DEF m, T, w
  <1>4. CASE ~(l >= r) /\ LexLess(key, T(m + 1))
    <2>1. l <= m /\ m < r /\ m \in 0..n /\ m + 1 \in 1..n
      BY <1>3, <1>4
    <2>2. ASSUME NEW i \in (m + 1)..r PROVE T(i) # key
      <3>1. i \in 1..n
        BY <1>1, <2>1
      <3>2. T(i) = key => LexLess(T(m + 1), key) \/ i = m + 1
        BY <1>1, <2>1, <3>1
      <3>a. T(m + 1) \in Seq(Int)
        BY <1>1, <2>1
      <3>3. LexLess(T(m + 1), key) => LexLess(key, key)
        BY <1>4, <3>a, LexTransitive, Zenon
      <3>4. QED
        BY <1>4, <3>2, <3>3, LexIrreflexive, Zenon
    <2>3. Hits(table, key, l, r) = Hits(table, key, l, m)
      BY <1>1, <2>1, <2>2 DEF Hits, T
    <2>4. Halve(table, key, f, w) = f[<<l, m>>]
      BY <1>4, <1>s, Zenon
    <2>a. m - l < r - l
      BY <1>1, <2>1
    <2>5. f[<<l, m>>] = Hit(table, key, l, m)
      BY <2>1, <2>a, Zenon DEF Searched
    <2>6. QED
      BY <2>3, <2>4, <2>5, Zenon DEF Hit, w
  <1>5. CASE ~(l >= r) /\ ~LexLess(key, T(m + 1)) /\ LexLess(T(m + 1), key)
    <2>1. l <= m /\ m < r /\ m \in 0..n /\ m + 1 \in 1..n /\ m + 1 \in 0..n
      BY <1>3, <1>5
    <2>2. ASSUME NEW i \in (l + 1)..(m + 1) PROVE T(i) # key
      <3>1. i \in 1..n
        BY <1>1, <2>1
      <3>2. T(i) = key => LexLess(key, T(m + 1)) \/ i = m + 1
        BY <1>1, <2>1, <3>1
      <3>3. T(m + 1) # key
        BY <1>5, LexIrreflexive, Zenon
      <3>4. QED
        BY <1>5, <3>2, <3>3, Zenon
    <2>3. Hits(table, key, l, r) = Hits(table, key, m + 1, r)
      BY <1>1, <2>1, <2>2 DEF Hits, T
    <2>4. Halve(table, key, f, w) = f[<<m + 1, r>>]
      BY <1>5, <1>s, Zenon
    <2>a. r - (m + 1) < r - l
      BY <1>1, <2>1
    <2>5. f[<<m + 1, r>>] = Hit(table, key, m + 1, r)
      BY <2>1, <2>a, Zenon DEF Searched
    <2>6. QED
      BY <2>3, <2>4, <2>5, Zenon DEF Hit, w
  <1>6. CASE ~(l >= r) /\ ~LexLess(key, T(m + 1)) /\ ~LexLess(T(m + 1), key)
    <2>1. l <= m /\ m < r /\ m \in 0..n /\ m + 1 \in 1..n
      BY <1>3, <1>6
    <2>2. T(m + 1) = key
      <3>a. T(m + 1) \in Seq(Int)
        BY <1>1, <2>1
      <3>1. QED
        BY <1>6, <3>a, LexTotal, Zenon
    <2>3. m + 1 \in Hits(table, key, l, r)
      BY <1>1, <2>1, <2>2 DEF Hits, T
    <2>4. Halve(table, key, f, w) = table[m + 1]
      BY <1>6, <1>s, Zenon
    <2>5. QED
      BY <2>3, <2>4, HitOne DEF w
  <1>7. QED
    BY <1>2, <1>4, <1>5, <1>6, Zenon DEF w

\* The windows of a search of n rows, and the recursion of the search.
Windows(n) == (0..n) \X (0..n)
Finds(find, table, key, n) == find = [w \in Windows(n) |-> Halve(table, key, find, w)]

\* The binary search ends, and with what it is to find.
LEMMA SearchEnds ==
  ASSUME NEW table, NEW n, SortedTable(table, n), NEW key \in Seq(Int)
  PROVE  Finds([w \in Windows(n) |-> Hit(table, key, w[1], w[2])], table, key, n)
  <1> DEFINE f == [w \in Windows(n) |-> Hit(table, key, w[1], w[2])]
  <1>1. ASSUME NEW l \in 0..n, NEW r \in 0..n PROVE f[<<l, r>>] = Hit(table, key, l, r)
    <2>1. <<l, r>> \in Windows(n) /\ <<l, r>>[1] = l /\ <<l, r>>[2] = r
      BY DEF Windows
    <2>2. \A w \in Windows(n) : f[w] = Hit(table, key, w[1], w[2])
      BY Zenon
    <2> HIDE DEF f
    <2>3. f[<<l, r>>] = Hit(table, key, <<l, r>>[1], <<l, r>>[2])
      BY <2>1, <2>2, Zenon
    <2>4. QED
      BY <2>1, <2>3, Zenon
  <1> HIDE DEF f
  <1>2. ASSUME NEW w \in Windows(n) PROVE Halve(table, key, f, w) = Hit(table, key, w[1], w[2])
    <2>1. w[1] \in 0..n /\ w[2] \in 0..n /\ w = <<w[1], w[2]>>
      BY DEF Windows
    <2>a. Searched(f, table, key, n, w[2] - w[1])
      BY <1>1, Zenon DEF Searched
    <2>2. Halve(table, key, f, <<w[1], w[2]>>) = Hit(table, key, w[1], w[2])
      BY <2>1, <2>a, SearchStep, Zenon
    <2>3. QED
      BY <2>1, <2>2, Zenon
  <1>3. f = [w \in Windows(n) |-> Halve(table, key, f, w)]
    BY <1>2 DEF f
  <1>4. QED
    BY <1>3, Zenon DEF Finds, f

\* Nothing else satisfies the recursion.
LEMMA SearchOnce ==
  ASSUME NEW table, NEW n, SortedTable(table, n), NEW key \in Seq(Int), NEW f, Finds(f, table, key, n)
  PROVE  AllSearched(f, table, key, n)
  <1>0. n \in Nat
    BY DEF SortedTable
  <1>1. ASSUME NEW l \in 0..n, NEW r \in 0..n PROVE f[<<l, r>>] = Halve(table, key, f, <<l, r>>)
    <2>1. <<l, r>> \in Windows(n)
      BY DEF Windows
    <2>2. \A w \in Windows(n) : f[w] = Halve(table, key, f, w)
      BY DEF Finds
    <2>3. QED
      BY <2>1, <2>2, Zenon
  <1> DEFINE U == {k \in Nat : Searched(f, table, key, n, k)}
  <1>2. 0 \in U
    <2> SUFFICES ASSUME NEW l \in 0..n, NEW r \in 0..n, r - l < 0 PROVE f[<<l, r>>] = Hit(table, key, l, r)
      BY Zenon DEF Searched
    <2>1. l >= r /\ Hits(table, key, l, r) = {}
      BY <1>0 DEF Hits
    <2>2. Hit(table, key, l, r) = None
      BY <2>1, Zenon DEF Hit
    <2>3. Halve(table, key, f, <<l, r>>) = None
      BY <2>1 DEF Halve
    <2>4. QED
      BY <1>1, <2>2, <2>3, Zenon
  <1>3. ASSUME NEW k \in Nat, k \in U PROVE k + 1 \in U
    <2>1. ASSUME NEW l \in 0..n, NEW r \in 0..n, r - l < k + 1 PROVE f[<<l, r>>] = Hit(table, key, l, r)
      <3>1. Searched(f, table, key, n, r - l)
        <4> SUFFICES ASSUME NEW a \in 0..n, NEW b \in 0..n, b - a < r - l
                     PROVE  f[<<a, b>>] = Hit(table, key, a, b)
          BY Zenon DEF Searched
        <4>1. b - a < k
          BY <1>0, <2>1
        <4>2. QED
          BY <1>3, <4>1, Zenon DEF Searched
      <3>2. Halve(table, key, f, <<l, r>>) = Hit(table, key, l, r)
        BY <3>1, SearchStep, Zenon
      <3>3. QED
        BY <1>1, <3>2, Zenon
    <2>2. k + 1 \in Nat
      OBVIOUS
    <2>3. QED
      BY <2>1, <2>2, Zenon DEF Searched
  <1> HIDE DEF U
  <1>4. Nat \subseteq U
    BY <1>2, <1>3, SetInduction, Zenon
  <1>5. ASSUME NEW l \in 0..n, NEW r \in 0..n PROVE f[<<l, r>>] = Hit(table, key, l, r)
    <2>1. n + 1 \in U /\ r - l < n + 1
      BY <1>0, <1>4
    <2>2. QED
      BY <2>1, Zenon DEF U, Searched
  <1>6. QED
    BY <1>5, Zenon DEF AllSearched

\* What test_stats() returns for a sorted table.
LEMMA StatsFound ==
  ASSUME NEW table, NEW n, SortedTable(table, n), table # None, NEW key \in Seq(Int)
  PROVE  test_stats(table, key) = Hit(table, key, 0, n)
  <1> DEFINE find == CHOOSE f : Finds(f, table, key, n)
  <1>1. Len(table) = n /\ 0 \in 0..n /\ n \in 0..n
    BY DEF SortedTable
  <1>2. Finds(find, table, key, n)
    BY SearchEnds, Zenon
  <1>3. test_stats(table, key) = find[<<0, n>>]
    BY <1>1, Zenon DEF test_stats, Finds, Windows, Halve
  <1> HIDE DEF find
  <1>4. AllSearched(find, table, key, n)
    BY <1>2, SearchOnce, Zenon
  <1>5. QED
    BY <1>1, <1>3, <1>4, Zenon DEF AllSearched

-----------------------------------------------------------------------------
(* The table of gen-avg-duration is sorted.                                *)

\* Results as they are kept.
ResultsOK(results) ==
  /\ IsFiniteSet(DOMAIN results)
  /\ IsFiniteSet(UNION {DOMAIN results[c] : c \in DOMAIN results})
  /\ \A c \in DOMAIN results : \A key \in DOMAIN results[c] :
       key \in Seq(Nat) /\ results[c][key].duration \in Nat

LEMMA TableSorted ==
  ASSUME NEW results, ResultsOK(results)
  PROVE  /\ SortedTable(gen_avg_duration(results),
                        Cardinality(UNION {DOMAIN results[c] : c \in DOMAIN results}))
         /\ \A i \in DOMAIN gen_avg_duration(results) :
              \E key \in UNION {DOMAIN results[c] : c \in DOMAIN results} :
                gen_avg_duration(results)[i] = Average(results, key)
  <1> DEFINE S == UNION {DOMAIN results[c] : c \in DOMAIN results}
             n == Cardinality(S)
             R == {p \in S \X S : LexLess(p[1], p[2])}
             keys == [i \in 1..n |-> CHOOSE x \in S : Cardinality({y \in S : LexLess(y, x)}) = i - 1]
             table == gen_avg_duration(results)
  <1>1. IsFiniteSet(S) /\ n \in Nat
    BY FS_CardinalityType DEF ResultsOK
  <1>2. S \in SUBSET Seq(Int)
    <2>1. \A c \in DOMAIN results : \A key \in DOMAIN results[c] : key \in Seq(Int)
      BY DEF ResultsOK
    <2>2. QED
      BY <2>1
  <1>3. table = [i \in DOMAIN keys |-> Average(results, keys[i])]
    BY Zenon DEF gen_avg_duration, Ordered
  <1> HIDE DEF S, table
  <1>4. IsOrder(S, R) /\ \A x, y \in S : <<x, y>> \in R <=> LexLess(x, y)
    BY <1>2, LexOrder
  <1>5. Lists(keys, S, R)
    <2>1. \A x \in S : Before(S, R, x) = {y \in S : LexLess(y, x)}
      <3> HIDE DEF R
      <3>1. QED
        BY <1>4 DEF Before
    <2> HIDE DEF R, n
    <2>2. ASSUME NEW i \in 1..n
          PROVE  keys[i] = CHOOSE x \in S : Cardinality(Before(S, R, x)) = i - 1
      BY <2>1
    <2>3. QED
      BY <2>2, <1>1 DEF Lists, n
  <1> HIDE DEF R
  <1>6. DOMAIN keys = 1..n
    BY Zenon
  <1> HIDE DEF keys
  <1>7. /\ \A i \in 1..n : keys[i] \in S
        /\ \A i, j \in 1..n : i < j <=> <<keys[i], keys[j]>> \in R
    BY <1>1, <1>4, <1>5, ListedInOrder DEF n
  <1>8. table = [i \in 1..n |-> Average(results, keys[i])]
    BY <1>3, <1>6, Zenon
  <1>9. \A i \in 1..n : table[i].test = keys[i]
    BY <1>8 DEF Average
  <1>10. DOMAIN table = 1..n /\ Len(table) = n
    <2> HIDE DEF n
    <2>1. QED
      BY <1>1, <1>8
  <1>11. \A i \in 1..n : table[i].test \in Seq(Int)
    BY <1>2, <1>7, <1>9
  <1>12. \A i, j \in 1..n : i < j => LexLess(table[i].test, table[j].test)
    BY <1>4, <1>7, <1>9
  <1>13. SortedTable(table, n)
    <2> HIDE DEF n
    <2>1. QED
      BY <1>1, <1>10, <1>11, <1>12, Zenon DEF SortedTable
  <1>14. \A i \in DOMAIN table : \E key \in S : table[i] = Average(results, key)
    BY <1>7, <1>8, <1>10
  <1>15. QED
    BY <1>13, <1>14, Zenon DEF S, n, table

-----------------------------------------------------------------------------
(* What a pass works on.                                                   *)

\* The configuration, the branches and the results are those of one scenario; the table on
\* disk, and the one that is mapped, are what gen-avg-duration made of the results.
SiteInv ==
  /\ \E s \in Scenarios :
       /\ raw = s.groups /\ wanted = s.wanted /\ DOMAIN file = DOMAIN s.files
       /\ site = [branches |-> s.branches, log |-> s.log, results |-> s.results,
                  limit |-> s.limit, sourcing |-> s.sourcing]
  /\ \A t \in DOMAIN file : file[t].content \in Seq(Nat)
  /\ durations = None \/ durations = gen_avg_duration(site.results)
  /\ mapped = None \/ mapped = gen_avg_duration(site.results)

LEMMA SiteInit == Init => SiteInv
  <1> SUFFICES ASSUME NEW s \in Scenarios,
                      GroupsInit(s),
                      site = [branches |-> s.branches, log |-> s.log, results |-> s.results,
                              limit |-> s.limit, sourcing |-> s.sourcing],
                      file = [t \in DOMAIN s.files |->
                                [content |-> s.files[t], mtime |-> 0, since |-> {s.files[t]}]],
                      durations = None, mapped = None
               PROVE  SiteInv
    BY Zenon DEF Init
  <1>1. \A t \in DOMAIN s.files : s.files[t] \in Seq(Nat)
    BY ScenariosOK DEF IsScenario
  <1>2. DOMAIN file = DOMAIN s.files /\ \A t \in DOMAIN file : file[t].content \in Seq(Nat)
    BY <1>1
  <1>3. raw = s.groups /\ wanted = s.wanted
    BY DEF GroupsInit
  <1>4. QED
    BY <1>2, <1>3, Zenon DEF SiteInv

LEMMA SiteKept == SiteInv /\ [Next]_vars => SiteInv'
  <1> SUFFICES ASSUME SiteInv, [Next]_vars PROVE SiteInv'
    OBVIOUS
  <1>1. UNCHANGED <<raw, wanted, site>>
    BY DEF Next, ReadConfig, GroupsNext, NextGroup, ParentIsCycle, ParentUndefined, CallParent,
           Return, CheckBranches, Edit, EditSourced, GenAvgDuration, StartPass, CacheHit,
           CacheMiss, ListTests, ListFails, StoreListing, EndPass
  <1>2. DOMAIN file' = DOMAIN file /\ \A t \in DOMAIN file' : file'[t].content \in Seq(Nat)
    <2>1. CASE UNCHANGED file
      BY <2>1 DEF SiteInv
    <2>2. ASSUME NEW t \in DOMAIN file, Edit(t) \/ EditSourced(t)
          PROVE  DOMAIN file' = DOMAIN file /\ \A u \in DOMAIN file' : file'[u].content \in Seq(Nat)
      <3>0. \/ \E content \in Contents :
                 file' = [file EXCEPT ![t] = [content |-> content, mtime |-> @.mtime + 1,
                                              since |-> {content}]]
            \/ \E content \in Contents :
                 file' = [file EXCEPT ![t] = [content |-> content, mtime |-> @.mtime,
                                              since |-> @.since \cup {content}]]
        BY <2>2, Zenon DEF Edit, EditSourced
      <3>1. PICK content, m, since :
              /\ content \in Contents
              /\ file' = [file EXCEPT ![t] = [content |-> content, mtime |-> m, since |-> since]]
        BY <3>0, Zenon
      <3>2. content \in Seq(Nat)
        BY <3>1, ScenariosOK
      <3>3. DOMAIN file' = DOMAIN file
        BY <3>1
      <3>4. ASSUME NEW u \in DOMAIN file PROVE file'[u].content \in Seq(Nat)
        <4>1. file'[u] = IF u = t THEN [content |-> content, mtime |-> m, since |-> since]
                         ELSE file[u]
          BY <3>1, Zenon
        <4>2. file[u].content \in Seq(Nat)
          BY DEF SiteInv
        <4>3. QED
          BY <3>2, <4>1, <4>2
      <3>5. QED
        BY <3>3, <3>4, Zenon
    <2>3. QED
      BY <2>1, <2>2 DEF Next, ReadConfig, GenAvgDuration, StartPass, CacheHit, CacheMiss,
           ListTests, ListFails, StoreListing, EndPass
  <1>3. /\ durations' = durations \/ durations' = gen_avg_duration(site.results)
        /\ mapped' = mapped \/ mapped' = durations
    BY DEF Next, ReadConfig, Edit, EditSourced, GenAvgDuration, StartPass, CacheHit, CacheMiss,
           ListTests, ListFails, StoreListing, EndPass
  <1>4. /\ durations' = None \/ durations' = gen_avg_duration(site'.results)
        /\ mapped' = None \/ mapped' = gen_avg_duration(site'.results)
    BY <1>1, <1>3 DEF SiteInv
  <1>5. \E s \in Scenarios :
          /\ raw' = s.groups /\ wanted' = s.wanted /\ DOMAIN file' = DOMAIN s.files
          /\ site' = [branches |-> s.branches, log |-> s.log, results |-> s.results,
                      limit |-> s.limit, sourcing |-> s.sourcing]
    BY <1>1, <1>2 DEF SiteInv
  <1>6. QED
    BY <1>2, <1>4, <1>5, Zenon DEF SiteInv

LEMMA SiteInvariant == Spec => []SiteInv
  BY SiteInit, SiteKept, PTL DEF Spec

\* What the scenario says of the state.
LEMMA SiteTyped ==
  ASSUME SiteInv
  PROVE  /\ ResultsOK(site.results) /\ DOMAIN file \subseteq Nat
         /\ site.limit \in Nat /\ site.branches \in Seq(Seq(wanted))
         /\ \A b \in DOMAIN site.branches : site.log[b] = None \/ site.log[b] \in Seq(Nat)
  <1>1. PICK s \in Scenarios :
          /\ raw = s.groups /\ wanted = s.wanted /\ DOMAIN file = DOMAIN s.files
          /\ site = [branches |-> s.branches, log |-> s.log, results |-> s.results,
                     limit |-> s.limit, sourcing |-> s.sourcing]
    BY Zenon DEF SiteInv
  <1>2. IsScenario(s)
    BY ScenariosOK
  <1>3. site.results = s.results /\ site.limit = s.limit /\ site.branches = s.branches /\ site.log = s.log
    BY <1>1
  <1>4. ResultsOK(s.results)
    BY <1>2, Zenon DEF IsScenario, ResultsOK
  <1>5. QED
    BY <1>1, <1>2, <1>3, <1>4, Zenon DEF IsScenario

\* The binary search of test_stats() finds a row of every table that gen-avg-duration
\* writes when there is one, and never another: the table is in the order that the search
\* assumes, whatever the results, and no test falls between two halves.
THEOREM SearchHolds == Spec => []SearchFinds
  <1>1. ASSUME SiteInv PROVE SearchFinds
    <2> DEFINE At(t, s, k) == subtest_result_key(t, s, k, <<>>)
               rowsOf(key) == {i \in DOMAIN durations : durations[i].test = key}
    <2> SUFFICES ASSUME durations # None, NEW t \in DOMAIN file, NEW s \in 0..3, NEW k \in 0..3
                 PROVE  test_stats(durations, At(t, s, k)) =
                          IF rowsOf(At(t, s, k)) = {} THEN None
                          ELSE durations[CHOOSE i \in rowsOf(At(t, s, k)) : TRUE]
      BY Zenon DEF SearchFinds
    <2> DEFINE key == At(t, s, k)
               hits == rowsOf(key)
    <2> DEFINE n == Cardinality(UNION {DOMAIN site.results[c] : c \in DOMAIN site.results})
    <2>1. SortedTable(durations, n)
      BY <1>1, SiteTyped, TableSorted DEF SiteInv
    <2>2. key \in Seq(Int)
      <3>1. t \in Int /\ s \in Int /\ k \in Int
        BY <1>1, SiteTyped
      <3>2. <<>> \in Seq(Int) /\ <<t, k>> \in Seq(Int) /\ <<0, s>> \in Seq(Int)
        BY <3>1
      <3>3. QED
        BY <3>2 DEF subtest_result_key
    <2> HIDE DEF n, At
    <2>3. test_stats(durations, key) = Hit(durations, key, 0, n)
      BY <2>1, <2>2, StatsFound, Zenon
    <2>4. hits = Hits(durations, key, 0, n)
      BY <2>1 DEF SortedTable, Hits
    <2>5. QED
      BY <2>3, <2>4, Zenon DEF Hit
  <1>2. QED
    BY <1>1, SiteInvariant, PTL

-----------------------------------------------------------------------------
(* The window of a list of jobs.                                           *)

\* A job whose fields can be compared.
IsJob(job) ==
  /\ job_weight(job) \in Int /\ job.commit \in Int /\ job.test \in Int /\ job.kernel \in Int
  /\ job.env \in Seq(Int) /\ job.duration \in Int

AreJobs(jobs, n) ==
  n \in Nat /\ DOMAIN jobs = 1..n /\ Len(jobs) = n /\ \A i \in 1..n : IsJob(jobs[i])

LEMMA ConcatHead ==
  ASSUME NEW a \in Seq(Int), NEW b \in Seq(Int), Len(a) >= 1
  PROVE  a \o b \in Seq(Int) /\ Len(a \o b) >= 1 /\ (a \o b)[1] = a[1]
  OBVIOUS

LEMMA SortKeyType ==
  ASSUME NEW job, IsJob(job)
  PROVE  SortKey(job) \in Seq(Int) /\ Len(SortKey(job)) >= 1 /\ SortKey(job)[1] = job_weight(job)
  <1> DEFINE w == job_weight(job)
             head == <<w, job.commit, job.test, job.kernel>>
             end == <<0, job.duration>>
  <1>1. head \in Seq(Int) /\ Len(head) = 4 /\ head[1] = w /\ end \in Seq(Int) /\ job.env \in Seq(Int)
    <2> HIDE DEF w
    <2>1. w \in Int /\ job.commit \in Int /\ job.test \in Int /\ job.kernel \in Int /\ job.duration \in Int
          /\ job.env \in Seq(Int)
      BY Zenon DEF IsJob, w
    <2>2. QED
      BY <2>1
  <1>2. SortKey(job) = head \o job.env \o end
    BY DEF SortKey
  <1> DEFINE both == head \o job.env
  <1> HIDE DEF head, end, w
  <1>3. both \in Seq(Int) /\ Len(both) >= 1 /\ both[1] = w
    BY <1>1, ConcatHead
  <1>4. SortKey(job) = both \o end
    BY <1>2
  <1> HIDE DEF both
  <1>5. both \o end \in Seq(Int) /\ Len(both \o end) >= 1 /\ (both \o end)[1] = w
    BY <1>1, <1>3, ConcatHead
  <1>6. QED
    BY <1>4, <1>5, Zenon DEF w

\* The weight is what a sort compares first.
LEMMA WeightFirst ==
  ASSUME NEW a, NEW b, IsJob(a), IsJob(b), job_weight(a) < job_weight(b)
  PROVE  LexLess(SortKey(a), SortKey(b))
  <1> DEFINE x == SortKey(a)
             y == SortKey(b)
  <1>1. x \in Seq(Int) /\ Len(x) >= 1 /\ y \in Seq(Int) /\ Len(y) >= 1 /\ x[1] < y[1]
    BY SortKeyType
  <1> HIDE DEF x, y
  <1>2. 1 \in 1..Len(y) /\ 1 <= Len(x) + 1 /\ \A j \in 1..(1 - 1) : x[j] = y[j]
    BY <1>1
  <1>3. LexLess(x, y)
    BY <1>1, <1>2 DEF LexLess
  <1>4. QED
    BY <1>3 DEF x, y

\* The jobs again, the lighter ones first.
ByWeight(s, jobs, n) ==
  /\ DOMAIN s = 1..n /\ Len(s) = n
  /\ \A i \in 1..n : \E j \in 1..n : s[i] = jobs[j]
  /\ \A j \in 1..n : \E i \in 1..n : s[i] = jobs[j]
  /\ \A i, j \in 1..n : i < j => job_weight(s[i]) <= job_weight(s[j])

\* The order of the positions of a stable sort.
Precedes(jobs, i, j) ==
  \/ LexLess(SortKey(jobs[i]), SortKey(jobs[j]))
  \/ SortKey(jobs[i]) = SortKey(jobs[j]) /\ i < j

SortOrder(jobs, n) == {p \in (1..n) \X (1..n) : Precedes(jobs, p[1], p[2])}

LEMMA SortIsOrder ==
  ASSUME NEW jobs, NEW n, AreJobs(jobs, n)
  PROVE  /\ IsOrder(1..n, SortOrder(jobs, n))
         /\ \A i, j \in 1..n : <<i, j>> \in SortOrder(jobs, n) <=> Precedes(jobs, i, j)
  <1> DEFINE K(i) == SortKey(jobs[i])
             P(i, j) == Precedes(jobs, i, j)
  <1>0. n \in Nat
    BY DEF AreJobs
  <1>1. \A i \in 1..n : K(i) \in Seq(Int)
    BY SortKeyType DEF AreJobs
  <1>2. \A i, j \in 1..n : <<i, j>> \in SortOrder(jobs, n) <=> P(i, j)
    BY DEF SortOrder
  <1>3. \A i, j : P(i, j) <=> LexLess(K(i), K(j)) \/ (K(i) = K(j) /\ i < j)
    BY Zenon DEF Precedes
  <1> HIDE DEF K, P
  <1>4. \A i \in 1..n : ~P(i, i)
    BY <1>1, <1>3, LexIrreflexive, <1>0
  <1>5. ASSUME NEW i \in 1..n, NEW j \in 1..n, NEW k \in 1..n, P(i, j), P(j, k) PROVE P(i, k)
    <2>1. K(i) \in Seq(Int) /\ K(j) \in Seq(Int) /\ K(k) \in Seq(Int)
      BY <1>1
    <2>2. CASE LexLess(K(i), K(j)) /\ LexLess(K(j), K(k))
      <3>1. LexLess(K(i), K(k))
        BY <2>1, <2>2, LexTransitive, Zenon
      <3>2. QED
        BY <3>1, <1>3, Zenon
    <2>3. CASE K(i) = K(j) \/ K(j) = K(k)
      <3>1. i < j /\ j < k => i < k
        BY <1>0
      <3>2. QED
        BY <1>3, <1>5, <2>3, <3>1, <1>1, LexIrreflexive
    <2>4. QED
      BY <1>3, <1>5, <2>2, <2>3, Zenon
  <1>6. \A i, j \in 1..n : i # j => P(i, j) \/ P(j, i)
    <2> SUFFICES ASSUME NEW i \in 1..n, NEW j \in 1..n, i # j PROVE P(i, j) \/ P(j, i)
      BY Zenon
    <2>1. K(i) \in Seq(Int) /\ K(j) \in Seq(Int)
      BY <1>1
    <2>2. i < j \/ j < i
      BY <1>0
    <2>3. K(i) # K(j) => LexLess(K(i), K(j)) \/ LexLess(K(j), K(i))
      BY <2>1, LexTotal, Zenon
    <2>4. QED
      BY <1>3, <2>2, <2>3, Zenon
  <1>7. IsOrder(1..n, SortOrder(jobs, n))
    BY <1>2, <1>4, <1>5, <1>6, Zenon DEF IsOrder
  <1>8. QED
    BY <1>2, <1>7, Zenon DEF P

LEMMA SortByWeight ==
  ASSUME NEW jobs, NEW n, AreJobs(jobs, n)
  PROVE  ByWeight(Sorted(jobs), jobs, n)
  <1> DEFINE S == 1..n
             R == SortOrder(jobs, n)
             Of(D, m) == [i \in 1..m |->
                            CHOOSE x \in D : Cardinality({y \in D : Precedes(jobs, y, x)}) = i - 1]
             order == Of(DOMAIN jobs, Cardinality(DOMAIN jobs))
             s == Sorted(jobs)
  <1>0. n \in Nat /\ DOMAIN jobs = 1..n /\ \A i \in 1..n : IsJob(jobs[i])
    BY DEF AreJobs
  <1>1. IsFiniteSet(1..n) /\ Cardinality(1..n) = n
    BY <1>0, FS_Interval
  <1>2. /\ IsOrder(1..n, R)
        /\ \A i, j \in 1..n : <<i, j>> \in R <=> Precedes(jobs, i, j)
    BY SortIsOrder, Zenon
  <1>3. s = [i \in DOMAIN order |-> jobs[order[i]]]
    BY Zenon DEF Sorted, Ordered, Precedes
  <1> HIDE DEF s, R
  <1>4. Lists(order, 1..n, R) /\ DOMAIN order = 1..n
    <2>1. \A x \in 1..n : Before(1..n, R, x) = {y \in 1..n : Precedes(jobs, y, x)}
      BY <1>2 DEF Before
    <2>a. order = Of(1..n, n)
      <3> HIDE DEF Of
      <3>1. QED
        BY <1>0, <1>1
    <2> HIDE DEF order
    <2>2. order = [i \in 1..n |-> CHOOSE x \in 1..n : Cardinality({y \in 1..n : Precedes(jobs, y, x)}) = i - 1]
      BY <2>a, Zenon
    <2>3. ASSUME NEW i \in 1..n
          PROVE  order[i] = CHOOSE x \in 1..n : Cardinality(Before(1..n, R, x)) = i - 1
      BY <2>1, <2>2
    <2>4. QED
      BY <1>1, <2>2, <2>3 DEF Lists
  <1> HIDE DEF order
  <1>5. /\ \A i \in 1..n : order[i] \in 1..n
        /\ \A x \in 1..n : order[Place(1..n, R, x)] = x
        /\ \A i, j \in 1..n : i < j <=> <<order[i], order[j]>> \in R
    BY <1>1, <1>2, <1>4, ListedInOrder
  <1>6. \A x \in 1..n : Place(1..n, R, x) \in 1..n
    BY <1>1, <1>2, PlaceType
  <1>7. DOMAIN s = 1..n /\ Len(s) = n /\ \A i \in 1..n : s[i] = jobs[order[i]]
    BY <1>0, <1>3, <1>4
  <1>8. \A j \in 1..n : \E i \in 1..n : s[i] = jobs[j]
    <2> TAKE j \in 1..n
    <2>1. Place(1..n, R, j) \in 1..n /\ s[Place(1..n, R, j)] = jobs[j]
      BY <1>5, <1>6, <1>7
    <2>2. QED
      BY <2>1, Zenon
  <1>9. \A i, j \in 1..n : i < j => job_weight(s[i]) <= job_weight(s[j])
    <2> SUFFICES ASSUME NEW i \in 1..n, NEW j \in 1..n, i < j
                 PROVE  job_weight(s[i]) <= job_weight(s[j])
      BY Zenon
    <2> DEFINE a == s[i]
               b == s[j]
    <2>1. IsJob(a) /\ IsJob(b)
      BY <1>0, <1>5, <1>7
    <2>2. LexLess(SortKey(a), SortKey(b)) \/ SortKey(a) = SortKey(b)
      <3>1. order[i] \in 1..n /\ order[j] \in 1..n /\ <<order[i], order[j]>> \in R
        BY <1>5, Zenon
      <3>2. Precedes(jobs, order[i], order[j])
        BY <1>2, <3>1, Zenon
      <3>3. a = jobs[order[i]] /\ b = jobs[order[j]]
        BY <1>7, Zenon
      <3>4. QED
        BY <3>2, <3>3, Zenon DEF Precedes
    <2> HIDE DEF a, b
    <2>3. ~LexLess(SortKey(b), SortKey(a))
      <3>1. SortKey(a) \in Seq(Int) /\ SortKey(b) \in Seq(Int)
        BY <2>1, SortKeyType
      <3>2. QED
        BY <2>2, <3>1, LexTransitive, LexIrreflexive
    <2>4. ~(job_weight(b) < job_weight(a))
      BY <2>1, <2>3, WeightFirst, Zenon
    <2>5. job_weight(a) <= job_weight(b)
      BY <2>1, <2>4 DEF IsJob
    <2>6. QED
      BY <2>5, Zenon DEF a, b
  <1>10. QED
    BY <1>5, <1>7, <1>8, <1>9, Zenon DEF ByWeight, s

\* One job of each key: the first of those in s, and in their order.
FirstOfKeys(t, s, n, m) ==
  /\ m \in Nat /\ DOMAIN t = 1..m /\ Len(t) = m
  /\ \A a, b \in 1..m : a # b => KeyOf(t[a]) # KeyOf(t[b])
  /\ \A a \in 1..m : \E i \in 1..n : t[a] = s[i]
  /\ \A i \in 1..n : \E a \in 1..m : \E j \in 1..i : t[a] = s[j] /\ KeyOf(s[j]) = KeyOf(s[i])
  /\ \A a, b \in 1..m : a < b => \E i, j \in 1..n : i < j /\ t[a] = s[i] /\ t[b] = s[j]

LEMMA RetainedFirst ==
  ASSUME NEW s, NEW n \in Nat, DOMAIN s = 1..n
  PROVE  \E m \in Nat : FirstOfKeys(Retained(s), s, n, m)
  <1> DEFINE K(i) == KeyOf(s[i])
             I == {i \in 1..n : \A j \in 1..(i - 1) : K(j) # K(i)}
             t == Retained(s)
             m == Cardinality(I)
  <1>1. I \in SUBSET (1..n)
    OBVIOUS
  <1>2. t = Picked(s, I)
    BY Zenon DEF Retained
  <1>3. PickedFrom(t, s, I)
    <2> HIDE DEF I, t
    <2>1. QED
      BY <1>1, <1>2, PickedElements
  <1>4. \A i \in 1..n : \E j \in I : j \in 1..i /\ K(j) = K(i)
    <2> TAKE i \in 1..n
    <2> DEFINE T == {j \in 1..n : K(j) = K(i)}
    <2>1. T \in SUBSET Nat /\ i \in T
      OBVIOUS
    <2> HIDE DEF K
    <2>2. PICK j \in T : \A k \in T : j <= k
      <3> HIDE DEF T
      <3>1. QED
        BY <2>1, LeastNumber, Zenon
    <2>3. j \in I /\ j \in 1..i /\ K(j) = K(i)
      BY <2>1, <2>2
    <2>4. QED
      BY <2>3, Zenon
  <1>5. \A i, j \in I : i < j => K(i) # K(j)
    <2> HIDE DEF K
    <2>1. QED
      OBVIOUS
  <1>6. \A i \in I : i \in 1..n
    OBVIOUS
  <1> HIDE DEF I, t, K
  <1>7. /\ m \in Nat /\ DOMAIN t = 1..m /\ Len(t) = m
        /\ \A i \in I : /\ Cardinality({j \in I : j <= i}) \in 1..m
                        /\ t[Cardinality({j \in I : j <= i})] = s[i]
        /\ \A k \in 1..m : \E i \in I : t[k] = s[i]
        /\ \A k, l \in 1..m : k < l => \E i, j \in I : i < j /\ t[k] = s[i] /\ t[l] = s[j]
    <2>1. m \in Nat /\ DOMAIN t = 1..m /\ Len(t) = m
      BY <1>3, Zenon DEF PickedFrom
    <2>2. \A i \in I : /\ Cardinality({j \in I : j <= i}) \in 1..m
                        /\ t[Cardinality({j \in I : j <= i})] = s[i]
      BY <1>3, Zenon DEF PickedFrom
    <2>3. \A k \in DOMAIN t : \E i \in I : t[k] = s[i]
      BY <1>3, Zenon DEF PickedFrom
    <2>4. \A k, l \in DOMAIN t : k < l => \E i, j \in I : i < j /\ t[k] = s[i] /\ t[l] = s[j]
      BY <1>3, Zenon DEF PickedFrom
    <2> HIDE DEF m
    <2>5. \A k \in 1..m : \E i \in I : t[k] = s[i]
      BY <2>1, <2>3
    <2>6. \A k, l \in 1..m : k < l => \E i, j \in I : i < j /\ t[k] = s[i] /\ t[l] = s[j]
      BY <2>1, <2>4
    <2>7. QED
      BY <2>1, <2>2, <2>5, <2>6, Zenon
  <1> HIDE DEF m
  <1>8. \A i \in I : \E k \in 1..m : t[k] = s[i]
    BY <1>7, Zenon
  <1>9. \A a, b \in 1..m : a < b => KeyOf(t[a]) # KeyOf(t[b])
    <2> SUFFICES ASSUME NEW a \in 1..m, NEW b \in 1..m, a < b PROVE KeyOf(t[a]) # KeyOf(t[b])
      BY Zenon
    <2>1. PICK i \in I, j \in I : i < j /\ t[a] = s[i] /\ t[b] = s[j]
      BY <1>7, Zenon
    <2>2. K(i) # K(j)
      BY <1>5, <2>1, Zenon
    <2>3. QED
      BY <2>1, <2>2, Zenon DEF K
  <1>10. \A a, b \in 1..m : a # b => a < b \/ b < a
    BY <1>7
  <1>11. \A a, b \in 1..m : a # b => KeyOf(t[a]) # KeyOf(t[b])
    BY <1>9, <1>10, Zenon
  <1>12. \A i \in 1..n : \E a \in 1..m : \E j \in 1..i : t[a] = s[j] /\ KeyOf(s[j]) = KeyOf(s[i])
    BY <1>4, <1>8, Zenon DEF K
  <1>13. FirstOfKeys(t, s, n, m)
    <2>1. \A a \in 1..m : \E i \in 1..n : t[a] = s[i]
      BY <1>6, <1>7, Zenon
    <2>2. \A a, b \in 1..m : a < b => \E i, j \in 1..n : i < j /\ t[a] = s[i] /\ t[b] = s[j]
      <3> SUFFICES ASSUME NEW a \in 1..m, NEW b \in 1..m, a < b
                   PROVE  \E i, j \in 1..n : i < j /\ t[a] = s[i] /\ t[b] = s[j]
        BY Zenon
      <3>1. PICK i \in I, j \in I : i < j /\ t[a] = s[i] /\ t[b] = s[j]
        BY <1>7, Zenon
      <3>2. QED
        BY <1>6, <3>1, Zenon
    <2>3. QED
      BY <1>7, <1>11, <1>12, <2>1, <2>2, Zenon DEF FirstOfKeys
  <1>14. QED
    BY <1>7, <1>13, Zenon DEF t

\* The least member.
LEMMA MinIs ==
  ASSUME NEW S \in SUBSET Int, NEW x \in S, \A y \in S : x <= y
  PROVE  Min(S) = x
  <1>1. \A z \in S : (\A y \in S : z <= y) => z = x
    BY SMT
  <1>2. QED
    BY <1>1, Zenon DEF Min

LEMMA MinOfTwo ==
  ASSUME NEW a \in Int, NEW b \in Int
  PROVE  Min({a, b}) = IF a <= b THEN a ELSE b
  <1>1. {a, b} \in SUBSET Int
    OBVIOUS
  <1>2. CASE a <= b
    <2>1. a \in {a, b} /\ \A y \in {a, b} : a <= y
      BY <1>2
    <2>2. QED
      BY <1>1, <1>2, <2>1, MinIs, Zenon
  <1>3. CASE ~(a <= b)
    <2>1. b \in {a, b} /\ \A y \in {a, b} : b <= y
      BY <1>3
    <2>2. QED
      BY <1>1, <1>3, <2>1, MinIs, Zenon
  <1>4. QED
    BY <1>2, <1>3

\* What is said of a window of at most `limit` of the jobs.
BestOf(w, jobs, limit) ==
  LET all == {jobs[j] : j \in DOMAIN jobs}
      got == {KeyOf(w[i]) : i \in DOMAIN w}
      best(key) == Min({job_weight(j) : j \in {j \in all : KeyOf(j) = key}})
      keys == {KeyOf(j) : j \in all}
  IN /\ Cardinality(got) = Len(w) /\ got \subseteq keys
     /\ Len(w) = Min({limit, Cardinality(keys)})
     /\ \A i \in DOMAIN w : job_weight(w[i]) = best(KeyOf(w[i]))
     /\ \A i \in DOMAIN w, key \in keys \ got : job_weight(w[i]) <= best(key)

\* The weights of the jobs with a key.
Weights(jobs, n, key) == {job_weight(jobs[i]) : i \in {i \in 1..n : KeyOf(jobs[i]) = key}}

\* One job of each key, each with the best weight of its key, the lighter ones first.
BestOfKeys(t, jobs, n, m) ==
  /\ m \in Nat /\ DOMAIN t = 1..m /\ Len(t) = m
  /\ \A a, b \in 1..m : a # b => KeyOf(t[a]) # KeyOf(t[b])
  /\ \A a \in 1..m : \E i \in 1..n : t[a] = jobs[i]
  /\ \A i \in 1..n : \E a \in 1..m : KeyOf(t[a]) = KeyOf(jobs[i])
  /\ \A a \in 1..m : job_weight(t[a]) \in Int /\ job_weight(t[a]) = Min(Weights(jobs, n, KeyOf(t[a])))
  /\ \A a, b \in 1..m : a < b => job_weight(t[a]) <= job_weight(t[b])

LEMMA FirstIsBest ==
  ASSUME NEW jobs, NEW n, AreJobs(jobs, n), NEW s, ByWeight(s, jobs, n),
         NEW t, NEW m, FirstOfKeys(t, s, n, m)
  PROVE  BestOfKeys(t, jobs, n, m)
  <1> DEFINE W(j) == job_weight(j)
  <1>0. n \in Nat /\ \A i \in 1..n : IsJob(jobs[i])
    BY DEF AreJobs
  <1>1. m \in Nat /\ DOMAIN t = 1..m /\ Len(t) = m /\ \A a, b \in 1..m : a # b => KeyOf(t[a]) # KeyOf(t[b])
    BY Zenon DEF FirstOfKeys
  <1>2. \A i \in 1..n : \E j \in 1..n : s[i] = jobs[j]
    BY Zenon DEF ByWeight
  <1>3. \A i \in 1..n : W(s[i]) \in Int
    BY <1>0, <1>2 DEF IsJob
  <1>4. \A i, j \in 1..n : i < j => W(s[i]) <= W(s[j])
    BY Zenon DEF ByWeight
  <1>5. \A a \in 1..m : \E i \in 1..n : t[a] = s[i]
    BY Zenon DEF FirstOfKeys
  <1>6. \A a \in 1..m : \E i \in 1..n : t[a] = jobs[i]
    <2> TAKE a \in 1..m
    <2>1. PICK i \in 1..n : t[a] = s[i]
      BY <1>5
    <2>2. PICK j \in 1..n : s[i] = jobs[j]
      BY <1>2
    <2>3. QED
      BY <2>1, <2>2, Zenon
  <1> HIDE DEF W
  <1>7. ASSUME NEW i \in 1..n
        PROVE  \E a \in 1..m : KeyOf(t[a]) = KeyOf(jobs[i]) /\ W(t[a]) <= W(jobs[i])
    <2>1. PICK k \in 1..n : s[k] = jobs[i]
      BY Zenon DEF ByWeight
    <2>2. PICK a \in 1..m, j \in 1..k : t[a] = s[j] /\ KeyOf(s[j]) = KeyOf(s[k])
      BY Zenon DEF FirstOfKeys
    <2>3. j \in 1..n /\ (j < k \/ j = k)
      BY <1>0
    <2>4. W(s[j]) <= W(s[k])
      BY <1>3, <1>4, <2>3
    <2>5. KeyOf(t[a]) = KeyOf(jobs[i]) /\ W(t[a]) <= W(jobs[i])
      BY <2>1, <2>2, <2>4, Zenon
    <2>6. QED
      BY <2>5, Zenon
  <1>8. \A a \in 1..m : W(t[a]) \in Int
    BY <1>3, <1>5
  <1>9. ASSUME NEW a \in 1..m PROVE W(t[a]) = Min(Weights(jobs, n, KeyOf(t[a])))
    <2> DEFINE S == Weights(jobs, n, KeyOf(t[a]))
    <2>1. S = {W(jobs[i]) : i \in {i \in 1..n : KeyOf(jobs[i]) = KeyOf(t[a])}}
      BY Zenon DEF Weights, W
    <2> HIDE DEF S
    <2>2. S \in SUBSET Int
      BY <1>0, <2>1 DEF IsJob, W
    <2>3. W(t[a]) \in S
      BY <1>6, <2>1
    <2>4. ASSUME NEW y \in S PROVE W(t[a]) <= y
      <3>1. PICK i \in 1..n : KeyOf(jobs[i]) = KeyOf(t[a]) /\ y = W(jobs[i])
        BY <2>1
      <3>2. PICK b \in 1..m : KeyOf(t[b]) = KeyOf(jobs[i]) /\ W(t[b]) <= W(jobs[i])
        BY <1>7
      <3>3. a = b
        BY <1>1, <3>1, <3>2, Zenon
      <3>4. QED
        BY <3>1, <3>2, <3>3, Zenon
    <2>5. QED
      BY <2>2, <2>3, <2>4, MinIs, Zenon DEF S
  <1>10. \A a, b \in 1..m : a < b => W(t[a]) <= W(t[b])
    <2> SUFFICES ASSUME NEW a \in 1..m, NEW b \in 1..m, a < b PROVE W(t[a]) <= W(t[b])
      BY Zenon
    <2>1. PICK i \in 1..n, j \in 1..n : i < j /\ t[a] = s[i] /\ t[b] = s[j]
      BY Zenon DEF FirstOfKeys
    <2>2. QED
      BY <1>4, <2>1, Zenon
  <1>11. \A i \in 1..n : \E a \in 1..m : KeyOf(t[a]) = KeyOf(jobs[i])
    BY <1>7, Zenon
  <1>12. QED
    BY <1>1, <1>6, <1>8, <1>9, <1>10, <1>11, Zenon DEF BestOfKeys, W

DistinctKeys(t, m) == \A a, b \in 1..m : a # b => KeyOf(t[a]) # KeyOf(t[b])

\* A list of m jobs of different keys has m keys.
LEMMA KeysCounted ==
  ASSUME NEW t, NEW m \in Nat, DistinctKeys(t, m)
  PROVE  Cardinality({KeyOf(t[a]) : a \in 1..m}) = m
  <1> DEFINE S == {KeyOf(t[a]) : a \in 1..m}
             K(a) == KeyOf(t[a])
             f == [a \in 1..m |-> K(a)]
  <1>0. \A a, b \in 1..m : K(a) = K(b) => a = b
    BY Zenon DEF DistinctKeys
  <1>a. S = {K(a) : a \in 1..m}
    OBVIOUS
  <1> HIDE DEF K, S
  <1>1. f \in [1..m -> S] /\ (\A a, b \in 1..m : f[a] = f[b] => a = b)
        /\ (\A k \in S : \E a \in 1..m : f[a] = k)
    BY <1>0, <1>a
  <1> HIDE DEF f
  <1>2. f \in Bijection(1..m, S)
    BY <1>1 DEF Bijection, Injection, Surjection, IsInjective
  <1>3. ExistsBijection(1..m, S)
    BY <1>2, Zenon DEF ExistsBijection
  <1>4. IsFiniteSet(1..m) /\ Cardinality(1..m) = m
    BY FS_Interval
  <1>5. QED
    BY <1>3, <1>4, FS_Bijection DEF S

\* The first k elements of t.
Begins(w, t, k) == DOMAIN w = 1..k /\ Len(w) = k /\ \A i \in 1..k : w[i] = t[i]

LEMMA BeginningOf ==
  ASSUME NEW t, NEW m \in Nat, DOMAIN t = 1..m, Len(t) = m, NEW k \in 0..m
  PROVE  Begins(SubSeq(t, 1, k), t, k)
  BY DEF Begins

\* The sort before the retain is what gives each key its best job.
LEMMA WindowBest ==
  ASSUME NEW jobs, NEW n, AreJobs(jobs, n), site.limit \in Nat
  PROVE  BestOf(Window(jobs), jobs, site.limit)
  <1> DEFINE t == Retained(Sorted(jobs))
             limit == site.limit
             w == Window(jobs)
             all == {jobs[j] : j \in DOMAIN jobs}
             keys == {KeyOf(j) : j \in all}
             got == {KeyOf(w[i]) : i \in DOMAIN w}
             best(key) == Min({job_weight(j) : j \in {j \in all : KeyOf(j) = key}})
  <1>0. n \in Nat /\ DOMAIN jobs = 1..n
    BY DEF AreJobs
  <1>1. ByWeight(Sorted(jobs), jobs, n)
    BY SortByWeight, Zenon
  <1>2. PICK m \in Nat : FirstOfKeys(t, Sorted(jobs), n, m)
    <2>1. DOMAIN Sorted(jobs) = 1..n
      BY <1>1, Zenon DEF ByWeight
    <2>2. QED
      BY <1>0, <2>1, RetainedFirst, Zenon
  <1>3. BestOfKeys(t, jobs, n, m)
    BY <1>1, <1>2, FirstIsBest, Zenon
  <1>4. w = SubSeq(t, 1, Min({Len(t), limit}))
    BY Zenon DEF Window, Truncated
  <1> HIDE DEF t, w
  <1>5. /\ DOMAIN t = 1..m /\ Len(t) = m
        /\ \A a, b \in 1..m : a # b => KeyOf(t[a]) # KeyOf(t[b])
        /\ \A a \in 1..m : \E i \in 1..n : t[a] = jobs[i]
        /\ \A i \in 1..n : \E a \in 1..m : KeyOf(t[a]) = KeyOf(jobs[i])
        /\ \A a \in 1..m : job_weight(t[a]) \in Int /\ job_weight(t[a]) = Min(Weights(jobs, n, KeyOf(t[a])))
        /\ \A a, b \in 1..m : a < b => job_weight(t[a]) <= job_weight(t[b])
    BY <1>3, Zenon DEF BestOfKeys
  <1> DEFINE k == Min({Len(t), limit})
  <1>6. k = (IF m <= limit THEN m ELSE limit) /\ k \in 0..m
    <2>1. k = IF m <= limit THEN m ELSE limit
      <3>1. k = Min({m, limit}) /\ m \in Int /\ limit \in Int
        BY <1>5
      <3> HIDE DEF k, limit
      <3>2. QED
        BY <3>1, MinOfTwo
    <2> HIDE DEF k
    <2>2. QED
      BY <2>1
  <1> HIDE DEF k, limit
  <1>7. DOMAIN w = 1..k /\ Len(w) = k /\ \A i \in 1..k : w[i] = t[i]
    <2>1. w = SubSeq(t, 1, k)
      BY <1>4 DEF k
    <2>2. Begins(SubSeq(t, 1, k), t, k)
      BY <1>5, <1>6, BeginningOf, Zenon
    <2>3. QED
      BY <2>1, <2>2, Zenon DEF Begins
  <1>8. \A i \in 1..k : i \in 1..m
    BY <1>6
  <1>9. keys = {KeyOf(t[a]) : a \in 1..m}
    <2>1. keys = {KeyOf(jobs[j]) : j \in 1..n}
      BY <1>0
    <2> HIDE DEF keys
    <2>2. \A a \in 1..m : KeyOf(t[a]) \in keys
      BY <2>1, <1>5
    <2>3. \A x \in keys : \E a \in 1..m : x = KeyOf(t[a])
      <3> TAKE x \in keys
      <3>1. PICK j \in 1..n : x = KeyOf(jobs[j])
        BY <2>1
      <3>2. PICK a \in 1..m : KeyOf(t[a]) = KeyOf(jobs[j])
        BY <1>5
      <3>3. QED
        BY <3>1, <3>2, Zenon
    <2>4. QED
      BY <2>2, <2>3
  <1>10. got = {KeyOf(w[a]) : a \in 1..k}
    BY <1>7
  <1>11. Cardinality(keys) = m
    <2> HIDE DEF keys
    <2>1. DistinctKeys(t, m)
      BY <1>5, Zenon DEF DistinctKeys
    <2>2. QED
      BY <1>9, <2>1, KeysCounted, Zenon
  <1>12. Cardinality(got) = k
    <2>1. \A a, b \in 1..k : a # b => KeyOf(w[a]) # KeyOf(w[b])
      BY <1>5, <1>7, <1>8
    <2>2. k \in Nat
      BY <1>6
    <2> HIDE DEF got
    <2>3. QED
      BY <1>10, <2>1, <2>2, KeysCounted, Zenon DEF DistinctKeys
  <1>13. got \subseteq keys
    BY <1>7, <1>8, <1>9, <1>10
  <1>14. k = Min({limit, m})
    BY <1>6, MinOfTwo DEF limit
  <1>15. \A key : best(key) = Min(Weights(jobs, n, key))
    <2> TAKE key
    <2>1. {job_weight(j) : j \in {j \in all : KeyOf(j) = key}} = Weights(jobs, n, key)
      BY <1>0 DEF Weights
    <2>2. QED
      BY <2>1, Zenon
  <1> HIDE DEF best
  <1>16. \A a \in 1..m : job_weight(t[a]) = best(KeyOf(t[a]))
    BY <1>5, <1>15, Zenon
  <1>17. \A i \in 1..k : job_weight(w[i]) = best(KeyOf(w[i]))
    BY <1>7, <1>8, <1>16
  <1>18. ASSUME NEW i \in 1..k, NEW key \in keys \ got PROVE job_weight(w[i]) <= best(key)
    <2>1. PICK a \in 1..m : key = KeyOf(t[a])
      BY <1>9
    <2>2. a \notin 1..k
      BY <1>7, <1>10, <2>1
    <2>3. i < a /\ i \in 1..m
      BY <1>6, <2>2
    <2>4. job_weight(t[i]) <= job_weight(t[a])
      BY <1>5, <2>3, Zenon
    <2>5. QED
      BY <1>7, <1>16, <2>1, <2>4, Zenon
  <1> HIDE DEF keys, got
  <1>19. /\ Cardinality(got) = Len(w) /\ got \subseteq keys
         /\ Len(w) = Min({limit, Cardinality(keys)})
         /\ \A i \in DOMAIN w : job_weight(w[i]) = best(KeyOf(w[i]))
         /\ \A i \in DOMAIN w, key \in keys \ got : job_weight(w[i]) <= best(key)
    <2>1. Len(w) = Min({limit, Cardinality(keys)})
      BY <1>7, <1>11, <1>14, Zenon
    <2>2. QED
      BY <2>1, <1>7, <1>12, <1>13, <1>17, <1>18, Zenon
  <1>20. QED
    BY <1>19, Zenon DEF BestOf, keys, got, best, limit, w

-----------------------------------------------------------------------------
(* The helpers on sequences and sets.                                      *)

\* The recursion of FlattenSeq().
Flat(f, seqs, k) == f = [i \in 1..k |-> IF i = 1 THEN seqs[i] ELSE f[i - 1] \o seqs[i]]

LEMMA FlatExists ==
  ASSUME NEW seqs, NEW k \in Nat
  PROVE  \E f : Flat(f, seqs, k)
  <1> DEFINE T == {j \in Nat : \E f : Flat(f, seqs, j)}
  <1>1. 0 \in T
    <2>1. Flat([i \in 1..0 |-> 0], seqs, 0)
      BY DEF Flat
    <2>2. QED
      BY <2>1, Zenon
  <1>2. ASSUME NEW j \in Nat, j \in T PROVE j + 1 \in T
    <2>1. PICK f : Flat(f, seqs, j)
      BY <1>2
    <2> DEFINE V(g, i) == IF i = 1 THEN seqs[i] ELSE g[i - 1] \o seqs[i]
               more == [i \in 1..(j + 1) |-> V(f, i)]
    <2>2. f = [i \in 1..j |-> V(f, i)]
      BY <2>1, Zenon DEF Flat
    <2>a. ASSUME NEW i \in 1..(j + 1), i # 1 PROVE more[i - 1] = f[i - 1]
      <3> HIDE DEF V
      <3>1. i - 1 \in 1..j /\ i - 1 \in 1..(j + 1)
        BY <2>a
      <3>2. more[i - 1] = V(f, i - 1)
        BY <3>1
      <3> HIDE DEF more
      <3>3. f[i - 1] = V(f, i - 1)
        BY <2>2, <3>1
      <3>4. QED
        BY <3>2, <3>3
    <2>3. ASSUME NEW i \in 1..(j + 1) PROVE V(more, i) = V(f, i)
      <3> HIDE DEF more
      <3>1. QED
        BY <2>a, Zenon
    <2>4. more = [i \in 1..(j + 1) |-> V(more, i)]
      <3> HIDE DEF V
      <3>1. QED
        BY <2>3
    <2> HIDE DEF more
    <2>5. Flat(more, seqs, j + 1)
      BY <2>4, Zenon DEF Flat
    <2>6. j + 1 \in Nat
      OBVIOUS
    <2>7. QED
      BY <2>5, <2>6, Zenon
  <1> HIDE DEF T
  <1>3. Nat \subseteq T
    BY <1>1, <1>2, SetInduction, Zenon
  <1>4. QED
    BY <1>3 DEF T

LEMMA FlattenType ==
  ASSUME NEW S, NEW seqs \in Seq(Seq(S))
  PROVE  FlattenSeq(seqs) \in Seq(S)
  <1> DEFINE n == Len(seqs)
             f == CHOOSE f : Flat(f, seqs, n)
  <1>1. n \in Nat /\ \A i \in 1..n : seqs[i] \in Seq(S)
    OBVIOUS
  <1>2. CASE n = 0
    <2>1. seqs = <<>>
      BY <1>2
    <2>2. FlattenSeq(seqs) = seqs
      BY <1>2, Zenon DEF FlattenSeq
    <2>3. <<>> \in Seq(S)
      OBVIOUS
    <2>4. QED
      BY <2>1, <2>2, <2>3, Zenon
  <1>3. CASE n # 0
    <2>1. Flat(f, seqs, n)
      BY <1>1, FlatExists, Zenon
    <2>2. FlattenSeq(seqs) = f[n]
      BY <1>3, Zenon DEF FlattenSeq, Flat
    <2> HIDE DEF f, n
    <2>3. \A i \in 1..n : f[i] = IF i = 1 THEN seqs[i] ELSE f[i - 1] \o seqs[i]
      BY <2>1, Zenon DEF Flat
    <2> DEFINE U == {k \in Nat : k \in 1..n => f[k] \in Seq(S)}
    <2>4. 0 \in U
      OBVIOUS
    <2>5. ASSUME NEW k \in Nat, k \in U PROVE k + 1 \in U
      <3> SUFFICES ASSUME k + 1 \in 1..n PROVE f[k + 1] \in Seq(S)
        OBVIOUS
      <3>0. (k + 1) - 1 = k /\ (k + 1 = 1 \/ k \in 1..n)
        BY <1>1
      <3>1. f[k + 1] = IF k + 1 = 1 THEN seqs[k + 1] ELSE f[k] \o seqs[k + 1]
        BY <2>3, <3>0
      <3>2. seqs[k + 1] \in Seq(S)
        BY <1>1
      <3>3. CASE k + 1 = 1
        BY <3>1, <3>2, <3>3
      <3>4. CASE k + 1 # 1
        <4>1. f[k] \in Seq(S)
          BY <2>5, <3>0, <3>4
        <4>2. QED
          BY <3>1, <3>2, <3>4, <4>1
      <3>5. QED
        BY <3>3, <3>4
    <2> HIDE DEF U
    <2>6. Nat \subseteq U
      BY <2>4, <2>5, SetInduction, Zenon
    <2>7. n \in U /\ n \in 1..n
      BY <1>1, <1>3, <2>6
    <2>8. QED
      BY <2>2, <2>7 DEF U
  <1>4. QED
    BY <1>2, <1>3

\* The greatest of finitely many lengths.
LEMMA MaxType ==
  ASSUME NEW m \in Nat, NEW f \in [1..m -> Nat]
  PROVE  Max({0} \cup {f[i] : i \in 1..m}) \in Nat
  <1> DEFINE T == {k \in Nat : k <= m => \E b \in Nat : \A i \in 1..k : f[i] <= b}
  <1>1. 0 \in T
    OBVIOUS
  <1>2. ASSUME NEW k \in Nat, k \in T PROVE k + 1 \in T
    <2> SUFFICES ASSUME k + 1 <= m PROVE \E b \in Nat : \A i \in 1..(k + 1) : f[i] <= b
      OBVIOUS
    <2>1. PICK b \in Nat : \A i \in 1..k : f[i] <= b
      BY <1>2
    <2>2. f[k + 1] \in Nat /\ \A i \in 1..k : f[i] \in Nat
      OBVIOUS
    <2>3. b + f[k + 1] \in Nat /\ \A i \in 1..(k + 1) : f[i] <= b + f[k + 1]
      BY <2>1, <2>2
    <2>4. QED
      BY <2>3
  <1> HIDE DEF T
  <1>3. Nat \subseteq T
    BY <1>1, <1>2, SetInduction, Zenon
  <1>4. PICK b \in Nat : \A i \in 1..m : f[i] <= b
    <2>1. m \in T /\ m <= m
      BY <1>3
    <2>2. QED
      BY <2>1 DEF T
  <1> DEFINE S == {0} \cup {f[i] : i \in 1..m}
  <1>5. S \in SUBSET Nat /\ S # {} /\ \A x \in S : x <= b
    BY <1>4
  <1> HIDE DEF S
  <1>6. PICK x \in S : \A y \in S : y <= x
    BY <1>5, GreatestNumber, Zenon
  <1>7. \A y \in S : x >= y
    BY <1>5, <1>6
  <1>8. Max(S) \in S
    BY <1>6, <1>7, Zenon DEF Max
  <1>9. QED
    BY <1>5, <1>8 DEF S

-----------------------------------------------------------------------------
(* The rows of the table of durations.                                     *)

\* One step of the sum of the durations of a test.
Add(results, key, f, s) ==
  IF s = {} THEN 0
  ELSE results[CHOOSE x \in s : TRUE][key].duration + f[s \ {CHOOSE x \in s : TRUE}]

Sums(f, results, key, S) == f = [s \in SUBSET S |-> Add(results, key, f, s)]

\* Every commit of S has a duration.
Durations(results, key, S) == \A c \in S : results[c][key].duration \in Nat

LEMMA ChosenLess ==
  ASSUME NEW S, IsFiniteSet(S), NEW s \in SUBSET S, s # {}
  PROVE  /\ (CHOOSE x \in s : TRUE) \in s /\ s \ {CHOOSE x \in s : TRUE} \in SUBSET S
         /\ Cardinality(s) \in Nat /\ Cardinality(s \ {CHOOSE x \in s : TRUE}) = Cardinality(s) - 1
  <1> DEFINE x == CHOOSE x \in s : TRUE
  <1>1. x \in s
    BY Zenon
  <1> HIDE DEF x
  <1>2. IsFiniteSet(s) /\ Cardinality(s) \in Nat
    BY FS_Subset, FS_CardinalityType
  <1>3. Cardinality(s \ {x}) = Cardinality(s) - 1
    BY <1>1, <1>2, FS_RemoveElement
  <1>4. s \ {x} \in SUBSET S
    OBVIOUS
  <1>5. QED
    BY <1>1, <1>2, <1>3, <1>4, Zenon DEF x

\* The sum is there for a set of commits.
LEMMA SumExists ==
  ASSUME NEW results, NEW key, NEW S, IsFiniteSet(S), Durations(results, key, S)
  PROVE  \E f : Sums(f, results, key, S)
  <1> DEFINE A(f, s) == Add(results, key, f, s)
             x(s) == CHOOSE x \in s : TRUE
             Upto(f, k) == /\ f \in [SUBSET S -> Nat]
                           /\ \A s \in SUBSET S : Cardinality(s) < k => f[s] = A(f, s)
             T == {k \in Nat : \E f : Upto(f, k)}
  <1>0. \A s \in SUBSET S : Cardinality(s) \in Nat
    BY FS_Subset, FS_CardinalityType
  <1>a. \A f, s : A(f, s) = IF s = {} THEN 0 ELSE results[x(s)][key].duration + f[s \ {x(s)}]
    BY Zenon DEF Add
  <1>b. \A s \in SUBSET S : s # {} => /\ results[x(s)][key].duration \in Nat
                                      /\ s \ {x(s)} \in SUBSET S
                                      /\ Cardinality(s \ {x(s)}) = Cardinality(s) - 1
    <2> SUFFICES ASSUME NEW s \in SUBSET S, s # {}
                 PROVE  /\ results[x(s)][key].duration \in Nat
                        /\ s \ {x(s)} \in SUBSET S
                        /\ Cardinality(s \ {x(s)}) = Cardinality(s) - 1
      BY Zenon
    <2>1. /\ x(s) \in s /\ s \ {x(s)} \in SUBSET S
          /\ Cardinality(s \ {x(s)}) = Cardinality(s) - 1
      BY ChosenLess, Zenon
    <2> HIDE DEF x
    <2>2. QED
      BY <2>1 DEF Durations
  <1> HIDE DEF A, x
  <1>1. 0 \in T
    <2>1. Upto([s \in SUBSET S |-> 0], 0)
      <3> DEFINE f == [s \in SUBSET S |-> 0]
      <3>1. f \in [SUBSET S -> Nat]
        OBVIOUS
      <3> HIDE DEF f
      <3>2. \A s \in SUBSET S : ~(Cardinality(s) < 0)
        BY <1>0
      <3>3. Upto(f, 0)
        BY <3>1, <3>2, Zenon
      <3>4. QED
        BY <3>3 DEF f
    <2> HIDE DEF Upto
    <2>2. QED
      BY <2>1, Zenon
  <1>2. ASSUME NEW k \in Nat, k \in T PROVE k + 1 \in T
    <2>1. PICK f : Upto(f, k)
      BY <1>2, Zenon
    <2> DEFINE more == [s \in SUBSET S |-> A(f, s)]
    <2>2. ASSUME NEW s \in SUBSET S PROVE A(f, s) \in Nat
      <3>1. CASE s = {}
        <4>1. A(f, s) = 0
          BY <1>a, <3>1, Zenon
        <4>2. QED
          BY <4>1
      <3>2. CASE s # {}
        <4>1. results[x(s)][key].duration \in Nat /\ s \ {x(s)} \in SUBSET S
          BY <1>b, <3>2, Zenon
        <4>2. f[s \ {x(s)}] \in Nat
          BY <2>1, <4>1
        <4>3. A(f, s) = results[x(s)][key].duration + f[s \ {x(s)}]
          BY <1>a, <3>2, Zenon
        <4>4. QED
          BY <4>1, <4>2, <4>3
      <3>3. QED
        BY <3>1, <3>2
    <2>3. more \in [SUBSET S -> Nat] /\ \A s \in SUBSET S : more[s] = A(f, s)
      BY <2>2
    <2> HIDE DEF more
    <2>4. ASSUME NEW s \in SUBSET S, Cardinality(s) < k + 1 PROVE more[s] = A(more, s)
      <3>1. CASE s = {}
        BY <1>a, <2>3, <3>1
      <3>2. CASE s # {}
        <4> DEFINE r == s \ {x(s)}
        <4>1. r \in SUBSET S /\ Cardinality(r) = Cardinality(s) - 1
          BY <1>b, <3>2
        <4>2. Cardinality(r) < k
          BY <1>0, <2>4, <4>1
        <4>3. more[r] = f[r]
          BY <2>1, <2>3, <4>1, <4>2
        <4>4. A(more, s) = A(f, s)
          BY <1>a, <3>2, <4>3, Zenon
        <4>5. QED
          BY <2>3, <4>4
      <3>3. QED
        BY <3>1, <3>2
    <2>5. Upto(more, k + 1) /\ k + 1 \in Nat
      BY <2>3, <2>4
    <2> HIDE DEF Upto
    <2>6. QED
      BY <2>5, Zenon
  <1>3. Nat \subseteq T
    <2> HIDE DEF T
    <2>1. QED
      BY <1>1, <1>2, SetInduction, Zenon
  <1>4. Cardinality(S) + 1 \in Nat
    BY FS_CardinalityType
  <1>5. PICK f : Upto(f, Cardinality(S) + 1)
    BY <1>3, <1>4
  <1>6. \A s \in SUBSET S : Cardinality(s) < Cardinality(S) + 1
    <2> TAKE s \in SUBSET S
    <2>1. Cardinality(s) <= Cardinality(S) /\ Cardinality(s) \in Nat /\ Cardinality(S) \in Nat
      BY <1>0, FS_Subset, FS_CardinalityType
    <2>2. QED
      BY <2>1
  <1>7. f = [s \in SUBSET S |-> A(f, s)]
    BY <1>5, <1>6
  <1>8. QED
    BY <1>7, Zenon DEF Sums, A

\* The summed durations of a test.
Total(results, key, S) == MapThenSumSet(LAMBDA c : results[c][key].duration, S)

LEMMA SumType ==
  ASSUME NEW results, NEW key, NEW S, IsFiniteSet(S), Durations(results, key, S)
  PROVE  Total(results, key, S) \in Nat
  <1> DEFINE f == CHOOSE f : Sums(f, results, key, S)
             x(s) == CHOOSE x \in s : TRUE
  <1>1. Sums(f, results, key, S)
    BY SumExists, Zenon
  <1>2. Total(results, key, S) = f[S]
    BY Zenon DEF Total, MapThenSumSet, MapThenFoldSet, Sums, Add
  <1> HIDE DEF f
  <1>3. \A s \in SUBSET S : f[s] = IF s = {} THEN 0 ELSE results[x(s)][key].duration + f[s \ {x(s)}]
    BY <1>1, Zenon DEF Sums, Add
  <1>4. \A s \in SUBSET S : Cardinality(s) \in Nat
    BY FS_Subset, FS_CardinalityType
  <1> DEFINE U == {k \in Nat : \A s \in SUBSET S : Cardinality(s) < k => f[s] \in Nat}
  <1>5. 0 \in U
    BY <1>4
  <1>6. ASSUME NEW k \in Nat, k \in U PROVE k + 1 \in U
    <2> SUFFICES ASSUME NEW s \in SUBSET S, Cardinality(s) < k + 1 PROVE f[s] \in Nat
      OBVIOUS
    <2>1. CASE s = {}
      <3>1. f[s] = 0
        BY <1>3, <2>1, Zenon
      <3>2. QED
        BY <3>1
    <2>2. CASE s # {}
      <3> DEFINE r == s \ {x(s)}
      <3>1. x(s) \in s /\ r \in SUBSET S /\ Cardinality(r) = Cardinality(s) - 1
        BY <2>2, ChosenLess, Zenon
      <3> HIDE DEF x
      <3>2. results[x(s)][key].duration \in Nat
        BY <3>1 DEF Durations
      <3>3. Cardinality(r) < k
        BY <1>4, <3>1
      <3>4. f[r] \in Nat
        BY <1>6, <3>1, <3>3
      <3>5. f[s] = results[x(s)][key].duration + f[r]
        BY <1>3, <2>2
      <3>6. QED
        BY <3>2, <3>4, <3>5
    <2>3. QED
      BY <2>1, <2>2
  <1> HIDE DEF U
  <1>7. Nat \subseteq U
    BY <1>5, <1>6, SetInduction, Zenon
  <1>8. Cardinality(S) \in Nat /\ S \in SUBSET S /\ Cardinality(S) + 1 \in U
    BY <1>4, <1>7
  <1>9. f[S] \in Nat
    BY <1>8 DEF U
  <1>10. QED
    BY <1>2, <1>9, Zenon

\* A row whose numbers can be compared and divided.
IsEntry(row) == row.passed \in Nat /\ row.failed \in Nat /\ row.duration \in Nat

LEMMA AverageType ==
  ASSUME NEW results, ResultsOK(results),
         NEW key \in UNION {DOMAIN results[c] : c \in DOMAIN results}
  PROVE  IsEntry(Average(results, key))
  <1> DEFINE H == Having(results, key)
             nr == Cardinality(H)
             total == Total(results, key, H)
  <1>1. H \in SUBSET DOMAIN results /\ H # {} /\ \A c \in H : key \in DOMAIN results[c]
    BY DEF Having
  <1>2. IsFiniteSet(H)
    <2> HIDE DEF H
    <2>1. QED
      BY <1>1, FS_Subset DEF ResultsOK
  <1> HIDE DEF H
  <1>3. nr \in Nat /\ nr # 0
    BY <1>1, <1>2, FS_CardinalityType, FS_EmptySet
  <1>4. Durations(results, key, H)
    BY <1>1 DEF Durations, ResultsOK
  <1>5. total \in Nat
    BY <1>2, <1>4, SumType, Zenon
  <1>6. \A status : HavingStatus(results, key, status) \in Nat
    <2> TAKE status
    <2> DEFINE P == {c \in H : results[c][key].status = status}
    <2>1. P \in SUBSET H
      OBVIOUS
    <2>2. HavingStatus(results, key, status) = Cardinality(P)
      BY Zenon DEF HavingStatus, H
    <2> HIDE DEF P
    <2>3. QED
      BY <1>2, <2>1, <2>2, FS_Subset, FS_CardinalityType
  <1>7. Average(results, key) =
          [test |-> key, nr |-> nr, passed |-> HavingStatus(results, key, "Passed"),
           failed |-> HavingStatus(results, key, "Failed"), duration |-> total \div nr]
    BY Zenon DEF Average, H, Total
  <1> HIDE DEF nr, total
  <1>8. total \div nr \in Nat
    BY <1>3, <1>5
  <1>9. QED
    BY <1>6, <1>7, <1>8 DEF IsEntry

\* What test_stats() finds in a table of gen-avg-duration.
LEMMA StatsType ==
  ASSUME NEW results, ResultsOK(results), NEW table,
         table = None \/ table = gen_avg_duration(results), NEW key \in Seq(Int)
  PROVE  test_stats(table, key) = None \/ IsEntry(test_stats(table, key))
  <1>1. CASE table = None
    BY <1>1, Zenon DEF test_stats
  <1>2. CASE table # None
    <2> DEFINE S == UNION {DOMAIN results[c] : c \in DOMAIN results}
               n == Cardinality(S)
    <2>1. SortedTable(table, n) /\ \A i \in DOMAIN table : \E k \in S : table[i] = Average(results, k)
      BY <1>2, TableSorted, Zenon
    <2>2. \A k \in S : IsEntry(Average(results, k))
      BY AverageType, Zenon
    <2> HIDE DEF S, n
    <2>3. test_stats(table, key) = Hit(table, key, 0, n)
      BY <1>2, <2>1, StatsFound, Zenon
    <2>4. DOMAIN table = 1..n /\ n \in Nat
      BY <2>1, Zenon DEF SortedTable
    <2>5. Hits(table, key, 0, n) \subseteq DOMAIN table
      BY <2>4 DEF Hits
    <2>6. \A i \in DOMAIN table : IsEntry(table[i])
      BY <2>1, <2>2, Zenon
    <2>7. Hit(table, key, 0, n) = None \/ \E i \in Hits(table, key, 0, n) : Hit(table, key, 0, n) = table[i]
      BY Zenon DEF Hit
    <2>8. QED
      BY <2>3, <2>5, <2>6, <2>7, Zenon
  <1>3. QED
    BY <1>1, <1>2

LEMMA NiceType ==
  ASSUME NEW tg, tg.nice \in Nat, tg.test_duration_nice \in Nat, tg.test_always_passes_nice \in Nat,
         NEW stats, stats = None \/ IsEntry(stats)
  PROVE  job_nice(tg, stats) \in Nat
  <1> DEFINE a == IF stats # None /\ tg.test_always_passes_nice # 0 /\ stats.passed # stats.failed
                     /\ stats.passed + stats.failed > tg.test_always_passes_nice
                  THEN tg.test_always_passes_nice ELSE 0
             d == IF stats # None /\ tg.test_duration_nice # 0
                  THEN stats.duration \div tg.test_duration_nice ELSE 0
  <1>1. a \in Nat
    OBVIOUS
  <1>2. d \in Nat
    <2>1. CASE stats # None /\ tg.test_duration_nice # 0
      <3>1. stats.duration \in Nat
        BY <2>1 DEF IsEntry
      <3>2. stats.duration \div tg.test_duration_nice \in Nat
        BY <2>1, <3>1
      <3>3. QED
        BY <2>1, <3>2
    <2>2. CASE ~(stats # None /\ tg.test_duration_nice # 0)
      BY <2>2
    <2>3. QED
      BY <2>1, <2>2
  <1>3. job_nice(tg, stats) = tg.nice + a + d
    BY Zenon DEF job_nice
  <1> HIDE DEF a, d
  <1>4. QED
    BY <1>1, <1>2, <1>3

\* The env of a group as encode_env() writes it.
LEMMA EnvType ==
  ASSUME NEW env, DOMAIN env \subseteq EnvVars, \A v \in DOMAIN env : env[v] \in Nat,
         encode_env(env) # None
  PROVE  encode_env(env) \in Seq(Nat)
  <1> DEFINE S == DOMAIN env
             n == Cardinality(S)
             R == {p \in S \X S : p[1] < p[2]}
             vs == [i \in 1..n |-> CHOOSE x \in S : Cardinality({y \in S : y < x}) = i - 1]
             pairs == [i \in DOMAIN vs |-> <<vs[i], env[vs[i]]>>]
  <1>1. S \subseteq Nat /\ IsFiniteSet(S)
    BY ScenariosOK, FS_Subset
  <1>2. n \in Nat
    BY <1>1, FS_CardinalityType
  <1>3. encode_env(env) = FlattenSeq(pairs)
    BY Zenon DEF encode_env, Ordered
  <1>v. \A v \in S : env[v] \in Nat
    OBVIOUS
  <1> HIDE DEF S, pairs
  <1>4. \A x, y \in S : <<x, y>> \in R <=> x < y
    OBVIOUS
  <1> HIDE DEF R
  <1>5. IsOrder(S, R)
    <2>1. \A x \in S : x \in Int
      BY <1>1
    <2>2. /\ \A x \in S : ~(x < x)
          /\ \A x, y, z \in S : x < y /\ y < z => x < z
          /\ \A x, y \in S : x # y => x < y \/ y < x
      BY <2>1
    <2>3. QED
      BY <1>4, <2>2, Zenon DEF IsOrder
  <1>6. Lists(vs, S, R)
    <2>1. \A x \in S : Before(S, R, x) = {y \in S : y < x}
      BY <1>4 DEF Before
    <2> HIDE DEF n
    <2>2. ASSUME NEW i \in 1..n
          PROVE  vs[i] = CHOOSE x \in S : Cardinality(Before(S, R, x)) = i - 1
      BY <2>1
    <2>3. QED
      BY <2>2 DEF Lists, n
  <1>7. DOMAIN vs = 1..n
    BY Zenon
  <1> HIDE DEF vs
  <1>8. \A i \in 1..n : vs[i] \in S
    BY <1>1, <1>5, <1>6, ListedInOrder
  <1> HIDE DEF n
  <1>9. pairs \in Seq(Seq(Nat))
    <2>1. \A i \in 1..n : <<vs[i], env[vs[i]]>> \in Seq(Nat)
      <3> TAKE i \in 1..n
      <3>1. vs[i] \in Nat /\ env[vs[i]] \in Nat
        BY <1>1, <1>v, <1>8
      <3>2. QED
        BY <3>1
    <2>2. pairs = [i \in 1..n |-> <<vs[i], env[vs[i]]>>]
      BY <1>7, Zenon DEF pairs
    <2>3. QED
      BY <1>2, <2>1, <2>2
  <1>10. QED
    BY <1>3, <1>9, FlattenType, Zenon

-----------------------------------------------------------------------------
(* The jobs of the specs of a pass.                                        *)

\* The settings of a resolved group, and the specs that are made of them.
TgType ==
  {tg \in [Settings -> Nat \cup Seq(Nat)] : \A x \in Settings : tg[x] \in SettingType[x]}

SpecType ==
  [test : Nat, subtests : Seq(Nat), tg : TgType, env : Seq(Nat), kernels : Seq(Nat),
   commits : Seq(Nat)]

LEMMA TgFields ==
  ASSUME NEW tg \in TgType
  PROVE  /\ tg.nice \in Nat /\ tg.test_duration_nice \in Nat /\ tg.test_always_passes_nice \in Nat
         /\ tg.max_commits \in Nat /\ tg.tests \in Seq(Nat) /\ tg.kernels \in Seq(Nat)
  <1>1. \A x \in Settings : tg[x] \in SettingType[x]
    BY Zenon DEF TgType
  <1>2. /\ SettingType["max_commits"] = Nat /\ SettingType["nice"] = Nat
        /\ SettingType["test_duration_nice"] = Nat /\ SettingType["test_always_passes_nice"] = Nat
        /\ SettingType["tests"] = Seq(Nat) /\ SettingType["kernels"] = Seq(Nat)
    BY DEF SettingType
  <1>3. {"max_commits", "nice", "test_duration_nice", "test_always_passes_nice", "tests", "kernels"}
          \subseteq Settings
    BY DEF Settings
  <1>4. QED
    BY <1>1, <1>2, <1>3

\* Where a cell of the matrix is.
CellType ==
  {c \in Nat \X Nat \X Nat \X Nat :
     /\ c[2] \in DOMAIN specs /\ c[1] \in DOMAIN specs[c[2]].commits
     /\ c[3] \in DOMAIN specs[c[2]].subtests /\ c[4] \in DOMAIN specs[c[2]].kernels}

LEMMA CellsType ==
  ASSUME specs \in Seq(SpecType)
  PROVE  Cells \in Seq(CellType)
  <1> DEFINE lens == [s \in 1..Len(specs) |-> Len(specs[s].commits)]
             ages == Max({0} \cup {Len(specs[s].commits) : s \in DOMAIN specs})
             kers(age, s, t) == [k \in DOMAIN specs[s].kernels |-> <<age, s, t, k>>]
             subs(age, s) == [t \in DOMAIN specs[s].subtests |-> kers(age, s, t)]
             ofSpec(age, s) == IF age > Len(specs[s].commits) THEN <<>> ELSE FlattenSeq(subs(age, s))
             ofAge(age) == [s \in DOMAIN specs |-> ofSpec(age, s)]
             all == [age \in 1..ages |-> FlattenSeq(ofAge(age))]
  <1>1. /\ DOMAIN specs = 1..Len(specs) /\ Len(specs) \in Nat
        /\ \A s \in 1..Len(specs) : specs[s] \in SpecType
    OBVIOUS
  <1>2. \A s \in 1..Len(specs) : /\ specs[s].commits \in Seq(Nat) /\ specs[s].subtests \in Seq(Nat)
                                 /\ specs[s].kernels \in Seq(Nat)
    BY <1>1 DEF SpecType
  <1>3. ages \in Nat
    <2>1. lens \in [1..Len(specs) -> Nat]
      BY <1>2
    <2>2. {Len(specs[s].commits) : s \in DOMAIN specs} = {lens[s] : s \in 1..Len(specs)}
      BY <1>1
    <2> HIDE DEF lens
    <2>3. Max({0} \cup {lens[s] : s \in 1..Len(specs)}) \in Nat
      BY <1>1, <2>1, MaxType, Zenon
    <2>4. QED
      BY <2>2, <2>3, Zenon
  <1>4. Cells = FlattenSeq(all)
    BY Zenon DEF Cells
  <1> HIDE DEF ages
  <1>5. ASSUME NEW age \in 1..ages, NEW s \in 1..Len(specs) PROVE ofSpec(age, s) \in Seq(CellType)
    <2>1. CASE age > Len(specs[s].commits)
      BY <2>1
    <2>2. CASE ~(age > Len(specs[s].commits))
      <3>1. age \in DOMAIN specs[s].commits /\ age \in Nat /\ s \in Nat /\ s \in DOMAIN specs
        BY <1>1, <1>2, <1>3, <2>2
      <3>2. ASSUME NEW t \in DOMAIN specs[s].subtests PROVE kers(age, s, t) \in Seq(CellType)
        <4>1. t \in Nat /\ \A k \in DOMAIN specs[s].kernels : k \in Nat
          BY <1>2
        <4>2. ASSUME NEW k \in DOMAIN specs[s].kernels PROVE <<age, s, t, k>> \in CellType
          <5>1. <<age, s, t, k>> \in Nat \X Nat \X Nat \X Nat
            BY <3>1, <4>1
          <5>2. QED
            BY <3>1, <5>1 DEF CellType
        <4>3. DOMAIN specs[s].kernels = 1..Len(specs[s].kernels) /\ Len(specs[s].kernels) \in Nat
          BY <1>2
        <4>4. QED
          BY <4>2, <4>3
      <3>3. DOMAIN specs[s].subtests = 1..Len(specs[s].subtests) /\ Len(specs[s].subtests) \in Nat
        BY <1>2
      <3> HIDE DEF kers
      <3>4. subs(age, s) \in Seq(Seq(CellType))
        BY <3>2, <3>3
      <3> HIDE DEF subs
      <3>5. FlattenSeq(subs(age, s)) \in Seq(CellType)
        BY <3>4, FlattenType, Zenon
      <3>6. QED
        BY <2>2, <3>5, Zenon
    <2>3. QED
      BY <2>1, <2>2, Zenon
  <1> HIDE DEF ofSpec
  <1>6. ASSUME NEW age \in 1..ages PROVE FlattenSeq(ofAge(age)) \in Seq(CellType)
    <2>1. ofAge(age) \in Seq(Seq(CellType))
      BY <1>1, <1>5
    <2> HIDE DEF ofAge
    <2>2. QED
      BY <2>1, FlattenType, Zenon
  <1> HIDE DEF ofAge
  <1>7. all \in Seq(Seq(CellType))
    BY <1>3, <1>6
  <1> HIDE DEF all
  <1>8. QED
    BY <1>4, <1>7, FlattenType, Zenon

LEMMA KeyType ==
  ASSUME NEW test \in Nat, NEW subtest \in Nat, NEW kernel \in Nat, NEW env \in Seq(Nat)
  PROVE  subtest_result_key(test, subtest, kernel, env) \in Seq(Int)
  <1>1. <<test, kernel>> \in Seq(Int) /\ <<0, subtest>> \in Seq(Int) /\ env \in Seq(Int)
    OBVIOUS
  <1>2. <<test, kernel>> \o env \in Seq(Int)
    BY <1>1
  <1>3. QED
    BY <1>1, <1>2 DEF subtest_result_key

LEMMA JobType ==
  ASSUME SiteInv, specs \in Seq(SpecType), NEW cell \in CellType
  PROVE  IsJob(JobAt(cell))
  <1> DEFINE sp  == specs[cell[2]]
             sub == sp.subtests[cell[3]]
             ker == sp.kernels[cell[4]]
             com == sp.commits[cell[1]]
             own == test_stats(mapped, subtest_result_key(sp.test, sub, ker, sp.env))
             nice == job_nice(sp.tg, test_stats(mapped, subtest_result_key(sp.test, sub, 0, <<>>)))
             dur == IF own = None THEN DurationDef ELSE own.duration
             age == cell[1] - 1
  <1>1. /\ cell[1] \in Nat /\ cell[2] \in DOMAIN specs /\ cell[1] \in DOMAIN sp.commits
        /\ cell[3] \in DOMAIN sp.subtests /\ cell[4] \in DOMAIN sp.kernels
    BY DEF CellType
  <1>2. sp \in SpecType
    BY <1>1
  <1>3. JobAt(cell) = [commit |-> com, test |-> sp.test, subtest |-> sub, kernel |-> ker,
                       env |-> sp.env, age |-> age, nice |-> nice, duration |-> dur]
    BY Zenon DEF JobAt
  <1> HIDE DEF sp
  <1>4. /\ sp.test \in Nat /\ sp.subtests \in Seq(Nat) /\ sp.tg \in TgType /\ sp.env \in Seq(Nat)
        /\ sp.kernels \in Seq(Nat) /\ sp.commits \in Seq(Nat)
    BY <1>2 DEF SpecType
  <1>5. sub \in Nat /\ ker \in Nat /\ com \in Nat
    <2>1. \A q \in Seq(Nat) : \A i \in DOMAIN q : q[i] \in Nat
      OBVIOUS
    <2>2. QED
      BY <1>1, <1>4, <2>1, Zenon
  <1> HIDE DEF sub, ker, com
  <1>6. ResultsOK(site.results) /\ (mapped = None \/ mapped = gen_avg_duration(site.results))
    BY SiteTyped DEF SiteInv
  <1>7. own = None \/ IsEntry(own)
    <2>1. subtest_result_key(sp.test, sub, ker, sp.env) \in Seq(Int)
      BY <1>4, <1>5, KeyType, Zenon
    <2>2. QED
      BY <1>6, <2>1, StatsType, Zenon
  <1>8. nice \in Nat
    <2>1. 0 \in Nat /\ <<>> \in Seq(Nat)
      OBVIOUS
    <2>2. subtest_result_key(sp.test, sub, 0, <<>>) \in Seq(Int)
      BY <1>4, <1>5, <2>1, KeyType, Zenon
    <2> DEFINE stats == test_stats(mapped, subtest_result_key(sp.test, sub, 0, <<>>))
    <2>3. stats = None \/ IsEntry(stats)
      BY <1>6, <2>2, StatsType, Zenon
    <2> HIDE DEF stats
    <2>4. job_nice(sp.tg, stats) \in Nat
      BY <1>4, <2>3, TgFields, NiceType, Zenon
    <2>5. QED
      BY <2>4 DEF stats
  <1> HIDE DEF own
  <1>9. dur \in Nat
    BY <1>7, ScenariosOK DEF IsEntry
  <1> HIDE DEF nice, dur
  <1> DEFINE job == JobAt(cell)
  <1>10. /\ job.commit = com /\ job.test = sp.test /\ job.kernel = ker /\ job.env = sp.env
         /\ job.duration = dur /\ job.age = age /\ job.nice = nice
    BY <1>3
  <1> HIDE DEF job
  <1>11. job_weight(job) \in Int
    BY <1>1, <1>8, <1>10 DEF job_weight
  <1>12. sp.env \in Seq(Int)
    BY <1>4
  <1>13. IsJob(job)
    BY <1>4, <1>5, <1>9, <1>10, <1>11, <1>12 DEF IsJob
  <1>14. QED
    BY <1>13 DEF job

LEMMA CandidatesAreJobs ==
  ASSUME SiteInv, specs \in Seq(SpecType)
  PROVE  \E n \in Nat : AreJobs(Candidates, n) /\ (specs = <<>> => n = 0)
  <1> DEFINE cells == Cells
             jobs == [i \in DOMAIN cells |-> JobAt(cells[i])]
             I == {i \in DOMAIN jobs : Wanted(jobs[i])}
             t == Candidates
  <1>1. t = Picked(jobs, I)
    BY Zenon DEF Candidates
  <1>2. cells \in Seq(CellType)
    BY CellsType, Zenon
  <1> HIDE DEF cells
  <1>3. /\ DOMAIN jobs = 1..Len(cells) /\ Len(cells) \in Nat
        /\ \A i \in DOMAIN jobs : jobs[i] = JobAt(cells[i]) /\ cells[i] \in CellType
    BY <1>2
  <1> HIDE DEF jobs
  <1>4. \A i \in DOMAIN jobs : IsJob(jobs[i])
    BY <1>3, JobType
  <1>5. I \in SUBSET (1..Len(cells)) /\ \A i \in I : i \in DOMAIN jobs
    BY <1>3
  <1> HIDE DEF I, t
  <1>6. PickedFrom(t, jobs, I)
    BY <1>1, <1>3, <1>5, PickedElements, Zenon
  <1>7. /\ Cardinality(I) \in Nat /\ Len(t) = Cardinality(I) /\ DOMAIN t = 1..Cardinality(I)
        /\ \A k \in DOMAIN t : \E i \in I : t[k] = jobs[i]
    BY <1>6, Zenon DEF PickedFrom
  <1>8. \A k \in DOMAIN t : IsJob(t[k])
    BY <1>4, <1>5, <1>7, Zenon
  <1>9. AreJobs(t, Cardinality(I))
    BY <1>7, <1>8 DEF AreJobs
  <1>10. specs = <<>> => Cardinality(I) = 0
    <2> SUFFICES ASSUME specs = <<>> PROVE I = {}
      BY FS_EmptySet
    <2>1. CellType = {}
      BY DEF CellType
    <2>2. QED
      BY <1>3, <1>5, <2>1
  <1>11. QED
    BY <1>7, <1>9, <1>10, Zenon DEF t

-----------------------------------------------------------------------------
(* The types of a pass.                                                    *)

\* A resolved group: its settings and its env.
GroupOK(r) ==
  /\ r.set \in TgType /\ r.set["tests"] \in Seq(DOMAIN file)
  /\ DOMAIN r.env \subseteq EnvVars /\ \A v \in DOMAIN r.env : r.env[v] \in Nat

\* A test to visit: its group is resolved and its env can be encoded, its branch is there.
RowType ==
  {r \in [branch : DOMAIN site.branches, group : Done, test : DOMAIN file] :
     encode_env(resolved[r.group].env) # None /\ site.log[r.branch] # None}

\* No pass begins before the configuration is read.
PassInv ==
  /\ \A g \in Done : GroupOK(resolved[g])
  /\ outcome = "reading" => pc = "idle" /\ rows = <<>>
  /\ rows \in Seq(RowType) /\ (pc \in {"list", "store"} => rows # <<>>)
  /\ specs \in Seq(SpecType) /\ listing \in Seq(Nat)
  /\ \A t \in DOMAIN file : cache[t] = None \/ cache[t].list \in Seq(Nat)

\* The groups as written.
LEMMA RawTyped ==
  ASSUME SiteInv, NEW g \in Defined
  PROVE  /\ \A x \in DOMAIN raw[g].set : x \in Settings /\ raw[g].set[x] \in SettingType[x]
         /\ "tests" \in DOMAIN raw[g].set => raw[g].set["tests"] \in Seq(DOMAIN file)
         /\ DOMAIN raw[g].env \subseteq EnvVars /\ \A v \in DOMAIN raw[g].env : raw[g].env[v] \in Nat
  <1>1. PICK s \in Scenarios : raw = s.groups /\ DOMAIN file = DOMAIN s.files
    BY Zenon DEF SiteInv
  <1>2. IsScenario(s)
    BY ScenariosOK
  <1>3. /\ DOMAIN s.groups[g].set \subseteq Settings
        /\ \A x \in DOMAIN s.groups[g].set : s.groups[g].set[x] \in SettingType[x]
        /\ "tests" \in DOMAIN s.groups[g].set => s.groups[g].set["tests"] \in Seq(DOMAIN s.files)
        /\ DOMAIN s.groups[g].env \subseteq EnvVars
        /\ \A v \in DOMAIN s.groups[g].env : s.groups[g].env[v] \in Nat
    BY <1>1, <1>2, Zenon DEF IsScenario, Defined
  <1>4. QED
    BY <1>1, <1>3

LEMMA DefaultTyped ==
  /\ \A x \in Settings : Default[x] \in SettingType[x]
  /\ \A S : Default["tests"] \in Seq(S)
  <1>1. /\ Default["max_commits"] \in Nat /\ Default["nice"] \in Nat
        /\ Default["test_duration_nice"] \in Nat /\ Default["test_always_passes_nice"] \in Nat
        /\ \A S : Default["tests"] \in Seq(S) /\ Default["kernels"] \in Seq(S)
    BY DEF Default
  <1>2. /\ SettingType["max_commits"] = Nat /\ SettingType["nice"] = Nat
        /\ SettingType["test_duration_nice"] = Nat /\ SettingType["test_always_passes_nice"] = Nat
        /\ SettingType["tests"] = Seq(Nat) /\ SettingType["kernels"] = Seq(Nat)
    BY DEF SettingType
  <1>3. QED
    BY <1>1, <1>2 DEF Settings

LEMMA SettingKinds ==
  ASSUME NEW x \in Settings, NEW v \in SettingType[x]
  PROVE  v \in Nat \cup Seq(Nat)
  <1>1. /\ SettingType["max_commits"] = Nat /\ SettingType["nice"] = Nat
        /\ SettingType["test_duration_nice"] = Nat /\ SettingType["test_always_passes_nice"] = Nat
        /\ SettingType["tests"] = Seq(Nat) /\ SettingType["kernels"] = Seq(Nat)
    BY DEF SettingType
  <1>2. QED
    BY <1>1 DEF Settings

LEMMA FlattenedOK ==
  ASSUME SiteInv, NEW g \in Defined, \A d \in Done : GroupOK(resolved[d]),
         raw[g].extends = None \/ raw[g].extends \in Done
  PROVE  GroupOK(Flattened(g))
  <1> DEFINE own == raw[g].set
             V(x) == IF x \in DOMAIN own THEN own[x] ELSE Inherited(g, x)
             set == [x \in Settings |-> V(x)]
             env == MergedEnv(g)
             up == InheritedEnv(g)
  <1>1. /\ \A x \in DOMAIN own : x \in Settings /\ own[x] \in SettingType[x]
        /\ "tests" \in DOMAIN own => own["tests"] \in Seq(DOMAIN file)
        /\ DOMAIN raw[g].env \subseteq EnvVars /\ \A v \in DOMAIN raw[g].env : raw[g].env[v] \in Nat
    BY RawTyped, Zenon
  <1>2. /\ \A x \in Settings : Inherited(g, x) \in SettingType[x]
        /\ Inherited(g, "tests") \in Seq(DOMAIN file)
        /\ DOMAIN up \subseteq EnvVars /\ \A v \in DOMAIN up : up[v] \in Nat
    <2>1. CASE raw[g].extends = None
      <3>1. (\A x : Inherited(g, x) = Default[x]) /\ up = << >>
        BY <2>1, Zenon DEF Inherited, InheritedEnv
      <3>2. DOMAIN up = {}
        BY <3>1
      <3>3. QED
        BY <3>1, <3>2, DefaultTyped
    <2>2. CASE raw[g].extends # None
      <3> DEFINE d == raw[g].extends
      <3>1. d \in Done /\ GroupOK(resolved[d])
        BY <2>2
      <3>2. (\A x : Inherited(g, x) = resolved[d].set[x]) /\ up = resolved[d].env
        BY <2>2, Zenon DEF Inherited, InheritedEnv
      <3> HIDE DEF up, d
      <3>3. QED
        BY <3>1, <3>2 DEF GroupOK, TgType
    <2>3. QED
      BY <2>1, <2>2
  <1>3. \A x \in Settings : V(x) \in SettingType[x]
    BY <1>1, <1>2, Zenon
  <1>4. V("tests") \in Seq(DOMAIN file) /\ "tests" \in Settings
    BY <1>1, <1>2 DEF Settings
  <1> HIDE DEF V
  <1>5. set \in TgType
    <2>1. \A x \in Settings : set[x] \in SettingType[x] /\ set[x] \in Nat \cup Seq(Nat)
      BY <1>3, SettingKinds
    <2>2. set \in [Settings -> Nat \cup Seq(Nat)]
      BY <2>1
    <2>3. QED
      BY <2>1, <2>2, Zenon DEF TgType
  <1>6. set["tests"] \in Seq(DOMAIN file)
    BY <1>4
  <1>7. DOMAIN env \subseteq EnvVars /\ \A v \in DOMAIN env : env[v] \in Nat
    <2>1. env = [v \in DOMAIN raw[g].env \cup DOMAIN up |->
                   IF v \in DOMAIN raw[g].env THEN raw[g].env[v] ELSE up[v]]
      BY Zenon DEF MergedEnv
    <2> HIDE DEF env, up
    <2>2. QED
      BY <1>1, <1>2, <2>1
  <1>8. Flattened(g) = [set |-> set, env |-> env]
    BY Zenon DEF Flattened, V
  <1> HIDE DEF set, env
  <1>9. QED
    BY <1>5, <1>6, <1>7, <1>8 DEF GroupOK

LEMMA RowsTyped ==
  ASSUME SiteInv, \A g \in Done : GroupOK(resolved[g]), OutcomeInv
  PROVE  Rows \in Seq(RowType)
  <1> DEFINE ofTests(b, g) == [i \in DOMAIN Tg(g).tests |-> [branch |-> b, group |-> g, test |-> Tg(g).tests[i]]]
             ofGroup(b, g) == IF encode_env(resolved[g].env) = None \/ site.log[b] = None THEN <<>>
                              ELSE ofTests(b, g)
             groups(b) == [i \in DOMAIN site.branches[b] |-> ofGroup(b, site.branches[b][i])]
             ofBranch(b) == FlattenSeq(groups(b))
             all == [b \in DOMAIN site.branches |-> ofBranch(b)]
  <1>1. Rows = IF outcome = "ok" THEN FlattenSeq(all) ELSE <<>>
    BY Zenon DEF Rows
  <1>2. CASE outcome # "ok"
    BY <1>1, <1>2
  <1>3. CASE outcome = "ok"
    <2>1. wanted \subseteq Done
      BY <1>3 DEF OutcomeInv
    <2>2. site.branches \in Seq(Seq(wanted))
      BY SiteTyped, Zenon
    <2>3. /\ DOMAIN site.branches = 1..Len(site.branches) /\ Len(site.branches) \in Nat
          /\ \A b \in DOMAIN site.branches : site.branches[b] \in Seq(wanted)
      BY <2>2
    <2>4. ASSUME NEW b \in DOMAIN site.branches, NEW g \in Done PROVE ofGroup(b, g) \in Seq(RowType)
      <3>1. CASE encode_env(resolved[g].env) = None \/ site.log[b] = None
        BY <3>1
      <3>2. CASE ~(encode_env(resolved[g].env) = None \/ site.log[b] = None)
        <4> DEFINE tests == Tg(g).tests
        <4>1. tests \in Seq(DOMAIN file)
          BY DEF GroupOK, Tg
        <4>2. ofTests(b, g) = [i \in DOMAIN tests |-> [branch |-> b, group |-> g, test |-> tests[i]]]
          OBVIOUS
        <4> HIDE DEF tests, ofTests
        <4>3. ASSUME NEW i \in DOMAIN tests PROVE [branch |-> b, group |-> g, test |-> tests[i]] \in RowType
          <5>1. tests[i] \in DOMAIN file
            BY <4>1
          <5>2. QED
            BY <3>2, <5>1 DEF RowType
        <4>4. DOMAIN tests = 1..Len(tests) /\ Len(tests) \in Nat
          BY <4>1
        <4>5. ofTests(b, g) \in Seq(RowType)
          BY <4>2, <4>3, <4>4
        <4>6. QED
          BY <3>2, <4>5, Zenon
      <3>3. QED
        BY <3>1, <3>2, Zenon
    <2> HIDE DEF ofGroup
    <2>5. ASSUME NEW b \in DOMAIN site.branches PROVE ofBranch(b) \in Seq(RowType)
      <3> DEFINE q == site.branches[b]
      <3>1. /\ DOMAIN q = 1..Len(q) /\ Len(q) \in Nat /\ \A i \in DOMAIN q : q[i] \in Done
        BY <2>1, <2>3
      <3>2. \A i \in DOMAIN q : ofGroup(b, q[i]) \in Seq(RowType)
        BY <2>4, <3>1
      <3>a. groups(b) = [i \in DOMAIN q |-> ofGroup(b, q[i])]
        OBVIOUS
      <3> HIDE DEF q, groups
      <3>3. groups(b) \in Seq(Seq(RowType))
        BY <3>1, <3>2, <3>a
      <3>4. QED
        BY <3>3, FlattenType, Zenon
    <2> HIDE DEF ofBranch
    <2>6. all \in Seq(Seq(RowType))
      BY <2>3, <2>5
    <2> HIDE DEF all
    <2>7. FlattenSeq(all) \in Seq(RowType)
      BY <2>6, FlattenType, Zenon
    <2>8. QED
      BY <1>1, <1>3, <2>7, Zenon
  <1>4. QED
    BY <1>2, <1>3

LEMMA Spec1Typed ==
  ASSUME SiteInv, \A g \in Done : GroupOK(resolved[g]), NEW row \in RowType, NEW subtests \in Seq(Nat)
  PROVE  Spec1(row, subtests) \in SpecType
  <1> DEFINE b == row.branch
             g == row.group
             tg == Tg(g)
             log == site.log[b]
             k == Min({Len(log), tg.max_commits})
             commits == SubSeq(log, 1, k)
             kernels == IF tg.kernels = <<>> THEN <<0>> ELSE tg.kernels
             env == encode_env(resolved[g].env)
  <1>1. /\ b \in DOMAIN site.branches /\ g \in Done /\ row.test \in DOMAIN file
        /\ encode_env(resolved[g].env) # None /\ site.log[b] # None
    BY DEF RowType
  <1>2. row.test \in Nat /\ log \in Seq(Nat)
    BY <1>1, SiteTyped
  <1>3. GroupOK(resolved[g])
    BY <1>1
  <1>4. tg \in TgType
    BY <1>3, Zenon DEF GroupOK, Tg
  <1>5. Spec1(row, subtests) = [test |-> row.test, subtests |-> subtests, tg |-> tg, env |-> env,
                                kernels |-> kernels, commits |-> commits]
    BY Zenon DEF Spec1
  <1>6. env \in Seq(Nat)
    BY <1>1, <1>3, EnvType, Zenon DEF GroupOK
  <1> HIDE DEF tg, env, log
  <1>7. tg.max_commits \in Nat /\ tg.kernels \in Seq(Nat)
    BY <1>4, TgFields, Zenon
  <1>8. kernels \in Seq(Nat)
    BY <1>7
  <1>9. commits \in Seq(Nat)
    <2> DEFINE a == Len(log)
               c == tg.max_commits
    <2>1. a \in Nat /\ c \in Nat /\ k = Min({a, c})
      BY <1>2, <1>7
    <2> HIDE DEF a, c, k
    <2>2. k = IF a <= c THEN a ELSE c
      <3>1. a \in Int /\ c \in Int
        BY <2>1
      <3>2. Min({a, c}) = IF a <= c THEN a ELSE c
        BY <3>1, MinOfTwo, Zenon
      <3>3. QED
        BY <2>1, <3>2, Zenon
    <2>3. k \in Nat /\ k <= Len(log)
      BY <2>1, <2>2 DEF a
    <2>4. QED
      BY <1>2, <2>3
  <1> HIDE DEF kernels, commits
  <1>10. QED
    BY <1>2, <1>4, <1>5, <1>6, <1>8, <1>9 DEF SpecType

LEMMA PassInit == Init => PassInv
  <1> SUFFICES ASSUME Init PROVE PassInv
    OBVIOUS
  <1>1. resolved = << >> /\ pc = "idle" /\ rows = <<>> /\ specs = <<>> /\ listing = <<>>
        /\ \A t \in DOMAIN file : cache[t] = None
    BY DEF Init, GroupsInit
  <1>2. Done = {}
    BY <1>1 DEF Done
  <1>3. rows \in Seq(RowType) /\ specs \in Seq(SpecType) /\ listing \in Seq(Nat)
    BY <1>1
  <1>4. QED
    BY <1>1, <1>2, <1>3 DEF PassInv

\* The parts of PassInv that do not mention the groups, once the row is done.
LEMMA ListedTyped ==
  ASSUME SiteInv, PassInv, rows # <<>>, NEW subtests \in Seq(Nat), Listed(subtests)
  PROVE  rows' \in Seq(RowType) /\ specs' \in Seq(SpecType)
  <1>1. rows \in Seq(RowType) /\ specs \in Seq(SpecType) /\ \A g \in Done : GroupOK(resolved[g])
    BY DEF PassInv
  <1>2. Head(rows) \in RowType /\ Tail(rows) \in Seq(RowType)
    BY <1>1
  <1>3. Spec1(Head(rows), subtests) \in SpecType
    BY <1>1, <1>2, Spec1Typed
  <1>4. rows' = Tail(rows) /\ (specs' = specs \/ specs' = Append(specs, Spec1(Head(rows), subtests)))
    BY Zenon DEF Listed
  <1>5. Append(specs, Spec1(Head(rows), subtests)) \in Seq(SpecType)
    BY <1>1, <1>3
  <1>6. QED
    BY <1>1, <1>2, <1>4, <1>5, Zenon

\* The groups and rows are read alike when the files and the site are the same.
LEMMA RowsKept ==
  ASSUME UNCHANGED <<resolved, site>>, DOMAIN file' = DOMAIN file
  PROVE  /\ RowType' = RowType /\ Done' = Done
         /\ \A r : GroupOK(r)' <=> GroupOK(r)
  <1>1. Done' = Done
    BY DEF Done
  <1>2. \A r : GroupOK(r)' <=> GroupOK(r)
    BY DEF GroupOK
  <1>3. RowType' = RowType
    BY <1>1 DEF RowType
  <1>4. QED
    BY <1>1, <1>2, <1>3, Zenon

LEMMA PassReadConfig ==
  ASSUME SiteInv, WalkInv, PassInv, ReadConfig
  PROVE  PassInv'
  <1>1. outcome = "reading" /\ UNCHANGED passVars
    BY DEF ReadConfig, GroupsNext, NextGroup, ParentIsCycle, ParentUndefined, CallParent, Unresolved,
           Return, CheckBranches
  <1>2. pc = "idle" /\ rows = <<>>
    BY <1>1 DEF PassInv
  <1>3. rows' = <<>> /\ rows' \in Seq(RowType')
    BY <1>1, <1>2
  <1>4. \A r : GroupOK(r)' <=> GroupOK(r)
    BY <1>1 DEF GroupOK
  <1>5. \A g \in Done' : GroupOK(resolved'[g])
    <2>1. CASE Return
      <3>1. /\ top \in Defined /\ Done' = Done \cup {top}
            /\ raw[top].extends = None \/ raw[top].extends \in Done
        BY <2>1, WalkReturn
      <3>2. GroupOK(Flattened(top))
        BY <3>1, FlattenedOK DEF PassInv
      <3>3. resolved' = [g \in Done \cup {top} |-> IF g = top THEN Flattened(top) ELSE resolved[g]]
        BY <2>1, Zenon DEF Return
      <3>4. ASSUME NEW g \in Done \cup {top} PROVE GroupOK(resolved'[g])
        <4>1. resolved'[g] = IF g = top THEN Flattened(top) ELSE resolved[g]
          BY <3>3, Zenon
        <4>2. QED
          BY <3>2, <4>1, Zenon DEF PassInv
      <3>5. QED
        BY <3>1, <3>4, Zenon
    <2>2. CASE ~Return
      <3>1. resolved' = resolved
        BY <2>2 DEF ReadConfig, GroupsNext, NextGroup, ParentIsCycle, ParentUndefined, CallParent,
                    CheckBranches
      <3>2. QED
        BY <3>1 DEF PassInv, Done
    <2>3. QED
      BY <2>1, <2>2
  <1>6. \A g \in Done' : GroupOK(resolved[g])'
    BY <1>4, <1>5 DEF GroupOK
  <1>7. QED
    BY <1>1, <1>2, <1>3, <1>6 DEF PassInv

\* A step of the passes: what is listed, cached and still to come keeps its type.
LEMMA PassStep ==
  ASSUME PassInv, UNCHANGED groupVars, UNCHANGED site, DOMAIN file' = DOMAIN file,
         outcome = "reading" => pc' = "idle" /\ rows' = <<>>,
         rows' \in Seq(RowType), pc' \in {"list", "store"} => rows' # <<>>,
         specs' \in Seq(SpecType), listing' \in Seq(Nat),
         \A t \in DOMAIN file : cache'[t] = None \/ cache'[t].list \in Seq(Nat)
  PROVE  PassInv'
  <1>1. RowType' = RowType /\ Done' = Done
    BY RowsKept
  <1>2. \A g \in Done' : GroupOK(resolved[g])'
    BY <1>1 DEF GroupOK, PassInv
  <1>3. QED
    BY <1>1, <1>2 DEF PassInv

LEMMA PassNext == SiteInv /\ WalkInv /\ OutcomeInv /\ CacheInv /\ PassInv /\ [Next]_vars => PassInv'
  <1> SUFFICES ASSUME SiteInv, WalkInv, OutcomeInv, CacheInv, PassInv, [Next]_vars PROVE PassInv'
    OBVIOUS
  <1>0. /\ \A g \in Done : GroupOK(resolved[g])
        /\ outcome = "reading" => pc = "idle" /\ rows = <<>>
        /\ rows \in Seq(RowType) /\ (pc \in {"list", "store"} => rows # <<>>)
        /\ specs \in Seq(SpecType) /\ listing \in Seq(Nat)
        /\ \A t \in DOMAIN file : cache[t] = None \/ cache[t].list \in Seq(Nat)
    BY Zenon DEF PassInv
  <1>a. rows # <<>> => Head(rows).test \in DOMAIN file
    <2>1. rows # <<>> => Head(rows) \in RowType
      BY <1>0
    <2>2. QED
      BY <2>1 DEF RowType
  <1>1. CASE UNCHANGED vars
    BY <1>0, <1>1, PassStep
  <1>2. CASE ReadConfig
    BY <1>2, PassReadConfig
  <1>3. ASSUME NEW t \in DOMAIN file, Edit(t) \/ EditSourced(t) PROVE PassInv'
    <2>1. DOMAIN file' = DOMAIN file
      BY <1>3 DEF Edit, EditSourced
    <2>2. UNCHANGED <<groupVars, site, cache, pc, rows, specs, listing>>
      BY <1>3 DEF Edit, EditSourced
    <2>3. QED
      BY <1>0, <2>1, <2>2, PassStep
  <1>4. CASE GenAvgDuration
    BY <1>0, <1>4, PassStep DEF GenAvgDuration
  <1>5. CASE StartPass
    <2>1. /\ UNCHANGED <<groupVars, site, file, cache, listing>> /\ outcome # "reading"
          /\ pc' = "stat" /\ rows' = Rows /\ specs' = <<>>
      BY <1>5 DEF StartPass
    <2>2. Rows \in Seq(RowType)
      BY <1>0, RowsTyped
    <2>3. <<>> \in Seq(SpecType)
      OBVIOUS
    <2>4. QED
      BY <1>0, <2>1, <2>2, <2>3, PassStep
  <1>6. CASE CacheHit
    <2>1. /\ UNCHANGED <<groupVars, site, file, cache, listing, pc>>
          /\ pc = "stat" /\ rows # <<>> /\ IsCached(Head(rows).test)
          /\ Listed(cache[Head(rows).test].list)
      BY <1>6 DEF CacheHit
    <2>2. cache[Head(rows).test].list \in Seq(Nat)
      BY <1>0, <1>a, <2>1 DEF IsCached
    <2>3. rows' \in Seq(RowType) /\ specs' \in Seq(SpecType)
      BY <2>1, <2>2, ListedTyped
    <2>4. QED
      BY <1>0, <2>1, <2>3, PassStep
  <1>7. CASE CacheMiss
    BY <1>0, <1>7, PassStep DEF CacheMiss
  <1>8. CASE ListTests
    <2>1. /\ UNCHANGED <<groupVars, site, file, cache, rows, specs>>
          /\ pc = "list" /\ pc' = "store" /\ listing' = file[Head(rows).test].content
      BY <1>8 DEF ListTests
    <2>2. listing' \in Seq(Nat)
      BY <1>0, <1>a, <2>1 DEF SiteInv
    <2>3. QED
      BY <1>0, <2>1, <2>2, PassStep
  <1>9. CASE ListFails
    <2>1. <<>> \in Seq(Nat)
      OBVIOUS
    <2>2. QED
      BY <1>0, <1>9, <2>1, PassStep DEF ListFails
  <1>10. CASE StoreListing
    <2>1. /\ UNCHANGED <<groupVars, site, file>> /\ pc = "store" /\ pc' = "stat"
          /\ cache' = Cached(Head(rows).test, listing) /\ Listed(listing) /\ listing' = <<>>
      BY <1>10 DEF StoreListing
    <2>2. rows' \in Seq(RowType) /\ specs' \in Seq(SpecType)
      BY <1>0, <2>1, ListedTyped
    <2>3. ASSUME NEW t \in DOMAIN file PROVE cache'[t] = None \/ cache'[t].list \in Seq(Nat)
      <3>1. cache' = cache \/ cache' = [cache EXCEPT ![Head(rows).test] = [list |-> listing, mtime |-> mtime]]
        BY <2>1, Zenon DEF Cached, Tag
      <3>2. cache'[t] = cache[t] \/ cache'[t] = [list |-> listing, mtime |-> mtime]
        BY <3>1 DEF CacheInv
      <3>3. QED
        BY <1>0, <3>2
    <2>4. <<>> \in Seq(Nat)
      OBVIOUS
    <2>5. QED
      BY <1>0, <2>1, <2>2, <2>3, <2>4, PassStep
  <1>11. CASE EndPass
    BY <1>0, <1>11, PassStep DEF EndPass
  <1>12. QED
    BY <1>1, <1>2, <1>3, <1>4, <1>5, <1>6, <1>7, <1>8, <1>9, <1>10, <1>11 DEF Next

LEMMA PassInvariant == Spec => []PassInv
  BY PassInit, PassNext, SiteInvariant, WalkInvariant, OutcomeInvariant, CacheInvariant, PTL DEF Spec

-----------------------------------------------------------------------------
(* The window of a pass.                                                   *)

\* Between two passes the window is that of the last pass.
WindowInv == pc = "idle" => window = Window(Candidates)

LEMMA EmptyWindow ==
  ASSUME SiteInv, specs = <<>>
  PROVE  Window(Candidates) = <<>>
  <1> DEFINE t == Retained(Sorted(Candidates))
             k == Min({Len(t), site.limit})
  <1>0. specs \in Seq(SpecType) /\ site.limit \in Nat
    BY SiteTyped
  <1>1. AreJobs(Candidates, 0)
    BY <1>0, CandidatesAreJobs
  <1>2. ByWeight(Sorted(Candidates), Candidates, 0)
    BY <1>1, SortByWeight, Zenon
  <1>3. DOMAIN Sorted(Candidates) = 1..0 /\ 0 \in Nat
    BY <1>2 DEF ByWeight
  <1>4. PICK m \in Nat : FirstOfKeys(t, Sorted(Candidates), 0, m)
    BY <1>3, RetainedFirst, Zenon
  <1>5. Window(Candidates) = SubSeq(t, 1, k)
    BY Zenon DEF Window, Truncated
  <1> HIDE DEF t
  <1>6. Len(t) = m /\ \A a \in 1..m : \E i \in 1..0 : t[a] = Sorted(Candidates)[i]
    BY <1>4, Zenon DEF FirstOfKeys
  <1>7. m = 0
    BY <1>6
  <1>8. k = 0
    <2>1. k = Min({0, site.limit})
      BY <1>6, <1>7
    <2>2. 0 \in Int /\ site.limit \in Int /\ 0 <= site.limit
      BY <1>0
    <2> HIDE DEF k
    <2>3. QED
      BY <2>1, <2>2, MinOfTwo, Zenon
  <1> HIDE DEF k
  <1>9. SubSeq(t, 1, 0) = <<>>
    OBVIOUS
  <1>10. QED
    BY <1>5, <1>8, <1>9, Zenon

LEMMA WindowInvariant == Spec => []WindowInv
  <1>1. Init => WindowInv
    <2> SUFFICES ASSUME Init PROVE WindowInv
      OBVIOUS
    <2>1. window = <<>> /\ specs = <<>> /\ SiteInv
      BY SiteInit DEF Init
    <2>2. QED
      BY <2>1, EmptyWindow DEF WindowInv
  <1>2. WindowInv /\ [Next]_vars => WindowInv'
    <2> SUFFICES ASSUME WindowInv, [Next]_vars, pc' = "idle" PROVE window' = Window(Candidates)'
      BY DEF WindowInv
    <2>1. UNCHANGED <<specs, mapped, site>> /\ (window' = Window(Candidates) \/ (window' = window /\ pc = "idle"))
      BY DEF Next, ReadConfig, Edit, EditSourced, GenAvgDuration, StartPass, CacheHit, CacheMiss, ListTests,
             ListFails, StoreListing, EndPass
    <2>2. window' = Window(Candidates)
      BY <2>1 DEF WindowInv
    <2>3. Window(Candidates)' = Window(Candidates)
      <3>1. Cells' = Cells
        BY <2>1, Zenon DEF Cells
      <3>2. \A c : JobAt(c)' = JobAt(c)
        BY <2>1, Zenon DEF JobAt
      <3>3. \A j : Wanted(j)' = Wanted(j)
        BY <2>1, Zenon DEF Wanted, Recorded
      <3>4. Candidates' = Candidates
        BY <3>1, <3>2, <3>3 DEF Candidates
      <3>5. site' = site
        BY <2>1
      <3>6. QED
        BY <3>4, <3>5, Zenon DEF Window, Truncated
    <2>4. QED
      BY <2>2, <2>3
  <1>3. QED
    BY <1>1, <1>2, PTL DEF Spec

\* The window that desired_jobs() returns is the best of the matrix, for every
\* configuration, every log and history, and whatever is edited during the pass: no job
\* twice, as many as the limit and the matrix allow, each job with the best weight of its
\* key, and none passed over for a worse one.
THEOREM WindowHolds == Spec => []WindowIsBest
  <1>1. ASSUME SiteInv, PassInv, WindowInv PROVE WindowIsBest
    <2> SUFFICES ASSUME pc = "idle" PROVE WindowIsBest
      BY Zenon DEF WindowIsBest
    <2>1. PICK n \in Nat : AreJobs(Candidates, n)
      BY <1>1, CandidatesAreJobs DEF PassInv
    <2>2. site.limit \in Nat
      BY <1>1, SiteTyped
    <2>3. BestOf(Window(Candidates), Candidates, site.limit)
      BY <2>1, <2>2, WindowBest, Zenon
    <2>4. BestOf(window, Candidates, site.limit)
      BY <1>1, <2>3, Zenon DEF WindowInv
    <2>5. QED
      BY <2>4, Zenon DEF BestOf, WindowIsBest, Range
  <1>2. QED
    BY <1>1, SiteInvariant, PassInvariant, WindowInvariant, PTL

=============================================================================
