----------------------------- MODULE TestGroups -----------------------------
(***************************************************************************)
(* userrc_read_str() (src/users.rs): a user's configuration is read, every *)
(* test_group is flattened along its `extends` chain by resolve_group(),   *)
(* and the groups the branches name are looked up.  The recursion is the   *)
(* explicit stack that the code itself keeps to find cycles.               *)
(***************************************************************************)
EXTENDS TestStatus, Naturals, Sequences, FiniteSets

CONSTANTS
  Groups,    \* names a configuration may define or mention
  EnvVars    \* names of env variables

Settings == {"max_commits", "nice", "test_duration_nice", "test_always_passes_nice",
             "tests", "kernels"}

\* What a setting is when no group of the chain has it.
Default ==
  [max_commits |-> 50, nice |-> 0, test_duration_nice |-> 180,
   test_always_passes_nice |-> 10, tests |-> <<>>, kernels |-> <<>>]

VARIABLES
  raw,       \* raw[g]: the groups as written: extends, set[setting], env[variable]
  wanted,    \* groups that the branches name
  left,      \* group names the loop over raw has still to come to
  stack,     \* the calls of resolve_group() in progress, the innermost last
  resolved,  \* resolved[g]: the flattened groups
  outcome    \* "reading", "ok", or the error: "cycle", "undefined", "branch"

groupVars == <<raw, wanted, left, stack, resolved, outcome>>

Defined == DOMAIN raw
Done == DOMAIN resolved

GroupsInit(config) ==
  /\ raw = config.groups /\ wanted = config.wanted
  /\ left = Defined /\ stack = <<>> /\ resolved = << >> /\ outcome = "reading"

-----------------------------------------------------------------------------
top == stack[Len(stack)]
OnStack(g) == \E i \in 1..Len(stack) : stack[i] = g

\* The loop over the names: one that an earlier chain has resolved is done.
NextGroup(g) ==
  /\ outcome = "reading" /\ stack = <<>> /\ g \in left
  /\ left' = left \ {g}
  /\ stack' = IF g \in Done THEN stack ELSE <<g>>
  /\ UNCHANGED <<raw, wanted, resolved, outcome>>

\* A call finds its parent unresolved.
Unresolved ==
  /\ outcome = "reading" /\ stack # <<>>
  /\ raw[top].extends # None /\ raw[top].extends \notin Done

\* Mutant of IsCycle: only a group that extends itself is noticed.
MutIsCycle(g) == g = top

IsCycle(g) == OnStack(g)

ParentIsCycle ==
  /\ Unresolved /\ IsCycle(raw[top].extends)
  /\ outcome' = "cycle"
  /\ UNCHANGED <<raw, wanted, left, stack, resolved>>

ParentUndefined ==
  /\ Unresolved /\ ~IsCycle(raw[top].extends) /\ raw[top].extends \notin Defined
  /\ outcome' = "undefined"
  /\ UNCHANGED <<raw, wanted, left, stack, resolved>>

\* Mutant of CallParent: the parent is called whether it is there or not.
MutCallParent ==
  /\ Unresolved /\ ~IsCycle(raw[top].extends)
  /\ stack' = Append(stack, raw[top].extends)
  /\ UNCHANGED <<raw, wanted, left, resolved, outcome>>

CallParent ==
  /\ Unresolved /\ ~IsCycle(raw[top].extends) /\ raw[top].extends \in Defined
  /\ stack' = Append(stack, raw[top].extends)
  /\ UNCHANGED <<raw, wanted, left, resolved, outcome>>

\* The parent's setting, or the default when there is no parent.
Inherited(g, s) ==
  IF raw[g].extends = None THEN Default[s] ELSE resolved[raw[g].extends].set[s]

\* The parent's env.
InheritedEnv(g) ==
  IF raw[g].extends = None THEN << >> ELSE resolved[raw[g].extends].env

\* Mutant of MergedEnv: the parent's variables win.
MutMergedEnv(g) ==
  [v \in DOMAIN raw[g].env \cup DOMAIN InheritedEnv(g) |->
     IF v \in DOMAIN InheritedEnv(g) THEN InheritedEnv(g)[v] ELSE raw[g].env[v]]

\* The parent's env, overridden variable by variable.
MergedEnv(g) ==
  [v \in DOMAIN raw[g].env \cup DOMAIN InheritedEnv(g) |->
     IF v \in DOMAIN raw[g].env THEN raw[g].env[v] ELSE InheritedEnv(g)[v]]

\* The group of one call, flattened against its resolved parent.
Flattened(g) ==
  [set |-> [s \in Settings |->
              IF s \in DOMAIN raw[g].set THEN raw[g].set[s] ELSE Inherited(g, s)],
   env |-> MergedEnv(g)]

Return ==
  /\ outcome = "reading" /\ stack # <<>> /\ ~Unresolved
  /\ resolved' = [g \in Done \cup {top} |-> IF g = top THEN Flattened(top) ELSE resolved[g]]
  /\ stack' = SubSeq(stack, 1, Len(stack) - 1)
  /\ UNCHANGED <<raw, wanted, left, outcome>>

\* Mutant of CheckBranches: the names in the branches are taken on trust.
MutCheckBranches ==
  /\ outcome = "reading" /\ stack = <<>> /\ left = {}
  /\ outcome' = "ok"
  /\ UNCHANGED <<raw, wanted, left, stack, resolved>>

\* All names are done: the branches may only name resolved groups.
CheckBranches ==
  /\ outcome = "reading" /\ stack = <<>> /\ left = {}
  /\ outcome' = IF wanted \subseteq Done THEN "ok" ELSE "branch"
  /\ UNCHANGED <<raw, wanted, left, stack, resolved>>

GroupsNext ==
  \/ \E g \in left : NextGroup(g)
  \/ ParentIsCycle \/ ParentUndefined \/ CallParent \/ Return \/ CheckBranches

-----------------------------------------------------------------------------
\* How far a chain can go without meeting a group twice.
Depth == Cardinality(Groups)

\* The parent of a group in the configuration as written; None past the end.
Parent(g) == IF g \in Defined THEN raw[g].extends ELSE None

\* The i-th ancestor of g.
Ancestor(g, i) ==
  LET up[n \in 0..Depth] == IF n = 0 THEN g ELSE Parent(up[n - 1])
  IN up[i]

\* The groups that mention a setting, and those that mention an env variable.
Setting(s) == {a \in Defined : s \in DOMAIN raw[a].set}
Exporting(v) == {a \in Defined : v \in DOMAIN raw[a].env}

\* The distance from g to its nearest ancestor-or-self in S; empty when none is.
Nearest(g, S) ==
  {i \in 0..Depth : Ancestor(g, i) \in S /\ \A j \in 0..(i - 1) : Ancestor(g, j) \notin S}

\* The call stack of resolve_group() follows `extends` and holds no group twice, so
\* the walk ends on every configuration.
StackIsPath ==
  /\ \A i \in 1..(Len(stack) - 1) : raw[stack[i]].extends = stack[i + 1]
  /\ \A i, j \in 1..Len(stack) : stack[i] = stack[j] => i = j
  /\ \A i \in 1..Len(stack) : stack[i] \notin Done

\* Whatever order the names are resolved in, a resolved group has each setting and
\* each env variable from the nearest group of its chain that mentions it.
ResolvedIsNearest ==
  \A g \in Done :
    /\ \A s \in Settings :
         LET at == Nearest(g, Setting(s))
         IN \/ at = {} /\ resolved[g].set[s] = Default[s]
            \/ \E i \in at : resolved[g].set[s] = raw[Ancestor(g, i)].set[s]
    /\ \A v \in EnvVars :
         LET at == Nearest(g, Exporting(v))
         IN \/ at = {} /\ v \notin DOMAIN resolved[g].env
            \/ /\ v \in DOMAIN resolved[g].env
               /\ \E i \in at : resolved[g].env[v] = raw[Ancestor(g, i)].env[v]

\* Every chain ends in a group without a parent, and the branches name groups.
WellFormed ==
  /\ \A g \in Defined : \E i \in 0..Depth :
       Ancestor(g, i) = None /\ \A j \in 0..(i - 1) : Ancestor(g, j) \in Defined
  /\ wanted \subseteq Defined

\* The configuration is accepted exactly when it is well-formed, and an accepted one
\* has every group resolved: no cycle or dangling name slips through, and none is
\* seen where there is none.
AcceptsWellFormed ==
  outcome # "reading" => (outcome = "ok" <=> WellFormed) /\ (outcome = "ok" => Done = Defined)

=============================================================================
