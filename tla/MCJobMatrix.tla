---------------------------- MODULE MCJobMatrix ----------------------------
(* Scenarios for JobMatrix: every small web of `extends`, and two            *)
(* configurations with shared commits, shared tests, an env and kernels over *)
(* many results and histories, and a test that lists from another tree.      *)
EXTENDS JobMatrix

CONSTANTS g1, g2, g3, g4

Lists == {<<1, 2>>, <<2, 3>>, <<>>}

Nothing == [x \in {} |-> x]

\* Three groups that extend one another, nothing, or the undefined g4, each with or
\* without a nice and an env of its own; the branch names g1 or the undefined g4 too.
Rank == [g \in {g1, g2, g3} |-> CASE g = g1 -> 1 [] g = g2 -> 2 [] g = g3 -> 3]

Web(ext, own) ==
  [g \in {g1, g2, g3} |->
     [extends |-> ext[g],
      set |-> IF own[g] THEN [nice |-> Rank[g]] ELSE Nothing,
      env |-> IF own[g] THEN [v \in {1} |-> Rank[g]] ELSE Nothing]]

Webs ==
  {[groups |-> Web(ext, own), wanted |-> w, branches |-> <<<<g1>>>>, log |-> <<<<1>>>>,
    results |-> Nothing, limit |-> 1, files |-> <<>>, sourcing |-> {}]
   : ext \in [{g1, g2, g3} -> {None, g1, g2, g3, g4}], own \in [{g1, g2, g3} -> BOOLEAN],
     w \in {{g1}, {g1, g4}}}

\* g1 is the base, g2 is nicer, g3 has a kernel and an env, g4 an env nobody can encode.
Config ==
  LET group(ext, set, env) == [extends |-> ext, set |-> set, env |-> env]
      env(v) == [x \in {1} |-> v]
  IN [g \in {g1, g2, g3, g4} |->
        CASE g = g1 -> group(None, [tests |-> <<1>>, max_commits |-> 2, test_duration_nice |-> 2,
                                    test_always_passes_nice |-> 1], Nothing)
          [] g = g2 -> group(g1, [nice |-> 1], Nothing)
          [] g = g3 -> group(g2, [kernels |-> <<1, 0>>], env(5))
          [] g = g4 -> group(g1, Nothing, env(9))]

Matrix(branches, log, results, limit) ==
  [groups |-> Config, wanted |-> {g1, g2, g3, g4}, branches |-> branches, log |-> log,
   results |-> results, limit |-> limit, files |-> <<<<1, 2>>>>, sourcing |-> {}]

K(subtest, kernel) == subtest_result_key(1, subtest, kernel, <<>>)

\* Commit 1 is on two branches, the tip of one; test 1 comes by two groups.
Shared ==
  {Matrix(<<<<g2, g1>>, <<g1>>>>, <<<<2, 1, 4>>, <<1, 3>>>>,
          [c \in {1, 2} |->
             [k \in {K(s, 0) : s \in {s \in {1, 2} : st[c, s] # None}} |->
                [status |-> st[c, k[4]], duration |-> 3 * c - 2]]], 2)
   : st \in {st \in [{1, 2} \X {1, 2} -> {None, "Passed", "Unknown"}] :
                st[2, 1] # "Unknown" /\ st[2, 2] = None}}

\* A table of every size and with every gap; commits that have left the branches.
Histories ==
  {Matrix(<<<<g1, g3, g4>>, <<g2>>>>, <<<<2, 1>>, None>>,
          [c \in {4, 5} |->
             [k \in ks |-> [status |-> IF c = 4 THEN "Failed" ELSE "Passed", duration |-> k[4]]]],
          12)
   : ks \in SUBSET {K(1, 0), K(2, 0), K(1, 1), K(2, 2)}}

\* Test 1 lists from another tree; nothing has been run.
Sourced ==
  {[Matrix(<<<<g1>>>>, <<<<1>>>>, Nothing, 2) EXCEPT !.sourcing = {1}]}

AllScenarios == Webs \cup Shared \cup Histories \cup Sourced
============================================================================
