--------------------------- MODULE MCResultMirror ---------------------------
(***************************************************************************)
(* Small instances of the result clients.                                  *)
(***************************************************************************)
EXTENDS ResultMirror

CONSTANTS c1, c2, c3, c4, d1, t1, t2, linux, tools, other, ann, bob, eve

MCCommits == {c1, c2, c3, c4, d1}

\* bob's config does not parse; eve's branch is in a repo without a path.
MCUsers == [u \in {ann, bob, eve} |->
              CASE u = ann -> [b \in {"main", "tools"} |-> IF b = "main" THEN linux ELSE tools]
                [] u = bob -> None
                [] u = eve -> [b \in {"main"} |-> other]]

Repo(history, tip) == [history |-> history, tip |-> tip]
NoBranch == [b \in {} |-> 0]

\* ann's branches, with the tip of main at index n.
MCRepos(history, n, toolsHistory) ==
  [r \in {linux, tools} |->
     IF r = linux THEN Repo(history, [b \in {<<ann, "main">>} |-> n])
     ELSE Repo(toolsHistory, IF toolsHistory = <<>> THEN NoBranch
                             ELSE [b \in {<<ann, "tools">>} |-> 1])]

MCNames == {[full |-> TRUE, commit |-> c1, matches |-> {c1}],
            [full |-> FALSE, commit |-> None, matches |-> {c1, c2}]}

One(s) == [t \in {t1} |-> s]
Two(s, u) == [t \in {t1, t2} |-> IF t = t1 THEN s ELSE u]

\* Servers at rest: every mix of untested, finished and unfinished commits.
Still ==
  {[up |-> TRUE, repos |-> MCRepos(<<c1, c2, c3, c4>>, 1, <<d1>>), budget |-> 0, ops |-> 0, skew |-> 0,
    tests |-> [c \in MCCommits |-> IF c = d1 THEN Two("Passed", "Notrun") ELSE f[c]]] :
   f \in [{c1, c2, c3, c4} -> {None, One("Passed"), One("Failed"), One("Unknown"),
                               One("Inprogress"), [t \in {t2} |-> "Passed"],
                               Two("Failed", "Passed")}]}

\* Servers in use, where tools was not fetched: three commands on one commit that changes
\* twice, two commands on a branch of two commits, and clients whose clock is ahead or
\* behind.
Used(history, n, changes, commands, ahead) ==
  [up |-> TRUE, repos |-> MCRepos(history, n, <<>>), budget |-> changes, ops |-> commands, skew |-> ahead,
   tests |-> [c \in MCCommits |-> IF c = c1 THEN One("Inprogress") ELSE None]]
InUse == {Used(<<c1>>, 1, 2, 3, 0), Used(<<c1, c2>>, 1, 1, 2, 0), Used(<<c1, c2>>, 2, 2, 1, 0),
          Used(<<c1>>, 1, 2, 3, 1), Used(<<c1>>, 1, 2, 2, -1)}

\* Servers without a config, without linux and without tools.
Down ==
  LET s == [Used(<<c1, c2>>, 1, 1, 0, 0) EXCEPT !.repos = MCRepos(<<c1, c2>>, 1, <<d1>>)]
  IN {[s EXCEPT !.up = FALSE]}
       \cup {[s EXCEPT !.repos = [r \in {linux, tools} \ {gone} |-> s.repos[r]]] : gone \in {linux, tools}}

MCUpdates == {<<t1, "Passed">>}

MCScenarios == Still \cup InUse \cup Down

Sym == Permutations(Clients)

=============================================================================
