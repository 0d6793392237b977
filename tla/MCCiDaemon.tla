----------------------------- MODULE MCCiDaemon -----------------------------
(* Small instances of CiDaemon: constants and symmetry for TLC.             *)
EXTENDS CiDaemon, TLC

CONSTANTS c1, c2, c3, a1, a2, b1, s1, s2, e1, e2

\* Two subtests of one test file and one of another.
TwoTests == (a1 :> "a") @@ (a2 :> "a") @@ (b1 :> "b")
OneTest == (a1 :> "a") @@ (a2 :> "a")
OneSubtest == (a1 :> "a")

\* The commits in the order of their history.
Order == (c1 :> 1) @@ (c2 :> 2) @@ (c3 :> 3)
OrderOne == (c1 :> 1)
OrderTwo == (c1 :> 1) @@ (c2 :> 2)

\* The branch of the only source stays where it is.
Fixed == (s1 :> {{c1}})
\* Two sources; the branch of one moves to a second commit and may be rewound.
Moving == (s1 :> {{c1}, {c1, c2}}) @@ (s2 :> {{c3}})
\* Two sources; the branch of one is rewound past its only commit, and comes back.
Leaving == (s1 :> {{c1}, {}}) @@ (s2 :> {{c2}})
\* Two sources whose branches share a commit.
Shared == (s1 :> {{c1}}) @@ (s2 :> {{c1}})

\* Executors are alike, and so are the two subtests of test file "a".
Symmetry == Permutations(Executors) \cup Permutations({a1, a2})
=============================================================================
