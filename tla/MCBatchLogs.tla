----------------------------- MODULE MCBatchLogs -----------------------------
(***************************************************************************)
(* Small instances of BatchLogs.                                           *)
(***************************************************************************)
EXTENDS BatchLogs, TLC

CONSTANTS s1, s2, s3

Three == <<s1, s2, s3>>
Sym == Permutations(Executors)
=============================================================================
