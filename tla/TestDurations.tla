--------------------------- MODULE TestDurations ---------------------------
(***************************************************************************)
(* The history of the tests: gen-avg-duration (src/bin/gen-avg-duration.rs)*)
(* sums the results of all commits into one sorted table, test_stats()     *)
(* (src/lib.rs) looks a test up in it by binary search, and job_nice()     *)
(* (src/jobs.rs) turns the entry into a scheduling handicap.               *)
(*                                                                         *)
(* Test files, subtests, kernels, env variables and their values are       *)
(* numbers: what is modelled of a name is its place in the order of names. *)
(* The kernel 0 is the empty name, "build from the repo".                  *)
(***************************************************************************)
EXTENDS TestStatus, Ordering, FiniteSetsExt, SequencesExt

CONSTANT
  Unencodable    \* env values with a character that encode_env() refuses

\* The K=V pairs in the order of the variables.
encode_env(env) ==
  IF \E v \in DOMAIN env : env[v] \in Unencodable THEN None
  ELSE LET vs == Ordered(DOMAIN env, <)
       IN FlattenSeq([i \in DOMAIN vs |-> <<vs[i], env[vs[i]]>>])

\* The name of a result directory, under which results and durations are filed.
subtest_result_key(test, subtest, kernel, env) == <<test, kernel>> \o env \o <<0, subtest>>

-----------------------------------------------------------------------------
\* results[c]: the results of commit c by key.  The commits with a result for key.
Having(results, key) == {c \in DOMAIN results : key \in DOMAIN results[c]}

HavingStatus(results, key, status) ==
  Cardinality({c \in Having(results, key) : results[c][key].status = status})

\* The row of one test.  The division rounds down.
Average(results, key) ==
  [test     |-> key,
   nr       |-> Cardinality(Having(results, key)),
   passed   |-> HavingStatus(results, key, "Passed"),
   failed   |-> HavingStatus(results, key, "Failed"),
   duration |-> MapThenSumSet(LAMBDA c : results[c][key].duration, Having(results, key))
                  \div Cardinality(Having(results, key))]

\* read_duration_sums() and write_durations_capnp(): one row per test, sorted by name.
gen_avg_duration(results) ==
  LET keys == Ordered(UNION {DOMAIN results[c] : c \in DOMAIN results}, LexLess)
  IN [i \in DOMAIN keys |-> Average(results, keys[i])]

-----------------------------------------------------------------------------
\* Mutant of test_stats: the upper half is searched without its first row.
MutTestStats(table, key) ==
  LET find[w \in (0..(Len(table) + 1)) \X (0..Len(table))] ==
        LET m == w[1] + (w[2] - w[1]) \div 2
        IN IF w[1] >= w[2] THEN None
           ELSE IF LexLess(key, table[m + 1].test) THEN find[<<w[1], m>>]
           ELSE IF LexLess(table[m + 1].test, key) THEN find[<<m + 2, w[2]>>]
           ELSE table[m + 1]
  IN IF table = None THEN None ELSE find[<<0, Len(table)>>]

\* test_stats(): of w = <<l, r>>, rows l..r-1, counted from 0, are still to be searched.
test_stats(table, key) ==
  LET find[w \in (0..Len(table)) \X (0..Len(table))] ==
        LET m == w[1] + (w[2] - w[1]) \div 2
        IN IF w[1] >= w[2] THEN None
           ELSE IF LexLess(key, table[m + 1].test) THEN find[<<w[1], m>>]
           ELSE IF LexLess(table[m + 1].test, key) THEN find[<<m + 1, w[2]>>]
           ELSE table[m + 1]
  IN IF table = None THEN None ELSE find[<<0, Len(table)>>]

\* The base niceness of the group, more for a test whose history is long and lopsided,
\* and more for a slow one.  A setting of 0 turns its adjustment off.
job_nice(tg, stats) ==
  tg.nice
  + (IF stats # None /\ tg.test_always_passes_nice # 0 /\ stats.passed # stats.failed
        /\ stats.passed + stats.failed > tg.test_always_passes_nice
     THEN tg.test_always_passes_nice ELSE 0)
  + (IF stats # None /\ tg.test_duration_nice # 0
     THEN stats.duration \div tg.test_duration_nice ELSE 0)

=============================================================================
