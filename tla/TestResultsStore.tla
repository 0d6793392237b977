--------------------------- MODULE TestResultsStore ---------------------------
(***************************************************************************)
(* TestResultsStore of src/lib.rs and the output_dir it is mirrored to:    *)
(* the in-memory map by_commit, one .capnp file and one result directory   *)
(* per commit, one `status` file per subtest.  A call that holds the       *)
(* store's mutex is one step; so is the temp-file-and-rename of a .capnp,   *)
(* which may fail: the file then stays as it was and the caller goes on.    *)
(***************************************************************************)
EXTENDS TestStatus, Naturals

CONSTANTS Commits,   \* 40-digit commit ids
          Keys,      \* subtest_result_key(): test[@kernel][@env].subtest
          MaxWriteErrors  \* bound: writes of a .capnp that fail

VARIABLES by_commit, \* by_commit[c][k]: the daemon's recorded status, or None
          capnp,     \* capnp[c][k]: what <c>.capnp says (no file: all None)
          status,    \* status[c][k]: text of <c>/<k>/status, or None
          dirs,      \* commits whose result directory exists
          write_errors  \* writes of a .capnp that failed so far (history)

storeVars == <<by_commit, capnp, status, dirs, write_errors>>

Results == [Keys -> Status \cup {None}]

NoResults == [k \in Keys |-> None]

StoreTypeOK ==
  /\ by_commit \in [Commits -> Results]
  /\ capnp \in [Commits -> Results]
  /\ status \in [Commits -> [Keys -> StatusText \cup {None}]]
  /\ dirs \subseteq Commits /\ write_errors \in Nat

StoreInit ==
  /\ by_commit = [c \in Commits |-> NoResults]
  /\ capnp = [c \in Commits |-> NoResults]
  /\ status = [c \in Commits |-> [k \in Keys |-> None]]
  /\ dirs = {} /\ write_errors = 0

-------------------------------------------------------------------------------
\* Mutant of read_test_result: the text itself is taken for the status.
MutReadRaw(c, k) == status[c][k]

\* read_test_result() of a result directory; None when it has no status file.
read_test_result(c, k) == IF status[c][k] = None THEN None ELSE from_str(status[c][k])

\* commitdir_get_results_fs(): a commit's results as its directories have them.
commitdir_get_results_fs(c) == [k \in Keys |-> read_test_result(c, k)]

\* results_to_capnp(): <c>.capnp is replaced by a file with the entries m, or stays as
\* it was.  Every caller only logs the error.
results_to_capnp(c, m) ==
  \/ capnp' = [capnp EXCEPT ![c] = m] /\ UNCHANGED write_errors
  \/ /\ write_errors < MaxWriteErrors
     /\ write_errors' = write_errors + 1 /\ UNCHANGED capnp

\* `updates` laid over the commit's map.
Merged(c, updates) ==
  [k \in Keys |-> IF k \in DOMAIN updates THEN updates[k] ELSE by_commit[c][k]]

\* Mutant of update: the file is rendered from the updates alone.
MutUpdateForgets(c, updates) ==
  IF DOMAIN updates = {} THEN UNCHANGED <<by_commit, capnp, write_errors>>
  ELSE /\ by_commit' = [by_commit EXCEPT ![c] = Merged(c, updates)]
       /\ results_to_capnp(c, [k \in Keys |-> IF k \in DOMAIN updates THEN updates[k] ELSE None])

\* update(): merge into the commit's map and rewrite its .capnp, under the lock.  The
\* map has the updates even when the file could not be written.
update(c, updates) ==
  IF DOMAIN updates = {} THEN UNCHANGED <<by_commit, capnp, write_errors>>
  ELSE /\ by_commit' = [by_commit EXCEPT ![c] = Merged(c, updates)]
       /\ results_to_capnp(c, Merged(c, updates))

\* Writing the same text into the status files of the subtests ks of commit c.
WriteStatus(c, ks, text) ==
  /\ status' = [status EXCEPT ![c] = [k \in Keys |-> IF k \in ks THEN text ELSE @[k]]]
  /\ dirs' = dirs \cup {c}

-------------------------------------------------------------------------------
\* Mutant of drop_status: entries a dead daemon left in progress survive.
MutDropFailedOnly(s, clear_failed_to_run) == clear_failed_to_run /\ s = "FailedToRun"

\* load(): statuses that do not survive a restart.
drop_status(s, clear_failed_to_run) ==
  s = "Inprogress" \/ (clear_failed_to_run /\ s = "FailedToRun")

Stale(c, clear) == {k \in Keys : drop_status(capnp[c][k], clear)}

\* The commit's entries without the stale ones.
Kept(c, clear) == [k \in Keys |-> IF k \in Stale(c, clear) THEN None ELSE capnp[c][k]]

\* Mutant of RemoveDirs: the whole commit directory is emptied.
MutRemoveCommit(c, ks) == status' = [status EXCEPT ![c] = [k \in Keys |-> None]]

\* remove_dir_all() of the subtests ks of one commit.
RemoveDirs(c, ks) ==
  status' = [status EXCEPT ![c] = [k \in Keys |-> IF k \in ks THEN None ELSE @[k]]]

\* commit_update_results(): the .capnp rebuilt from the result directories.
commit_update_results(c) ==
  /\ results_to_capnp(c, commitdir_get_results_fs(c))
  /\ UNCHANGED <<by_commit, status, dirs>>

===============================================================================
