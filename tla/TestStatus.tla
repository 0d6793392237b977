------------------------------ MODULE TestStatus ------------------------------
(***************************************************************************)
(* The verdict of one subtest (TestStatus, src/lib.rs), the text of the    *)
(* `status` file that carries it between the supervisor, the daemon and    *)
(* the maintenance tools, and the two predicates of src/jobs.rs that       *)
(* decide from a recorded status whether the subtest is run again.         *)
(***************************************************************************)

CONSTANT None       \* no value: a subtest without a result, an empty slot

Status == {"Inprogress", "Passed", "Failed", "Notrun", "FailedToRun", "Unknown"}

\* What a status file can say.  A text stands for every file content with the
\* same recognised words: "PASSED" is "PASSED t in 3s", "FAILED" is
\* "TEST FAILED" and "FAILED t in 3s" alike, "garbled" has no known word.  The blanks
\* within the words are written as underscores.
StatusText == {"", "IN_PROGRESS", "PASSED", "FAILED", "NOTRUN", "FAILED_TO_RUN",
               "NOT_STARTED", "garbled"}

\* The words of from_str() that a text contains.
Words(text) ==
  CASE text \in {"", "garbled"}  -> {}
    [] text = "FAILED_TO_RUN"    -> {"FAILED", "FAILED_TO_RUN"}
    [] OTHER                     -> {text}

\* from_str() on the text of a file: the tests are made in this order.
from_str(text) ==
  IF text = "" \/ "IN_PROGRESS" \in Words(text) THEN "Inprogress"
  ELSE IF "PASSED" \in Words(text) THEN "Passed"
  ELSE IF "FAILED" \in Words(text) THEN "Failed"
  ELSE IF "NOTRUN" \in Words(text) THEN "Notrun"
  ELSE IF {"FAILED_TO_RUN", "NOT_STARTED"} \cap Words(text) # {} THEN "FailedToRun"
  ELSE "Unknown"

\* A verdict was recorded: re-running the subtest would not change it.
result_is_done(s) == s \in {"Passed", "Failed", "Notrun", "FailedToRun"}

\* Whether desired_jobs() emits a job for a subtest with this recorded status.
job_wanted(s) == s = None \/ (~result_is_done(s) /\ s # "Inprogress")

===============================================================================
