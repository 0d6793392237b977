------------------------------ MODULE Supervisor ------------------------------
(***************************************************************************)
(* lib/supervisor.c: reads the console of one VM run line by line, keeps   *)
(* the status file of each subtest, bounds the run with an alarm that       *)
(* escalates from a marker in the console to SIGTERM and SIGKILL, and ends  *)
(* when the child does.  Its child is the run itself: build-test-kernel or  *)
(* ktest, qemu, and the guest's test loop (run_tests of tests/prelude.sh,   *)
(* lib/testrunner).                                                        *)
(*                                                                         *)
(* Time passes in ticks.  A tick is long for the supervisor, which reads    *)
(* what is in the pipe before the clock moves on, and short enough that     *)
(* the child writes at most Burst lines in it.  Signals arrive between    *)
(* any two steps.  Lines are whole: the pieces of a line are not modelled.  *)
(***************************************************************************)
EXTENDS TestStatus, Integers, Sequences

CONSTANTS
  Subtests,        \* the subtests of this run, in order
  NoVMs,           \* the values of ktest_no_vm: the tests may run on the host
  ExitOnFailure,   \* -F
  ExitOnSuccess,   \* -S
  FailFast,        \* ktest_failfast
  DefaultTimeout,  \* -T, in ticks
  EchoGrace, KillGrace, PostMortem,    \* alarm(30), alarm(10), alarm(5)
  Watchdogs,       \* values of WATCHDOG lines (each subtest prints at most one)
  Spews,           \* kinds of lines a crashed kernel may repeat for ever
  PipeCap,         \* lines the console pipe holds
  Burst            \* bound: lines the child writes in a tick

Names == {Subtests[i] : i \in 1..Len(Subtests)}
Kinds == {"TEST", "PASSED", "FAILED", "NOTRUN", "TIMEOUT", "TEST_SUCCESS", "TEST_FAILED",
          "WATCHDOG", "BUG", "other"}
Endings == {"PASSED", "FAILED", "NOTRUN"}
Plain == Kinds \ ({"TEST", "TIMEOUT", "WATCHDOG"} \cup Endings)
Lines ==
  [kind : {"TEST"} \cup Endings, arg : Names] \cup [kind : {"TIMEOUT"}, arg : Names \cup {None}]
  \cup [kind : {"WATCHDOG"}, arg : Watchdogs] \cup [kind : Plain, arg : {None}]

ASSUME SupervisorConstantsOK ==
  /\ Subtests \in Seq(Names) /\ Len(Subtests) > 0 /\ None \notin Names \cup Kinds \cup Lines
  /\ \A i, j \in 1..Len(Subtests) : Subtests[i] = Subtests[j] => i = j
  /\ NoVMs \cup {ExitOnFailure, ExitOnSuccess, FailFast} \subseteq BOOLEAN
  /\ DefaultTimeout \in Nat /\ Watchdogs \subseteq Nat
  /\ {EchoGrace, KillGrace, PostMortem} \subseteq Nat \ {0}
  /\ Spews \subseteq {"other", "BUG"} /\ {PipeCap, Burst} \subseteq Nat \ {0}

VARIABLES
  sup,             \* where the supervisor is
  line,            \* the line it is working on, or None
  current_test, logOpen,   \* current_test, and whether current_test_log is open
  status,          \* status[t]: text of the subtest's status file
  timer,           \* ticks until SIGALRM; 0: no alarm
  timeout_stage,
  pipe,            \* the console: lines written and not read
  child,           \* "alive" or "dead"
  sigchld,         \* a SIGCHLD is pending
  sigkill,         \* the child was sent SIGKILL
  no_vm,           \* ktest_no_vm: the run is on the host, under run_tests_host()
  guest,           \* where the run is: "next", "test", "end", "done" or "crashed"
  nr,              \* subtests begun
  failed,          \* some subtest failed
  watched,         \* this subtest has set its watchdog
  said,            \* said[t]: the ending the run reported for t, or None
  room             \* lines the child may still write in this tick

supVars == <<sup, line, current_test, logOpen, status, timer, timeout_stage>>
sigVars == <<child, sigchld, sigkill>>
guestVars == <<no_vm, guest, nr, failed, watched, said>>
vars == <<supVars, pipe, sigVars, guestVars, room>>

\* The daemon has marked every subtest before it starts the supervisor.
Init ==
  /\ sup = "boot" /\ line = None /\ current_test = None /\ logOpen = FALSE
  /\ status = [t \in Names |-> "IN_PROGRESS"]
  /\ timer = 0 /\ timeout_stage = 0 /\ pipe = <<>>
  /\ child = "alive" /\ sigchld = FALSE /\ sigkill = FALSE
  /\ no_vm \in NoVMs /\ guest = "next" /\ nr = 0 /\ failed = FALSE /\ watched = FALSE
  /\ said = [t \in Names |-> None] /\ room = Burst

Over == sup \in {"exited", "terminated"}
Up == sup # "boot" /\ ~Over

-------------------------------------------------------------------------------
(* The child.                                                              *)

Line(kind, arg) == [kind |-> kind, arg |-> arg]

\* One line to the console.  The supervisor made the pipe non-blocking for its own
\* handler, and so for the child: qemu waits for room, cat drops the line.
Emit(l) ==
  /\ child = "alive" /\ ~Over /\ room > 0
  /\ room' = room - 1
  /\ \/ Len(pipe) < PipeCap /\ pipe' = Append(pipe, l)
     \/ Len(pipe) = PipeCap /\ no_vm /\ pipe' = pipe

TestBegins ==
  /\ guest = "next" /\ Emit(Line("TEST", Subtests[nr + 1]))
  /\ guest' = "test" /\ nr' = nr + 1 /\ watched' = FALSE
  /\ UNCHANGED <<no_vm, supVars, sigVars, failed, said>>

\* A failed subtest ends the loop when failfast is set or it is the only one.
TestEnds ==
  /\ guest = "test"
  /\ \E v \in {"PASSED", "NOTRUN", "FAILED"} :
       /\ Emit(Line(v, Subtests[nr]))
       /\ said' = [said EXCEPT ![Subtests[nr]] = v]
       /\ failed' = (failed \/ v = "FAILED")
       /\ guest' = IF nr = Len(Subtests) \/ (v = "FAILED" /\ FailFast) THEN "end" ELSE "next"
  /\ UNCHANGED <<no_vm, supVars, sigVars, nr, watched>>

set_watchdog ==
  /\ guest = "test" /\ ~watched /\ \E n \in Watchdogs : Emit(Line("WATCHDOG", n))
  /\ watched' = TRUE
  /\ UNCHANGED <<no_vm, supVars, sigVars, guest, nr, failed, said>>

\* The kernel panics or hits a BUG; it may go on printing.
KernelCrash ==
  /\ guest \in {"next", "test"} /\ ~no_vm /\ Emit(Line("BUG", None))
  /\ guest' = "crashed"
  /\ UNCHANGED <<no_vm, supVars, sigVars, nr, failed, watched, said>>

Chatter ==
  /\ \E k \in IF guest = "crashed" THEN Spews ELSE {"other"} : Emit(Line(k, None))
  /\ UNCHANGED <<supVars, sigVars, guestVars>>

\* testrunner prints TEST SUCCESS; run_tests_host prints TEST PASSED, which is no
\* line the supervisor knows.
RunEnds ==
  /\ guest = "end"
  /\ Emit(Line(IF failed THEN "TEST_FAILED" ELSE IF no_vm THEN "other" ELSE "TEST_SUCCESS", None))
  /\ guest' = "done"
  /\ UNCHANGED <<no_vm, supVars, sigVars, nr, failed, watched, said>>

\* The child exits at any moment: a failed build, a dead qemu, a power-off, SIGTERM.
\* Before the handler is installed the signal is lost.
ChildExits ==
  /\ child = "alive" /\ child' = "dead" /\ sigchld' = Up
  /\ UNCHANGED <<supVars, pipe, sigkill, guestVars, room>>

-------------------------------------------------------------------------------
(* The supervisor's main loop.                                             *)

set_timeout(n) == timer' = n /\ timeout_stage' = 0

\* The handlers are installed after the child was started.
Install ==
  /\ sup = "boot" /\ sup' = "read" /\ set_timeout(DefaultTimeout)
  /\ UNCHANGED <<line, current_test, logOpen, status, pipe, sigVars, guestVars, room>>

test_is_ending(l) == l.kind \in {"PASSED", "FAILED", "NOTRUN", "TIMEOUT"}

\* Mutant of test_start: the current test is not replaced.
MutStartKeepsTest(t) ==
  /\ current_test' = IF current_test = None THEN t ELSE current_test
  /\ logOpen' = TRUE /\ status' = [status EXCEPT ![t] = ""]

\* test_start(): the new test's log, then its status file, truncated before written.
test_start(t) ==
  /\ current_test' = t /\ logOpen' = TRUE
  /\ status' = [status EXCEPT ![t] = ""]

\* One line: a WATCHDOG sets the alarm; the start of a test ends the one before it
\* and opens its status file; an ending opens the status file of the current test.
Read ==
  /\ sup = "read" /\ pipe # <<>>
  /\ line' = Head(pipe) /\ pipe' = Tail(pipe)
  /\ LET l == Head(pipe)
     IN \/ /\ l.kind = "WATCHDOG" /\ sup' = "tail" /\ set_timeout(l.arg)
           /\ UNCHANGED <<current_test, logOpen, status>>
        \/ /\ l.kind = "TEST" /\ sup' = "started" /\ test_start(l.arg)
           /\ IF logOpen THEN set_timeout(DefaultTimeout) ELSE UNCHANGED <<timer, timeout_stage>>
        \/ /\ test_is_ending(l) /\ logOpen /\ sup' = "ended"
           /\ status' = [status EXCEPT ![current_test] = ""]
           /\ UNCHANGED <<current_test, logOpen, timer, timeout_stage>>
        \/ /\ l.kind \notin {"WATCHDOG", "TEST"} /\ ~(test_is_ending(l) /\ logOpen)
           /\ sup' = "tail"
           /\ UNCHANGED <<current_test, logOpen, status, timer, timeout_stage>>
  /\ UNCHANGED <<sigVars, guestVars, room>>

\* A test that starts has failed, until it says otherwise.
WriteStart ==
  /\ sup = "started" /\ sup' = "tail" /\ set_timeout(DefaultTimeout)
  /\ status' = [status EXCEPT ![current_test] = "FAILED"]
  /\ UNCHANGED <<line, current_test, logOpen, pipe, sigVars, guestVars, room>>

\* Mutants of test_end: the log stays open; the word is taken as it is.
MutEndKeepsLog == UNCHANGED logOpen /\ set_timeout(DefaultTimeout)
MutEndText(l) == l.kind

\* test_end(): the test's log is closed.
test_end == logOpen' = FALSE /\ set_timeout(DefaultTimeout)

\* What the ending line is as a status text: the marker has the word FAILED.
EndText(l) == IF l.kind = "TIMEOUT" THEN "FAILED" ELSE l.kind

MutWriteEnd ==
  /\ sup = "ended" /\ sup' = "tail" /\ test_end
  /\ UNCHANGED <<line, current_test, status, pipe, sigVars, guestVars, room>>

\* The ending line becomes the status, and the test's log is closed.
WriteEnd ==
  /\ sup = "ended" /\ sup' = "tail" /\ test_end
  /\ status' = [status EXCEPT ![current_test] = EndText(line)]
  /\ UNCHANGED <<line, current_test, pipe, sigVars, guestVars, room>>

Finishes(l) ==
  \/ ExitOnFailure /\ l.kind \in {"TEST_FAILED", "TIMEOUT"}
  \/ ExitOnSuccess /\ l.kind = "TEST_SUCCESS"

\* After the line: leave the loop, or arm the post-mortem alarm, or go on.
LineDone ==
  /\ sup = "tail" /\ line' = None
  /\ sup' = IF Finishes(line) THEN "exited" ELSE "read"
  /\ timer' = IF ExitOnFailure /\ line.kind = "BUG" THEN PostMortem ELSE timer
  /\ UNCHANGED <<current_test, logOpen, status, timeout_stage, pipe, sigVars, guestVars, room>>

-------------------------------------------------------------------------------
(* Signals and time.                                                       *)

child_handler ==
  /\ Up /\ sigchld /\ sup' = "exited" /\ sigchld' = FALSE
  /\ UNCHANGED <<line, current_test, logOpen, status, timer, timeout_stage, pipe, child,
                 sigkill, guestVars, room>>

\* SIGHUP when the ssh connection drops, or an operator's SIGTERM.
term_handler ==
  /\ ~Over /\ sup' = "terminated"
  /\ UNCHANGED <<line, current_test, logOpen, status, timer, timeout_stage, pipe, sigVars,
                 guestVars, room>>

Accepted == Len(pipe) < PipeCap

\* Mutant of Rearm: no alarm follows the SIGTERM.
MutRearm == timer' = IF timeout_stage = 0 /\ Accepted THEN EchoGrace ELSE 0

\* The alarm after the one that fires: a grace period for the marker, or for the kill.
Rearm == timer' = IF timeout_stage = 0 /\ Accepted THEN EchoGrace ELSE KillGrace

\* The marker goes into the pipe if it takes it; then SIGTERM (ChildExits may follow
\* or not), then SIGKILL, again and again.
alarm_handler ==
  /\ Up /\ timer = 1 /\ Rearm
  /\ pipe' = IF timeout_stage = 0 /\ Accepted
             THEN Append(pipe, Line("TIMEOUT", current_test)) ELSE pipe
  /\ timeout_stage' = IF timeout_stage = 0 /\ Accepted THEN 1 ELSE 2
  /\ sigkill' = (sigkill \/ timeout_stage = 2)
  /\ UNCHANGED <<sup, line, current_test, logOpen, status, child, sigchld, guestVars, room>>

Killed ==
  /\ sigkill /\ child = "alive" /\ child' = "dead" /\ sigchld' = Up
  /\ UNCHANGED <<supVars, pipe, sigkill, guestVars, room>>

Tick ==
  /\ sup = "read" /\ pipe = <<>> /\ timer # 1 /\ <<timer, room>> # <<0, Burst>>
  /\ timer' = IF timer = 0 THEN 0 ELSE timer - 1
  /\ room' = Burst
  /\ UNCHANGED <<sup, line, current_test, logOpen, status, timeout_stage, pipe, sigVars,
                 guestVars>>

-------------------------------------------------------------------------------
ChildStep ==
  TestBegins \/ TestEnds \/ set_watchdog \/ KernelCrash \/ Chatter \/ RunEnds \/ ChildExits

Loop == Install \/ Read \/ WriteStart \/ WriteEnd \/ LineDone

Next == ChildStep \/ Loop \/ child_handler \/ term_handler \/ alarm_handler \/ Killed \/ Tick

Spec == Init /\ [][Next]_vars

\* The supervisor runs, signals are delivered and the clock goes on.  The child owes
\* nothing but to die of a SIGKILL.
FairSpec ==
  /\ Spec /\ WF_vars(Loop) /\ WF_vars(child_handler) /\ WF_vars(alarm_handler)
  /\ WF_vars(Killed) /\ WF_vars(Tick)

-------------------------------------------------------------------------------
(* Correctness.                                                            *)

\* The type invariant of the supervisor and its child.
TypeOK ==
  /\ sup \in {"boot", "read", "started", "ended", "tail", "exited", "terminated"}
  /\ line \in Lines \cup {None} /\ current_test \in Names \cup {None} /\ logOpen \in BOOLEAN
  /\ status \in [Names -> StatusText]
  /\ timer \in Nat /\ timeout_stage \in 0..2
  /\ pipe \in Seq(Lines) /\ Len(pipe) <= PipeCap
  /\ child \in {"alive", "dead"} /\ sigchld \in BOOLEAN /\ sigkill \in BOOLEAN
  /\ no_vm \in NoVMs
  /\ guest \in {"next", "test", "end", "done", "crashed"} /\ nr \in 0..Len(Subtests)
  /\ failed \in BOOLEAN /\ watched \in BOOLEAN
  /\ said \in [Names -> {None, "PASSED", "NOTRUN", "FAILED"}] /\ room \in 0..Burst

\* A status file never says PASSED, or NOTRUN, of a test that did not report it,
\* whatever signals, timeouts and crashes did to the reading of the console.  (On the host
\* the start of a test can be dropped, and its ending is then taken for the test before.)
VerdictIsEarned ==
  ~no_vm => \A t \in Names : status[t] \in {"PASSED", "NOTRUN"} => said[t] = status[t]

\* At most the status file of the current test is ever found empty, which the daemon
\* takes for a test that was never reached.
TornIsCurrent ==
  \A t \in Names : status[t] = "" => t = current_test /\ (sup \in {"started", "ended"} \/ Over)

\* An ending that was recorded is final: neither the next test's lines nor the marker
\* of an alarm between two tests changes it.
EndingStands ==
  [][\A t \in Names : status[t] \in {"PASSED", "NOTRUN"} => status'[t] = status[t]]_vars

\* The supervisor comes to an end, however the run hangs, as long as it has a timeout.
SupervisorExits == <>Over


-------------------------------------------------------------------------------
(* The inductive invariant behind the theorems of Supervisor_proofs.       *)

\* What the places in the main loop and in the test loop say about the rest.
PlaceInv ==
  /\ logOpen => current_test # None
  /\ sup \in {"started", "ended"} => logOpen
  /\ sup \in {"started", "ended", "tail"} => line # None
  /\ sup = "ended" => test_is_ending(line)
  /\ guest = "next" => nr < Len(Subtests)
  /\ guest = "test" => nr > 0

IsTest(l, t) == l.kind = "TEST" /\ l.arg = t

\* The start of t is in the pipe, or still to be written.
Coming(t) ==
  \/ \E i \in 1..Len(pipe) : IsTest(pipe[i], t)
  \/ \E k \in (nr + 1)..Len(Subtests) : Subtests[k] = t

\* A test starts once: nothing is recorded for one that is still to start, and a test
\* with an open log has no ending yet.
StartInv ==
  /\ \A t \in Names : Coming(t) => status[t] = "IN_PROGRESS" /\ t # current_test
  /\ \A i, j \in 1..Len(pipe) :
       pipe[i].kind = "TEST" /\ pipe[j].kind = "TEST" /\ pipe[i].arg = pipe[j].arg => i = j
  /\ \A i \in 1..Len(pipe), k \in (nr + 1)..Len(Subtests) : ~IsTest(pipe[i], Subtests[k])
  /\ logOpen => status[current_test] \notin {"PASSED", "NOTRUN"}

\* The test that is current when the supervisor comes to the i-th line of the pipe.
CurrentAt(i, t) ==
  \/ \E j \in 1..(i - 1) :
       IsTest(pipe[j], t) /\ \A k \in (j + 1)..(i - 1) : pipe[k].kind # "TEST"
  \/ current_test = t /\ \A k \in 1..(i - 1) : pipe[k].kind # "TEST"

\* In a VM every ending in the pipe was said by the test it names, which is the current
\* one when the line is read; and so is the one that is being written.
OrderInv ==
  ~no_vm =>
    /\ \A i \in 1..Len(pipe) : pipe[i].kind \in Endings =>
         said[pipe[i].arg] = pipe[i].kind /\ CurrentAt(i, pipe[i].arg)
    /\ guest = "test" => CurrentAt(Len(pipe) + 1, Subtests[nr]) /\ said[Subtests[nr]] = None
    /\ \A k \in (nr + 1)..Len(Subtests) : said[Subtests[k]] = None
    /\ sup = "ended" /\ line.kind \in Endings =>
         line.arg = current_test /\ said[line.arg] = line.kind

===============================================================================
