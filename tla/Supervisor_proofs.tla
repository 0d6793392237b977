-------------------------- MODULE Supervisor_proofs --------------------------
(***************************************************************************)
(* Proofs about Supervisor for every list of subtests, every timeout,      *)
(* watchdog and pipe size, on the host and in a VM.                        *)
(***************************************************************************)
EXTENDS Supervisor, TLAPS

USE DEF supVars, sigVars, guestVars

Inv == TypeOK /\ PlaceInv

-------------------------------------------------------------------------------
(* Lines and the pipe.                                                     *)

\* The constants, one by one.
LEMMA Consts ==
  /\ DefaultTimeout \in Nat /\ EchoGrace \in Nat /\ KillGrace \in Nat /\ PostMortem \in Nat
  /\ PipeCap \in Nat /\ Burst \in Nat /\ Burst > 0 /\ PipeCap > 0
  /\ Subtests \in Seq(Names) /\ Len(Subtests) \in Nat /\ Len(Subtests) > 0
  /\ Spews \subseteq {"other", "BUG"}
  /\ None \notin Names /\ None \notin Kinds /\ None \notin Lines /\ Watchdogs \subseteq Nat
  BY SupervisorConstantsOK

\* The argument of a line fits its kind.
LEMMA LineType ==
  ASSUME NEW l \in Lines
  PROVE  /\ l.kind \in Kinds
         /\ l.kind = "TEST" => l.arg \in Names
         /\ l.kind \in Endings => l.arg \in Names
         /\ l.kind = "WATCHDOG" => l.arg \in Watchdogs
         /\ test_is_ending(l) => EndText(l) \in StatusText \ {""}
  BY DEF Lines, Kinds, Endings, Plain, test_is_ending, EndText, StatusText

\* The lines of the run and of the alarm are lines.
LEMMA LineMade ==
  /\ \A t \in Names : Line("TEST", t) \in Lines
  /\ \A v \in Endings, t \in Names : Line(v, t) \in Lines
  /\ \A t \in Names \cup {None} : Line("TIMEOUT", t) \in Lines
  /\ \A n \in Watchdogs : Line("WATCHDOG", n) \in Lines
  /\ \A k \in {"BUG", "other", "TEST_FAILED", "TEST_SUCCESS"} : Line(k, None) \in Lines
  BY DEF Line, Lines, Kinds, Endings, Plain

\* The n-th subtest is one of the names.
LEMMA SubtestName ==
  ASSUME NEW n \in 1..Len(Subtests) PROVE Subtests[n] \in Names
  BY DEF Names

\* A line that is emitted is at the end of the pipe, or, on the host, lost.
LEMMA EmitPipe ==
  ASSUME TypeOK, NEW l \in Lines, Emit(l)
  PROVE  /\ pipe' \in Seq(Lines) /\ Len(pipe') <= PipeCap /\ room' \in 0..Burst
         /\ pipe' = Append(pipe, l) \/ (no_vm /\ pipe' = pipe)
  <1>1. room' \in 0..Burst
    BY Consts DEF TypeOK, Emit
  <1>2. CASE Len(pipe) < PipeCap /\ pipe' = Append(pipe, l)
    BY <1>1, <1>2, Consts DEF TypeOK
  <1>3. CASE no_vm /\ pipe' = pipe
    BY <1>1, <1>3 DEF TypeOK
  <1>4. QED
    BY <1>2, <1>3 DEF Emit

-------------------------------------------------------------------------------
(* Type correctness.                                                       *)

LEMMA InitType == Init => Inv
  <1> SUFFICES ASSUME Init PROVE Inv
    OBVIOUS
  <1>1. TypeOK
    <2>1. status \in [Names -> StatusText] /\ said \in [Names -> {None, "PASSED", "NOTRUN", "FAILED"}]
      BY DEF Init, StatusText
    <2>2. pipe \in Seq(Lines) /\ Len(pipe) <= PipeCap /\ nr \in 0..Len(Subtests) /\ room \in 0..Burst
      BY Consts DEF Init
    <2>3. timer \in Nat /\ timeout_stage \in 0..2
      BY DEF Init
    <2>4. QED
      BY <2>1, <2>2, <2>3 DEF Init, TypeOK
  <1>2. PlaceInv
    BY Consts DEF Init, PlaceInv
  <1>3. QED
    BY <1>1, <1>2 DEF Inv

\* The steps of the child keep the types.
LEMMA ChildType ==
  ASSUME Inv, ChildStep PROVE Inv'
  <1> USE Consts DEF Inv, TypeOK, PlaceInv, test_is_ending
  <1>1. CASE TestBegins
    <2>1. nr + 1 \in 1..Len(Subtests)
      BY <1>1 DEF TestBegins
    <2>2. Line("TEST", Subtests[nr + 1]) \in Lines
      BY <2>1, SubtestName, LineMade
    <2>3. /\ pipe' \in Seq(Lines) /\ Len(pipe') <= PipeCap /\ room' \in 0..Burst
          /\ nr' \in 0..Len(Subtests) /\ nr' > 0
      BY <1>1, <2>1, <2>2, EmitPipe DEF TestBegins
    <2>4. QED
      BY <1>1, <2>3 DEF TestBegins
  <1>2. CASE TestEnds
    <2>1. nr \in 1..Len(Subtests) /\ Subtests[nr] \in Names
      BY <1>2, SubtestName DEF TestEnds
    <2>2. PICK v \in {"PASSED", "NOTRUN", "FAILED"} :
            /\ Emit(Line(v, Subtests[nr]))
            /\ said' = [said EXCEPT ![Subtests[nr]] = v]
            /\ failed' = (failed \/ v = "FAILED")
            /\ guest' = IF nr = Len(Subtests) \/ (v = "FAILED" /\ FailFast) THEN "end" ELSE "next"
      BY <1>2 DEF TestEnds
    <2>3. Line(v, Subtests[nr]) \in Lines
      BY <2>1, LineMade DEF Endings
    <2>4. QED
      BY <1>2, <2>1, <2>2, <2>3, EmitPipe DEF TestEnds
  <1>3. CASE set_watchdog
    <2>1. PICK n \in Watchdogs : Emit(Line("WATCHDOG", n))
      BY <1>3 DEF set_watchdog
    <2>2. QED
      BY <1>3, <2>1, LineMade, EmitPipe DEF set_watchdog
  <1>4. CASE KernelCrash
    BY <1>4, LineMade, EmitPipe DEF KernelCrash
  <1>5. CASE Chatter
    <2>1. PICK k \in {"BUG", "other"} : Emit(Line(k, None))
      BY <1>5 DEF Chatter
    <2>2. QED
      BY <1>5, <2>1, LineMade, EmitPipe DEF Chatter
  <1>6. CASE RunEnds
    <2>1. PICK k \in {"TEST_FAILED", "other", "TEST_SUCCESS"} : Emit(Line(k, None))
      BY <1>6 DEF RunEnds
    <2>2. QED
      BY <1>6, <2>1, LineMade, EmitPipe DEF RunEnds
  <1>7. CASE ChildExits
    BY <1>7 DEF ChildExits, Up, Over
  <1>8. QED
    BY <1>1, <1>2, <1>3, <1>4, <1>5, <1>6, <1>7 DEF ChildStep

\* The head of the pipe is a line, and the rest of the pipe is a pipe.
LEMMA PipeHead ==
  ASSUME TypeOK, pipe # <<>>
  PROVE  /\ Head(pipe) \in Lines /\ Tail(pipe) \in Seq(Lines)
         /\ Len(Tail(pipe)) = Len(pipe) - 1 /\ Head(pipe) = pipe[1] /\ Len(pipe) > 0
         /\ \A i \in 1..(Len(pipe) - 1) : Tail(pipe)[i] = pipe[i + 1]
  BY DEF TypeOK

\* The steps of the main loop keep the types.
LEMMA LoopType ==
  ASSUME Inv, Loop PROVE Inv'
  <1> USE Consts DEF Inv, TypeOK, PlaceInv
  <1>1. CASE Install
    BY <1>1 DEF Install, set_timeout, test_is_ending
  <1>2. CASE Read
    <2> DEFINE l == Head(pipe)
    <2>1. /\ l \in Lines /\ pipe' \in Seq(Lines) /\ Len(pipe') <= PipeCap
          /\ line' = l /\ l # None
      <3>1. pipe # <<>> /\ pipe' = Tail(pipe) /\ line' = Head(pipe)
        BY <1>2 DEF Read
      <3>2. QED
        BY <3>1, PipeHead
    <2> HIDE DEF l
    <2>2. CASE l.kind = "WATCHDOG" /\ sup' = "tail" /\ set_timeout(l.arg)
               /\ UNCHANGED <<current_test, logOpen, status>>
      <3>0. l.arg \in Nat
        BY <2>1, <2>2, LineType
      <3>1. timer' \in Nat /\ timeout_stage' \in 0..2
        BY <2>2, <3>0 DEF set_timeout
      <3>2. QED
        BY <1>2, <2>1, <2>2, <3>1 DEF Read
    <2>3. CASE /\ l.kind = "TEST" /\ sup' = "started" /\ test_start(l.arg)
               /\ IF logOpen THEN set_timeout(DefaultTimeout) ELSE UNCHANGED <<timer, timeout_stage>>
      <3>1. l.arg \in Names
        BY <2>1, <2>3, LineType
      <3>2. status' \in [Names -> StatusText]
        BY <2>3, <3>1 DEF test_start, StatusText
      <3>3. timer' \in Nat /\ timeout_stage' \in 0..2
        BY <2>3 DEF set_timeout
      <3>4. QED
        BY <1>2, <2>1, <2>3, <3>1, <3>2, <3>3 DEF Read, test_start
    <2>4. CASE /\ test_is_ending(l) /\ logOpen /\ sup' = "ended"
               /\ status' = [status EXCEPT ![current_test] = ""]
               /\ UNCHANGED <<current_test, logOpen, timer, timeout_stage>>
      <3>1. status' \in [Names -> StatusText]
        BY <2>4 DEF StatusText
      <3>2. test_is_ending(line')
        BY <2>1, <2>4
      <3>3. QED
        BY <1>2, <2>1, <2>4, <3>1, <3>2 DEF Read, test_is_ending
    <2>5. CASE sup' = "tail" /\ UNCHANGED <<current_test, logOpen, status, timer, timeout_stage>>
      BY <1>2, <2>1, <2>5 DEF Read
    <2>6. QED
      BY <1>2, <2>2, <2>3, <2>4, <2>5 DEF Read, l
  <1>3. CASE WriteStart
    <2>1. status' \in [Names -> StatusText]
      BY <1>3 DEF WriteStart, StatusText
    <2>2. line # None /\ line \in Lines
      BY <1>3 DEF WriteStart
    <2>3. QED
      BY <1>3, <2>1, <2>2 DEF WriteStart, set_timeout
  <1>4. CASE WriteEnd
    <2>1. EndText(line) \in StatusText
      BY <1>4, LineType DEF WriteEnd
    <2>2. status' \in [Names -> StatusText]
      BY <1>4, <2>1 DEF WriteEnd
    <2>3. timer' \in Nat /\ timeout_stage' \in 0..2
      BY <1>4 DEF WriteEnd, test_end, set_timeout
    <2>4. QED
      BY <1>4, <2>2, <2>3 DEF WriteEnd, test_end
  <1>5. CASE LineDone
    BY <1>5 DEF LineDone
  <1>6. QED
    BY <1>1, <1>2, <1>3, <1>4, <1>5 DEF Loop

\* Signals and time keep the types.
LEMMA SignalType ==
  ASSUME Inv, child_handler \/ term_handler \/ alarm_handler \/ Killed \/ Tick
  PROVE  Inv'
  <1> USE Consts DEF Inv, TypeOK, PlaceInv, test_is_ending
  <1>1. CASE child_handler
    BY <1>1 DEF child_handler
  <1>2. CASE term_handler
    BY <1>2 DEF term_handler
  <1>3. CASE alarm_handler
    <2>1. pipe' \in Seq(Lines) /\ Len(pipe') <= PipeCap
      BY <1>3, LineMade DEF alarm_handler, Accepted
    <2>2. timer' \in Nat /\ timeout_stage' \in 0..2 /\ sigkill' \in BOOLEAN
      BY <1>3 DEF alarm_handler, Rearm
    <2>3. QED
      BY <1>3, <2>1, <2>2 DEF alarm_handler
  <1>4. CASE Killed
    BY <1>4 DEF Killed, Up, Over
  <1>5. CASE Tick
    BY <1>5 DEF Tick
  <1>6. QED
    BY <1>1, <1>2, <1>3, <1>4, <1>5

LEMMA StepType ==
  ASSUME Inv, [Next]_vars PROVE Inv'
  <1>1. CASE UNCHANGED vars
    BY <1>1 DEF vars, Inv, TypeOK, PlaceInv, test_is_ending
  <1>2. QED
    BY <1>1, ChildType, LoopType, SignalType DEF Next

LEMMA AlwaysInv == Spec => []Inv
  BY InitType, StepType, PTL DEF Spec

\* The status files, the alarm, the console and the test loop keep their types, whatever
\* lines, signals and timeouts come (lib/supervisor.c).
THEOREM TypeCorrect == Spec => []TypeOK
  <1>1. Inv => TypeOK
    BY DEF Inv
  <1>2. QED
    BY <1>1, AlwaysInv, PTL

-------------------------------------------------------------------------------
(* Torn status files.                                                      *)

LEMMA InitTorn == Init => TornIsCurrent
  BY DEF Init, TornIsCurrent

LEMMA StepTorn ==
  ASSUME Inv, TornIsCurrent, [Next]_vars PROVE TornIsCurrent'
  <1> USE DEF Inv, TypeOK, PlaceInv, TornIsCurrent, Over
  <1>1. CASE UNCHANGED <<sup, current_test, status>>
    BY <1>1
  <1>2. CASE Install
    BY <1>2 DEF Install
  <1>3. CASE Read
    <2>1. \A t \in Names : status[t] # ""
      BY <1>3 DEF Read
    <2>2. CASE sup' = "started" /\ test_start(Head(pipe).arg)
      BY <2>1, <2>2 DEF test_start
    <2>3. CASE sup' = "ended" /\ status' = [status EXCEPT ![current_test] = ""]
               /\ UNCHANGED current_test
      BY <2>1, <2>3
    <2>4. CASE UNCHANGED status
      BY <2>1, <2>4
    <2>5. QED
      BY <1>3, <2>2, <2>3, <2>4 DEF Read
  <1>4. CASE WriteStart
    BY <1>4 DEF WriteStart
  <1>5. CASE WriteEnd
    <2>1. EndText(line) # ""
      BY <1>5, LineType DEF WriteEnd
    <2>2. QED
      BY <1>5, <2>1 DEF WriteEnd
  <1>6. CASE LineDone
    BY <1>6 DEF LineDone
  <1>7. CASE child_handler \/ term_handler
    BY <1>7 DEF child_handler, term_handler
  <1>8. QED
    BY <1>1, <1>2, <1>3, <1>4, <1>5, <1>6, <1>7 DEF Next, vars, ChildStep, Loop, TestBegins,
       TestEnds, set_watchdog, KernelCrash, Chatter, RunEnds, ChildExits, alarm_handler, Killed, Tick

\* At most the status file of the current test is found empty, and only while it is being
\* written or when a signal ended the supervisor there (test_start, the ending of a test).
THEOREM OnlyCurrentTorn == Spec => []TornIsCurrent
  BY InitTorn, StepTorn, AlwaysInv, PTL DEF Spec

-------------------------------------------------------------------------------
(* Endings are final.                                                      *)

\* A name has one place in the list.
LEMMA SubtestsDistinct ==
  ASSUME NEW i \in 1..Len(Subtests), NEW j \in 1..Len(Subtests), Subtests[i] = Subtests[j]
  PROVE  i = j
  BY SupervisorConstantsOK

\* What an Append does to the lines of the pipe.
LEMMA AppendPipe ==
  ASSUME TypeOK, NEW l \in Lines
  PROVE  /\ Len(Append(pipe, l)) = Len(pipe) + 1 /\ Len(pipe) \in Nat
         /\ Append(pipe, l)[Len(pipe) + 1] = l
         /\ \A i \in 1..Len(pipe) : Append(pipe, l)[i] = pipe[i]
  BY DEF TypeOK

LEMMA InitStart == Init => StartInv
  <1> SUFFICES ASSUME Init PROVE StartInv
    OBVIOUS
  <1>1. Len(pipe) = 0
    BY DEF Init
  <1>2. \A t \in Names : status[t] = "IN_PROGRESS" /\ t # current_test
    BY Consts DEF Init
  <1>3. ~logOpen
    BY DEF Init
  <1>4. 1..Len(pipe) = {}
    BY <1>1
  <1>5. QED
    BY <1>2, <1>3, <1>4 DEF StartInv

\* Reading takes the first line of the pipe.
LEMMA ReadPipe ==
  ASSUME TypeOK, Read
  PROVE  /\ Head(pipe) \in Lines /\ Head(pipe) = pipe[1] /\ Len(pipe) \in Nat /\ Len(pipe) > 0
         /\ Len(pipe') = Len(pipe) - 1 /\ \A i \in 1..Len(pipe') : pipe'[i] = pipe[i + 1]
  <1>1. pipe # <<>> /\ pipe' = Tail(pipe)
    BY DEF Read
  <1>2. Len(pipe) \in Nat
    BY DEF TypeOK
  <1>3. QED
    BY <1>1, <1>2, PipeHead

\* A line that starts no test changes nothing.
LEMMA StartLine ==
  ASSUME TypeOK, StartInv, NEW l \in Lines, l.kind # "TEST",
         pipe' = Append(pipe, l) \/ pipe' = pipe,
         UNCHANGED <<nr, status, current_test, logOpen>>
  PROVE  StartInv'
  <1>1. CASE pipe' = pipe
    BY <1>1 DEF StartInv, Coming, IsTest
  <1>2. CASE pipe' = Append(pipe, l)
    <2>1. Len(pipe') = Len(pipe) + 1 /\ Len(pipe) \in Nat /\ pipe'[Len(pipe) + 1] = l
      BY <1>2, AppendPipe
    <2>2. \A i \in 1..Len(pipe') : pipe'[i].kind = "TEST" => i \in 1..Len(pipe) /\ pipe'[i] = pipe[i]
      BY <1>2, <2>1, AppendPipe
    <2>3. \A t \in Names : Coming(t)' => Coming(t)
      BY <2>2 DEF Coming, IsTest
    <2>4. QED
      BY <2>2, <2>3 DEF StartInv, IsTest
  <1>3. QED
    BY <1>1, <1>2

\* The next test begins: it was to come and still is.
LEMMA StartBegins ==
  ASSUME Inv, StartInv, TestBegins PROVE StartInv'
  <1> DEFINE l == Line("TEST", Subtests[nr + 1])
  <1>1. nr + 1 \in 1..Len(Subtests) /\ nr \in Nat /\ nr' = nr + 1 /\ Len(Subtests) \in Nat
    BY Consts DEF Inv, TypeOK, PlaceInv, TestBegins
  <1>2. l \in Lines /\ l.kind = "TEST" /\ l.arg = Subtests[nr + 1] /\ Subtests[nr + 1] \in Names
    BY <1>1, SubtestName, LineMade DEF Line
  <1>3. UNCHANGED <<status, current_test, logOpen>>
    BY DEF TestBegins
  <1>4. pipe' = Append(pipe, l) \/ pipe' = pipe
    BY <1>2, EmitPipe DEF TestBegins, Inv
  <1> HIDE DEF l
  <1>5. \A k \in (nr' + 1)..Len(Subtests) : k \in (nr + 1)..Len(Subtests) /\ Subtests[k] # Subtests[nr + 1]
    BY <1>1, SubtestsDistinct
  <1>6. CASE pipe' = pipe
    <2>1. \A t \in Names : Coming(t)' => Coming(t)
      BY <1>5, <1>6 DEF Coming
    <2>2. QED
      BY <1>3, <1>5, <1>6, <2>1 DEF StartInv, IsTest
  <1>7. CASE pipe' = Append(pipe, l)
    <2>1. Len(pipe') = Len(pipe) + 1 /\ Len(pipe) \in Nat /\ pipe'[Len(pipe) + 1] = l
      BY <1>2, <1>7, AppendPipe DEF Inv
    <2>2. \A i \in 1..Len(pipe') : i = Len(pipe) + 1 \/ (i \in 1..Len(pipe) /\ pipe'[i] = pipe[i])
      BY <1>2, <1>7, <2>1, AppendPipe DEF Inv
    <2>3. \A t \in Names : Coming(t)' => Coming(t)
      <3> SUFFICES ASSUME NEW t \in Names, Coming(t)' PROVE Coming(t)
        OBVIOUS
      <3>1. CASE \E k \in (nr' + 1)..Len(Subtests) : Subtests[k] = t
        BY <3>1, <1>5 DEF Coming
      <3>2. CASE \E i \in 1..Len(pipe') : IsTest(pipe'[i], t)
        BY <3>2, <1>1, <1>2, <2>1, <2>2 DEF Coming, IsTest
      <3>3. QED
        BY <3>1, <3>2 DEF Coming
    <2>4. \A i \in 1..Len(pipe) : ~IsTest(pipe[i], Subtests[nr + 1])
      BY <1>1 DEF StartInv
    <2>5. \A i, j \in 1..Len(pipe') :
            pipe'[i].kind = "TEST" /\ pipe'[j].kind = "TEST" /\ pipe'[i].arg = pipe'[j].arg => i = j
      BY <1>2, <2>1, <2>2, <2>4 DEF StartInv, IsTest
    <2>6. \A i \in 1..Len(pipe'), k \in (nr' + 1)..Len(Subtests) : ~IsTest(pipe'[i], Subtests[k])
      BY <1>2, <1>5, <2>1, <2>2 DEF StartInv, IsTest
    <2>7. QED
      BY <1>3, <2>3, <2>5, <2>6 DEF StartInv
  <1>8. QED
    BY <1>4, <1>6, <1>7

\* A line is read: the test it starts is no longer to come.
LEMMA StartRead ==
  ASSUME Inv, StartInv, Read PROVE StartInv'
  <1> DEFINE l == Head(pipe)
  <1>1. /\ l \in Lines /\ l = pipe[1] /\ nr' = nr /\ Len(pipe) \in Nat /\ Len(pipe) > 0
        /\ Len(pipe') = Len(pipe) - 1 /\ \A i \in 1..Len(pipe') : pipe'[i] = pipe[i + 1]
    <2>1. nr' = nr
      BY DEF Read
    <2>2. QED
      BY <2>1, ReadPipe DEF Inv
  <1> HIDE DEF l
  <1>2. \A i, j \in 1..Len(pipe') :
          pipe'[i].kind = "TEST" /\ pipe'[j].kind = "TEST" /\ pipe'[i].arg = pipe'[j].arg => i = j
    BY <1>1 DEF StartInv
  <1>3. \A i \in 1..Len(pipe'), k \in (nr' + 1)..Len(Subtests) : ~IsTest(pipe'[i], Subtests[k])
    BY <1>1 DEF StartInv
  <1>4. \A t \in Names : Coming(t)' => Coming(t)
    BY <1>1 DEF Coming
  <1>5. CASE l.kind = "TEST" /\ test_start(l.arg)
    <2>1. l.arg \in Names /\ status' = [status EXCEPT ![l.arg] = ""] /\ current_test' = l.arg
      BY <1>1, <1>5, LineType DEF test_start
    <2>2. \A t \in Names : Coming(t)' => t # l.arg
      <3>1. \A i \in 1..Len(pipe') : ~IsTest(pipe'[i], l.arg)
        BY <1>1, <1>5 DEF StartInv, IsTest
      <3>2. \A k \in (nr + 1)..Len(Subtests) : ~IsTest(pipe[1], Subtests[k])
        BY <1>1 DEF StartInv
      <3>3. \A k \in (nr' + 1)..Len(Subtests) : Subtests[k] # l.arg
        BY <1>1, <1>5, <3>2 DEF IsTest
      <3>4. QED
        BY <3>1, <3>3 DEF Coming
    <2>3. \A t \in Names : Coming(t)' => status'[t] = "IN_PROGRESS" /\ t # current_test'
      <3> SUFFICES ASSUME NEW t \in Names, Coming(t)'
                   PROVE  status'[t] = "IN_PROGRESS" /\ t # current_test'
        OBVIOUS
      <3>1. t # l.arg
        BY <2>2
      <3>2. status[t] = "IN_PROGRESS"
        BY <1>4 DEF StartInv
      <3>3. QED
        BY <2>1, <3>1, <3>2 DEF Inv, TypeOK
    <2>4. status'[current_test'] \notin {"PASSED", "NOTRUN"}
      BY <2>1 DEF Inv, TypeOK
    <2>5. QED
      BY <1>2, <1>3, <2>3, <2>4 DEF StartInv
  <1>6. CASE logOpen /\ status' = [status EXCEPT ![current_test] = ""] /\ UNCHANGED <<current_test, logOpen>>
    <2>1. \A t \in Names : Coming(t)' => status'[t] = "IN_PROGRESS" /\ t # current_test'
      BY <1>4, <1>6 DEF StartInv, Inv, TypeOK
    <2>2. status'[current_test'] \notin {"PASSED", "NOTRUN"}
      BY <1>6 DEF Inv, TypeOK, PlaceInv
    <2>3. QED
      BY <1>2, <1>3, <2>1, <2>2 DEF StartInv
  <1>7. CASE UNCHANGED <<current_test, logOpen, status>>
    BY <1>2, <1>3, <1>4, <1>7 DEF StartInv
  <1>8. QED
    BY <1>5, <1>6, <1>7 DEF Read, l

LEMMA StepStart ==
  ASSUME Inv, StartInv, [Next]_vars PROVE StartInv'
  <1>1. CASE UNCHANGED <<pipe, nr, status, current_test, logOpen>>
    BY <1>1 DEF StartInv, Coming
  <1>2. CASE TestBegins
    BY <1>2, StartBegins
  <1>3. CASE TestEnds
    <2>1. Subtests[nr] \in Names
      BY <1>3, Consts, SubtestName DEF TestEnds, Inv, TypeOK, PlaceInv
    <2>2. PICK v \in Endings : Emit(Line(v, Subtests[nr]))
      BY <1>3 DEF TestEnds, Endings
    <2>3. Line(v, Subtests[nr]) \in Lines /\ Line(v, Subtests[nr]).kind # "TEST"
      BY <2>1, LineMade DEF Line, Endings
    <2>4. QED
      BY <1>3, <2>2, <2>3, EmitPipe, StartLine DEF TestEnds, Inv
  <1>4. CASE set_watchdog
    <2>1. PICK n \in Watchdogs : Emit(Line("WATCHDOG", n))
      BY <1>4 DEF set_watchdog
    <2>2. Line("WATCHDOG", n) \in Lines /\ Line("WATCHDOG", n).kind # "TEST"
      BY LineMade DEF Line
    <2>3. QED
      BY <1>4, <2>1, <2>2, EmitPipe, StartLine DEF set_watchdog, Inv
  <1>5. CASE KernelCrash \/ Chatter \/ RunEnds
    <2>1. PICK k \in {"BUG", "other", "TEST_FAILED", "TEST_SUCCESS"} : Emit(Line(k, None))
      BY <1>5, Consts DEF KernelCrash, Chatter, RunEnds
    <2>2. Line(k, None) \in Lines /\ Line(k, None).kind # "TEST"
      BY LineMade DEF Line
    <2>3. UNCHANGED <<nr, status, current_test, logOpen>>
      BY <1>5 DEF KernelCrash, Chatter, RunEnds
    <2>4. QED
      BY <2>1, <2>2, <2>3, EmitPipe, StartLine DEF Inv
  <1>6. CASE Read
    BY <1>6, StartRead
  <1>7. CASE WriteStart
    BY <1>7 DEF WriteStart, StartInv, Coming, Inv, TypeOK, PlaceInv
  <1>8. CASE WriteEnd
    BY <1>8 DEF WriteEnd, test_end, StartInv, Coming, Inv, TypeOK, PlaceInv
  <1>9. CASE alarm_handler
    <2> DEFINE l == Line("TIMEOUT", current_test)
    <2>1. l \in Lines /\ l.kind # "TEST"
      BY LineMade DEF Line, Inv, TypeOK
    <2>2. pipe' = Append(pipe, l) \/ pipe' = pipe
      BY <1>9 DEF alarm_handler
    <2>3. UNCHANGED <<nr, status, current_test, logOpen>>
      BY <1>9 DEF alarm_handler
    <2> HIDE DEF l
    <2>4. QED
      BY <2>1, <2>2, <2>3, StartLine DEF Inv
  <1>10. QED
    BY <1>1, <1>2, <1>3, <1>4, <1>5, <1>6, <1>7, <1>8, <1>9 DEF Next, vars, ChildStep, Loop,
       ChildExits, Install, LineDone, child_handler, term_handler, Killed, Tick

LEMMA AlwaysStart == Spec => []StartInv
  BY InitStart, StepStart, AlwaysInv, PTL DEF Spec

\* One step leaves a recorded ending alone.
LEMMA StepEnding ==
  ASSUME Inv, StartInv, TornIsCurrent, [Next]_vars,
         NEW t \in Names, status[t] \in {"PASSED", "NOTRUN"}
  PROVE  status'[t] = status[t]
  <1> USE DEF Inv, TypeOK
  <1>1. CASE UNCHANGED status
    BY <1>1
  <1>2. CASE Read
    <2> DEFINE l == Head(pipe)
    <2>1. l \in Lines /\ l = pipe[1] /\ Len(pipe) \in Nat /\ Len(pipe) > 0
      BY <1>2, ReadPipe
    <2> HIDE DEF l
    <2>2. CASE l.kind = "TEST" /\ test_start(l.arg)
      <3>1. l.arg \in Names /\ Coming(l.arg)
        <4>1. 1 \in 1..Len(pipe) /\ IsTest(pipe[1], l.arg)
          BY <2>1, <2>2 DEF IsTest
        <4>2. QED
          BY <2>1, <2>2, <4>1, LineType DEF Coming
      <3>2. status[l.arg] = "IN_PROGRESS"
        BY <3>1 DEF StartInv
      <3>3. QED
        BY <2>2, <3>1, <3>2 DEF test_start
    <2>3. CASE logOpen /\ status' = [status EXCEPT ![current_test] = ""]
      BY <2>3 DEF StartInv, PlaceInv
    <2>4. QED
      BY <1>1, <1>2, <2>2, <2>3 DEF Read, l
  <1>3. CASE WriteStart \/ WriteEnd
    <2>1. logOpen
      BY <1>3 DEF WriteStart, WriteEnd, PlaceInv
    <2>2. t # current_test
      BY <2>1 DEF StartInv
    <2>3. QED
      BY <1>3, <2>2 DEF WriteStart, WriteEnd
  <1>4. QED
    BY <1>1, <1>2, <1>3 DEF Next, vars, ChildStep, Loop, TestBegins, TestEnds, set_watchdog,
       KernelCrash, Chatter, RunEnds, ChildExits, Install, LineDone, child_handler, term_handler,
       alarm_handler, Killed, Tick

\* No line, signal or timeout changes an ending that was recorded: a test starts once and
\* its log is closed when it ends (test_start, test_end).
THEOREM EndingsStand == Spec => EndingStands
  <1> DEFINE Keeps == \A t \in Names : status[t] \in {"PASSED", "NOTRUN"} => status'[t] = status[t]
  <1>1. Inv /\ StartInv /\ TornIsCurrent /\ [Next]_vars => [Keeps]_vars
    BY StepEnding
  <1>2. Spec => [][Keeps]_vars
    BY <1>1, AlwaysInv, AlwaysStart, OnlyCurrentTorn, PTL DEF Spec
  <1>3. QED
    BY <1>2 DEF EndingStands

-------------------------------------------------------------------------------
(* Verdicts are earned.                                                    *)

\* A new line at the end changes the current test of no place before it.
LEMMA CurrentKept ==
  ASSUME TypeOK, NEW l \in Lines, pipe' = Append(pipe, l), current_test' = current_test,
         NEW i \in 1..(Len(pipe) + 1), NEW t, CurrentAt(i, t)
  PROVE  CurrentAt(i, t)'
  <1>1. Len(pipe) \in Nat
    BY AppendPipe
  <1>2. \A j \in 1..(i - 1) : pipe'[j] = pipe[j]
    BY <1>1, AppendPipe
  <1>3. CASE current_test = t /\ \A k \in 1..(i - 1) : pipe[k].kind # "TEST"
    BY <1>2, <1>3 DEF CurrentAt
  <1>4. CASE \E j \in 1..(i - 1) : IsTest(pipe[j], t) /\ \A k \in (j + 1)..(i - 1) : pipe[k].kind # "TEST"
    <2>1. PICK j \in 1..(i - 1) : IsTest(pipe[j], t) /\ \A k \in (j + 1)..(i - 1) : pipe[k].kind # "TEST"
      BY <1>4
    <2>2. IsTest(pipe'[j], t) /\ \A k \in (j + 1)..(i - 1) : pipe'[k].kind # "TEST"
      BY <1>1, <1>2, <2>1
    <2>3. QED
      BY <2>2 DEF CurrentAt, IsTest
  <1>5. QED
    BY <1>3, <1>4 DEF CurrentAt

\* Past a line that starts no test the current test is the one before it.
LEMMA CurrentPast ==
  ASSUME TypeOK, NEW l \in Lines, l.kind # "TEST", pipe' = Append(pipe, l),
         current_test' = current_test, NEW n, n = Len(pipe), NEW t, CurrentAt(n + 1, t)
  PROVE  CurrentAt(n + 2, t)'
  <1>1. n \in Nat /\ pipe'[n + 1] = l /\ \A j \in 1..n : pipe'[j] = pipe[j]
    BY AppendPipe
  <1>2. (n + 1) - 1 = n /\ (n + 2) - 1 = n + 1
    BY <1>1
  <1>3. CASE current_test = t /\ \A k \in 1..n : pipe[k].kind # "TEST"
    <2>1. \A k \in 1..(n + 1) : pipe'[k].kind # "TEST"
      BY <1>1, <1>3
    <2>2. QED
      BY <1>2, <1>3, <2>1 DEF CurrentAt
  <1>4. CASE \E j \in 1..n : IsTest(pipe[j], t) /\ \A k \in (j + 1)..n : pipe[k].kind # "TEST"
    <2>1. PICK j \in 1..n : IsTest(pipe[j], t) /\ \A k \in (j + 1)..n : pipe[k].kind # "TEST"
      BY <1>4
    <2>2. j \in 1..(n + 1) /\ IsTest(pipe'[j], t)
      BY <1>1, <2>1
    <2>3. \A k \in (j + 1)..(n + 1) : pipe'[k].kind # "TEST"
      BY <1>1, <2>1
    <2>4. QED
      BY <1>2, <2>2, <2>3 DEF CurrentAt, IsTest
  <1>5. QED
    BY <1>2, <1>3, <1>4 DEF CurrentAt

\* Past the line that starts a test that test is the current one.
LEMMA CurrentStarted ==
  ASSUME TypeOK, NEW l \in Lines, NEW t, IsTest(l, t), pipe' = Append(pipe, l),
         NEW n, n = Len(pipe)
  PROVE  CurrentAt(n + 2, t)'
  <1>1. n \in Nat /\ pipe'[n + 1] = l
    BY AppendPipe
  <1>2. (n + 2) - 1 = n + 1 /\ n + 1 \in 1..(n + 1) /\ ((n + 1) + 1)..(n + 1) = {}
    BY <1>1
  <1>3. IsTest(pipe'[n + 1], t) /\ \A k \in ((n + 1) + 1)..(n + 1) : pipe'[k].kind # "TEST"
    BY <1>1, <1>2
  <1>4. QED
    BY <1>2, <1>3 DEF CurrentAt, IsTest

\* Reading a line moves every place by one and makes the test it starts the current one.
LEMMA CurrentRead ==
  ASSUME TypeOK, Read, NEW i \in 1..Len(pipe), NEW t, CurrentAt(i + 1, t),
         current_test' = IF pipe[1].kind = "TEST" THEN pipe[1].arg ELSE current_test
  PROVE  CurrentAt(i, t)'
  <1>1. /\ Len(pipe) \in Nat /\ Len(pipe) > 0 /\ Len(pipe') = Len(pipe) - 1
        /\ \A j \in 1..Len(pipe') : pipe'[j] = pipe[j + 1]
    BY ReadPipe
  <1>2. (i + 1) - 1 = i /\ 1 \in 1..i /\ i \in Nat
    BY <1>1
  <1>3. ASSUME NEW a \in Nat, \A k \in (a + 2)..i : pipe[k].kind # "TEST"
        PROVE  \A k \in (a + 1)..(i - 1) : pipe'[k].kind # "TEST"
    BY <1>1, <1>2, <1>3
  <1>4. ASSUME \A k \in 2..i : pipe[k].kind # "TEST", current_test' = t
        PROVE  CurrentAt(i, t)'
    <2>1. \A k \in (0 + 2)..i : pipe[k].kind # "TEST"
      BY <1>4
    <2>2. \A k \in (0 + 1)..(i - 1) : pipe'[k].kind # "TEST"
      BY <1>3, <2>1
    <2>3. QED
      BY <1>4, <2>2 DEF CurrentAt
  <1>5. CASE current_test = t /\ \A k \in 1..i : pipe[k].kind # "TEST"
    <2>1. current_test' = t
      BY <1>2, <1>5
    <2>2. \A k \in 2..i : pipe[k].kind # "TEST"
      BY <1>2, <1>5
    <2>3. QED
      BY <1>4, <2>1, <2>2
  <1>6. CASE \E j \in 1..i : IsTest(pipe[j], t) /\ \A k \in (j + 1)..i : pipe[k].kind # "TEST"
    <2>1. PICK j \in 1..i : IsTest(pipe[j], t) /\ \A k \in (j + 1)..i : pipe[k].kind # "TEST"
      BY <1>6
    <2>2. CASE j = 1
      BY <1>4, <2>1, <2>2 DEF IsTest
    <2>3. CASE j > 1
      <3>1. j - 1 \in 1..(i - 1) /\ j - 1 \in Nat /\ pipe'[j - 1] = pipe[j] /\ (j - 1) + 2 = j + 1
        BY <1>1, <1>2, <2>1, <2>3
      <3>2. \A k \in ((j - 1) + 1)..(i - 1) : pipe'[k].kind # "TEST"
        BY <1>3, <2>1, <3>1
      <3>3. QED
        BY <2>1, <3>1, <3>2 DEF CurrentAt, IsTest
    <2>4. QED
      BY <1>2, <2>1, <2>2, <2>3
  <1>7. QED
    BY <1>2, <1>5, <1>6 DEF CurrentAt

LEMMA InitOrder == Init => OrderInv
  <1> SUFFICES ASSUME Init PROVE OrderInv
    OBVIOUS
  <1>1. Len(pipe) = 0 /\ guest # "test" /\ sup # "ended"
    BY DEF Init
  <1>2. \A k \in (nr + 1)..Len(Subtests) : k \in 1..Len(Subtests)
    BY DEF Init
  <1>3. \A k \in (nr + 1)..Len(Subtests) : said[Subtests[k]] = None
    BY <1>2, SubtestName DEF Init
  <1>4. 1..Len(pipe) = {}
    BY <1>1
  <1>5. QED
    BY <1>1, <1>3, <1>4 DEF OrderInv

\* The place behind the pipe, in the next state.
LEMMA EndPlace ==
  ASSUME NEW i, i = Len(pipe') + 1, NEW t, t = Subtests[nr'], CurrentAt(i, t)'
  PROVE  CurrentAt(Len(pipe) + 1, Subtests[nr])'
  BY DEF CurrentAt

\* A line that neither starts nor ends a test, or none, changes nothing.
LEMMA OrderLine ==
  ASSUME TypeOK, OrderInv, NEW l \in Lines, l.kind \notin {"TEST"} \cup Endings,
         pipe' = Append(pipe, l) \/ pipe' = pipe, guest' = "test" => guest = "test",
         UNCHANGED <<no_vm, said, nr, current_test, sup, line>>
  PROVE  OrderInv'
  <1> SUFFICES ASSUME ~no_vm PROVE OrderInv'
    BY DEF OrderInv
  <1>1. CASE pipe' = pipe
    BY <1>1 DEF OrderInv, CurrentAt
  <1>2. CASE pipe' = Append(pipe, l)
    <2>1. /\ Len(pipe) \in Nat /\ Len(pipe') = Len(pipe) + 1 /\ pipe'[Len(pipe) + 1] = l
          /\ \A i \in 1..Len(pipe) : pipe'[i] = pipe[i]
      BY <1>2, AppendPipe
    <2>2. ASSUME NEW i \in 1..Len(pipe'), pipe'[i].kind \in Endings
          PROVE  said'[pipe'[i].arg] = pipe'[i].kind /\ CurrentAt(i, pipe[i].arg)'
      <3>1. i \in 1..Len(pipe) /\ pipe'[i] = pipe[i]
        BY <2>1, <2>2
      <3>2. said[pipe[i].arg] = pipe[i].kind /\ CurrentAt(i, pipe[i].arg)
        BY <2>2, <3>1 DEF OrderInv
      <3>3. PICK t : t = pipe[i].arg
        OBVIOUS
      <3>4. CurrentAt(i, t)'
        BY <1>2, <2>1, <3>1, <3>2, <3>3, CurrentKept
      <3>5. QED
        BY <3>1, <3>2, <3>3, <3>4 DEF CurrentAt
    <2>3. ASSUME guest' = "test"
          PROVE  CurrentAt(Len(pipe) + 1, Subtests[nr])' /\ said'[Subtests[nr']] = None
      <3>1. PICK n, t : n = Len(pipe) /\ t = Subtests[nr]
        OBVIOUS
      <3>2. CurrentAt(n + 1, t) /\ said[t] = None
        BY <2>3, <3>1 DEF OrderInv
      <3>3. CurrentAt(n + 2, t)'
        BY <1>2, <3>1, <3>2, CurrentPast
      <3>4. n + 2 = Len(pipe') + 1 /\ t = Subtests[nr']
        BY <2>1, <3>1
      <3>5. QED
        BY <3>2, <3>3, <3>4, EndPlace
    <2>4. QED
      BY <2>2, <2>3 DEF OrderInv
  <1>3. QED
    BY <1>1, <1>2

\* The next test begins: nothing was said of it yet.
LEMMA OrderBegins ==
  ASSUME Inv, OrderInv, TestBegins PROVE OrderInv'
  <1> SUFFICES ASSUME ~no_vm PROVE OrderInv'
    BY DEF OrderInv, TestBegins
  <1>0. PICK n, t : n = Len(pipe) /\ t = Subtests[nr + 1]
    OBVIOUS
  <1> DEFINE l == Line("TEST", t)
  <1>1. nr + 1 \in 1..Len(Subtests) /\ nr \in Nat /\ nr' = nr + 1 /\ Len(Subtests) \in Nat
    BY Consts DEF Inv, TypeOK, PlaceInv, TestBegins
  <1>2. l \in Lines /\ IsTest(l, t) /\ l.kind \notin Endings
    BY <1>0, <1>1, SubtestName, LineMade DEF Line, IsTest, Endings
  <1>3. UNCHANGED <<no_vm, said, current_test, sup, line>>
    BY DEF TestBegins
  <1>4. pipe' = Append(pipe, l)
    BY <1>0, <1>2, EmitPipe DEF TestBegins, Inv
  <1> HIDE DEF l
  <1>5. /\ n \in Nat /\ Len(pipe') = n + 1 /\ pipe'[n + 1] = l
        /\ \A i \in 1..n : pipe'[i] = pipe[i]
    BY <1>0, <1>2, <1>4, AppendPipe DEF Inv
  <1>6. ASSUME NEW i \in 1..Len(pipe'), pipe'[i].kind \in Endings
        PROVE  said'[pipe'[i].arg] = pipe'[i].kind /\ CurrentAt(i, pipe[i].arg)'
    <2>1. i \in 1..n /\ pipe'[i] = pipe[i]
      BY <1>2, <1>5, <1>6
    <2>2. said[pipe[i].arg] = pipe[i].kind /\ CurrentAt(i, pipe[i].arg)
      BY <1>0, <1>6, <2>1 DEF OrderInv
    <2>3. PICK u : u = pipe[i].arg
      OBVIOUS
    <2>4. CurrentAt(i, u)'
      BY <1>0, <1>2, <1>3, <1>4, <1>5, <2>1, <2>2, <2>3, CurrentKept DEF Inv
    <2>5. QED
      BY <1>3, <2>1, <2>2, <2>3, <2>4 DEF CurrentAt
  <1>7. CurrentAt(Len(pipe) + 1, Subtests[nr])'
    <2>1. CurrentAt(n + 2, t)'
      BY <1>0, <1>2, <1>4, CurrentStarted DEF Inv
    <2>2. n + 2 = Len(pipe') + 1 /\ t = Subtests[nr']
      BY <1>0, <1>1, <1>5
    <2>3. QED
      BY <2>1, <2>2, EndPlace
  <1>8. said'[Subtests[nr']] = None /\ \A k \in (nr' + 1)..Len(Subtests) : said'[Subtests[k]] = None
    <2>1. nr' \in (nr + 1)..Len(Subtests)
      BY <1>1
    <2>2. \A k \in (nr' + 1)..Len(Subtests) : k \in (nr + 1)..Len(Subtests)
      BY <1>1
    <2>3. \A k \in (nr + 1)..Len(Subtests) : said[Subtests[k]] = None
      BY DEF OrderInv
    <2>4. QED
      BY <1>3, <2>1, <2>2, <2>3
  <1>9. sup' = "ended" /\ line'.kind \in Endings => line'.arg = current_test' /\ said'[line'.arg] = line'.kind
    BY <1>3 DEF OrderInv
  <1>10. QED
    BY <1>6, <1>7, <1>8, <1>9 DEF OrderInv

\* A test ends: it says so for the first time, and its line is behind its own start.
LEMMA OrderEnds ==
  ASSUME Inv, OrderInv, TestEnds PROVE OrderInv'
  <1> SUFFICES ASSUME ~no_vm PROVE OrderInv'
    BY DEF OrderInv, TestEnds
  <1>1. nr \in 1..Len(Subtests) /\ Subtests[nr] \in Names /\ Len(Subtests) \in Nat
    BY Consts, SubtestName DEF TestEnds, Inv, TypeOK, PlaceInv
  <1>0. PICK n, t : n = Len(pipe) /\ t = Subtests[nr]
    OBVIOUS
  <1>2. PICK v \in Endings : Emit(Line(v, t)) /\ said' = [said EXCEPT ![t] = v] /\ guest' # "test"
    BY <1>0 DEF TestEnds, Endings
  <1> DEFINE l == Line(v, t)
  <1>3. l \in Lines /\ l.kind = v /\ l.kind # "TEST" /\ l.arg = t
    BY <1>0, <1>1, LineMade DEF Line, Endings
  <1>4. UNCHANGED <<no_vm, nr, current_test, sup, line>>
    BY DEF TestEnds
  <1>5. pipe' = Append(pipe, l)
    BY <1>2, <1>3, EmitPipe DEF Inv
  <1> HIDE DEF l
  <1>6. /\ n \in Nat /\ Len(pipe') = n + 1 /\ pipe'[n + 1] = l
        /\ \A i \in 1..n : pipe'[i] = pipe[i]
    BY <1>0, <1>3, <1>5, AppendPipe DEF Inv
  <1>7. CurrentAt(n + 1, t) /\ said[t] = None
    BY <1>0 DEF OrderInv, TestEnds
  <1>8. said'[t] = v /\ \A u \in Names : u # t => said'[u] = said[u]
    BY <1>0, <1>1, <1>2 DEF Inv, TypeOK
  <1>9. None \notin Endings
    BY Consts DEF Kinds, Endings
  <1>10. ASSUME NEW i \in 1..Len(pipe'), pipe'[i].kind \in Endings
         PROVE  said'[pipe'[i].arg] = pipe'[i].kind /\ CurrentAt(i, pipe[i].arg)'
    <2>1. CASE i = n + 1
      <3>1. CurrentAt(i, t)'
        BY <1>0, <1>3, <1>4, <1>5, <1>6, <1>7, <2>1, CurrentKept DEF Inv
      <3>2. pipe'[i] = l
        BY <1>6, <2>1
      <3>3. QED
        BY <1>3, <1>8, <3>1, <3>2 DEF CurrentAt
    <2>2. CASE i \in 1..n
      <3>1. pipe'[i] = pipe[i]
        BY <1>6, <2>2
      <3>2. said[pipe[i].arg] = pipe[i].kind /\ CurrentAt(i, pipe[i].arg)
        BY <1>0, <1>10, <2>2, <3>1 DEF OrderInv
      <3>3. pipe[i] \in Lines
        BY <1>0, <2>2 DEF Inv, TypeOK
      <3>4. pipe[i].arg \in Names /\ pipe[i].arg # t
        BY <1>7, <1>9, <1>10, <3>1, <3>2, <3>3, LineType
      <3>5. PICK u : u = pipe[i].arg
        OBVIOUS
      <3>6. CurrentAt(i, u)'
        BY <1>0, <1>3, <1>4, <1>5, <1>6, <2>2, <3>2, <3>5, CurrentKept DEF Inv
      <3>7. QED
        BY <1>8, <3>1, <3>2, <3>4, <3>5, <3>6 DEF CurrentAt
    <2>3. QED
      BY <1>6, <2>1, <2>2
  <1>11. \A k \in (nr' + 1)..Len(Subtests) : said'[Subtests[k]] = None
    <2> SUFFICES ASSUME NEW k \in (nr + 1)..Len(Subtests) PROVE said'[Subtests[k]] = None
      BY <1>4
    <2>1. k \in 1..Len(Subtests) /\ k # nr
      BY <1>1
    <2>2. Subtests[k] # t /\ Subtests[k] \in Names
      BY <1>0, <1>1, <2>1, SubtestsDistinct, SubtestName
    <2>3. QED
      BY <1>8, <2>2 DEF OrderInv
  <1>12. ASSUME sup' = "ended", line'.kind \in Endings
         PROVE  line'.arg = current_test' /\ said'[line'.arg] = line'.kind
    <2>1. line.arg = current_test /\ said[line.arg] = line.kind
      BY <1>4, <1>12 DEF OrderInv
    <2>2. line \in Lines
      BY <1>4, <1>12 DEF Inv, TypeOK, PlaceInv
    <2>3. line.arg \in Names /\ line.arg # t
      BY <1>4, <1>7, <1>9, <1>12, <2>1, <2>2, LineType
    <2>4. QED
      BY <1>4, <1>8, <2>1, <2>3
  <1>13. QED
    BY <1>2, <1>10, <1>11, <1>12 DEF OrderInv

\* A line is read: an ending is read when the test it names is the current one.
LEMMA OrderRead ==
  ASSUME Inv, OrderInv, Read PROVE OrderInv'
  <1> SUFFICES ASSUME ~no_vm PROVE OrderInv'
    BY DEF OrderInv, Read
  <1>1. /\ Head(pipe) \in Lines /\ Head(pipe) = pipe[1] /\ Len(pipe) \in Nat /\ Len(pipe) > 0
        /\ Len(pipe') = Len(pipe) - 1 /\ \A i \in 1..Len(pipe') : pipe'[i] = pipe[i + 1]
    BY ReadPipe DEF Inv
  <1>2. UNCHANGED <<no_vm, said, nr, guest>> /\ line' = pipe[1]
    BY <1>1 DEF Read
  <1>3. current_test' = IF pipe[1].kind = "TEST" THEN pipe[1].arg ELSE current_test
    BY <1>1 DEF Read, test_start, test_is_ending
  <1>4. ASSUME NEW i \in 1..Len(pipe'), pipe'[i].kind \in Endings
        PROVE  said'[pipe'[i].arg] = pipe'[i].kind /\ CurrentAt(i, pipe[i].arg)'
    <2>1. i \in 1..Len(pipe) /\ i + 1 \in 1..Len(pipe) /\ pipe'[i] = pipe[i + 1]
      BY <1>1
    <2>2. PICK t : t = pipe[i + 1].arg
      OBVIOUS
    <2>3. said[t] = pipe[i + 1].kind /\ CurrentAt(i + 1, t)
      BY <1>4, <2>1, <2>2 DEF OrderInv
    <2>4. CurrentAt(i, t)'
      BY <1>3, <2>1, <2>3, CurrentRead DEF Inv
    <2>5. QED
      BY <1>2, <2>1, <2>2, <2>3, <2>4 DEF CurrentAt
  <1>5. ASSUME guest' = "test"
        PROVE  CurrentAt(Len(pipe) + 1, Subtests[nr])' /\ said'[Subtests[nr']] = None
    <2>1. PICK n, t : n = Len(pipe) /\ t = Subtests[nr]
      OBVIOUS
    <2>2. CurrentAt(n + 1, t) /\ said[t] = None
      BY <1>2, <1>5, <2>1 DEF OrderInv
    <2>3. n \in 1..Len(pipe)
      BY <1>1, <2>1
    <2>4. CurrentAt(n, t)'
      BY <1>3, <2>2, <2>3, CurrentRead DEF Inv
    <2>5. n = Len(pipe') + 1 /\ t = Subtests[nr']
      BY <1>1, <1>2, <2>1
    <2>6. QED
      BY <1>2, <2>1, <2>2, <2>4, <2>5, EndPlace
  <1>6. ASSUME sup' = "ended", line'.kind \in Endings
        PROVE  line'.arg = current_test' /\ said'[line'.arg] = line'.kind
    <2>1. 1 \in 1..Len(pipe) /\ pipe[1].kind \in Endings /\ pipe[1].kind # "TEST"
      BY <1>1, <1>2, <1>6 DEF Endings
    <2>2. said[pipe[1].arg] = pipe[1].kind /\ CurrentAt(1, pipe[1].arg)
      BY <2>1 DEF OrderInv
    <2>3. 1..(1 - 1) = {}
      OBVIOUS
    <2>4. current_test = pipe[1].arg
      BY <2>2, <2>3 DEF CurrentAt
    <2>5. QED
      BY <1>2, <1>3, <2>1, <2>2, <2>4
  <1>7. \A k \in (nr' + 1)..Len(Subtests) : said'[Subtests[k]] = None
    BY <1>2 DEF OrderInv
  <1>8. QED
    BY <1>4, <1>5, <1>6, <1>7 DEF OrderInv

LEMMA StepOrder ==
  ASSUME Inv, OrderInv, [Next]_vars PROVE OrderInv'
  <1>1. CASE /\ UNCHANGED <<pipe, nr, current_test, said, guest, no_vm, line>>
             /\ sup' = "ended" => sup = "ended"
    BY <1>1 DEF OrderInv, CurrentAt
  <1>2. CASE TestBegins
    BY <1>2, OrderBegins
  <1>3. CASE TestEnds
    BY <1>3, OrderEnds
  <1>4. CASE set_watchdog
    <2>1. PICK n \in Watchdogs : Emit(Line("WATCHDOG", n))
      BY <1>4 DEF set_watchdog
    <2>2. Line("WATCHDOG", n) \in Lines /\ Line("WATCHDOG", n).kind \notin {"TEST"} \cup Endings
      BY LineMade DEF Line, Endings
    <2>3. QED
      BY <1>4, <2>1, <2>2, EmitPipe, OrderLine DEF set_watchdog, Inv
  <1>5. CASE KernelCrash \/ Chatter \/ RunEnds
    <2>1. PICK k \in {"BUG", "other", "TEST_FAILED", "TEST_SUCCESS"} : Emit(Line(k, None))
      BY <1>5, Consts DEF KernelCrash, Chatter, RunEnds
    <2>2. Line(k, None) \in Lines /\ Line(k, None).kind \notin {"TEST"} \cup Endings
      BY LineMade DEF Line, Endings
    <2>3. /\ UNCHANGED <<no_vm, said, nr, current_test, sup, line>>
          /\ guest' = "test" => guest = "test"
      BY <1>5 DEF KernelCrash, Chatter, RunEnds
    <2>4. QED
      BY <2>1, <2>2, <2>3, EmitPipe, OrderLine DEF Inv
  <1>6. CASE Read
    BY <1>6, OrderRead
  <1>7. CASE LineDone
    <2>1. UNCHANGED <<pipe, nr, current_test, said, guest, no_vm>> /\ sup' # "ended"
      BY <1>7 DEF LineDone
    <2>2. QED
      BY <2>1 DEF OrderInv, CurrentAt
  <1>8. CASE alarm_handler
    <2> DEFINE l == Line("TIMEOUT", current_test)
    <2>1. l \in Lines /\ l.kind \notin {"TEST"} \cup Endings
      BY LineMade DEF Line, Inv, TypeOK, Endings
    <2>2. pipe' = Append(pipe, l) \/ pipe' = pipe
      BY <1>8 DEF alarm_handler
    <2>3. UNCHANGED <<no_vm, said, nr, current_test, sup, line, guest>>
      BY <1>8 DEF alarm_handler
    <2> HIDE DEF l
    <2>4. QED
      BY <2>1, <2>2, <2>3, OrderLine DEF Inv
  <1>9. QED
    BY <1>1, <1>2, <1>3, <1>4, <1>5, <1>6, <1>7, <1>8 DEF Next, vars, ChildStep, Loop,
       ChildExits, Install, WriteStart, WriteEnd, child_handler, term_handler, Killed, Tick

LEMMA AlwaysOrder == Spec => []OrderInv
  BY InitOrder, StepOrder, AlwaysInv, PTL DEF Spec

LEMMA StepEarned ==
  ASSUME Inv, OrderInv, VerdictIsEarned, [Next]_vars PROVE VerdictIsEarned'
  <1> USE DEF Inv, TypeOK, VerdictIsEarned
  <1> SUFFICES ASSUME ~no_vm', NEW t \in Names, status'[t] \in {"PASSED", "NOTRUN"}
               PROVE  said'[t] = status'[t]
    OBVIOUS
  <1>0. UNCHANGED no_vm
    BY DEF Next, vars, ChildStep, Loop, TestBegins, TestEnds, set_watchdog, KernelCrash, Chatter,
       RunEnds, ChildExits, Install, Read, WriteStart, WriteEnd, LineDone, child_handler,
       term_handler, alarm_handler, Killed, Tick
  <1>1. CASE UNCHANGED <<status, said>>
    BY <1>0, <1>1
  <1>2. CASE TestEnds
    <2>1. Subtests[nr] \in Names /\ said[Subtests[nr]] = None /\ UNCHANGED status
      BY <1>0, <1>2, Consts, SubtestName DEF TestEnds, OrderInv, PlaceInv
    <2>2. said[t] = status[t]
      BY <1>0, <2>1
    <2>3. t # Subtests[nr]
      BY <2>1, <2>2, Consts DEF Kinds
    <2>4. QED
      BY <1>2, <2>1, <2>2, <2>3 DEF TestEnds
  <1>3. CASE Read
    <2>1. UNCHANGED said /\ \A u \in Names : status'[u] # "" => status'[u] = status[u]
      BY <1>3 DEF Read, test_start
    <2>2. QED
      BY <1>0, <2>1
  <1>4. CASE WriteStart
    <2>1. UNCHANGED said /\ \A u \in Names : status'[u] # "FAILED" => status'[u] = status[u]
      BY <1>4 DEF WriteStart
    <2>2. QED
      BY <1>0, <2>1
  <1>5. CASE WriteEnd
    <2>1. UNCHANGED said /\ status' = [status EXCEPT ![current_test] = EndText(line)]
      BY <1>5 DEF WriteEnd
    <2>2. CASE t = current_test
      <3>1. status'[t] = EndText(line)
        BY <2>1, <2>2
      <3>2. line.kind = status'[t] /\ line.kind \in Endings
        BY <3>1 DEF EndText, Endings
      <3>3. line.arg = current_test /\ said[line.arg] = line.kind
        BY <1>0, <1>5, <3>2 DEF OrderInv, WriteEnd
      <3>4. QED
        BY <2>1, <2>2, <3>2, <3>3
    <2>3. CASE t # current_test
      BY <1>0, <2>1, <2>3
    <2>4. QED
      BY <2>2, <2>3
  <1>6. QED
    BY <1>1, <1>2, <1>3, <1>4, <1>5 DEF Next, vars, ChildStep, Loop, TestBegins, set_watchdog,
       KernelCrash, Chatter, RunEnds, ChildExits, Install, LineDone, child_handler, term_handler,
       alarm_handler, Killed, Tick

\* In a VM a status file says PASSED, or NOTRUN, only of a test that reported it: the endings
\* come behind the start of their own test, and no line is lost in between.
THEOREM VerdictsEarned == Spec => []VerdictIsEarned
  <1>1. Init => VerdictIsEarned
    BY DEF Init, VerdictIsEarned
  <1>2. QED
    BY <1>1, StepEarned, AlwaysInv, AlwaysOrder, PTL DEF Spec
=============================================================================
