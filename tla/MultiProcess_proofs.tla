------------------------ MODULE MultiProcess_proofs ------------------------
(* Proofs about MultiProcess: sequential execution of any number of        *)
(* processes runs them in order and reports once, and rightly; parallel    *)
(* execution reports once, when all have ended, and rightly.               *)
EXTENDS MultiProcess, TLAPS

Statuses == {"added", "failed", "running", "exited", "reaped", "killed"}

\* The part of the types the argument needs.
Shape ==
  /\ os \in [Index -> Statuses]
  /\ exitCode \in [Index -> ExitCodes \cup {0}]
  /\ startPc \in {"idle", "spawn", "mark", "true", "false"}
  /\ startIdx = 0
  /\ startPc \in {"idle", "spawn"} => \A i \in Index : os[i] = "added"

OrderInv == Shape /\ SequentialOrder

\* The constants of a sequential execution.
LEMMA Constants ==
  /\ N \in Nat \ {0} /\ Index = 0 .. N - 1 /\ 0 \in Index
  /\ ExitCodes \subseteq Int /\ Expected \in [Index -> ExitCodes]
BY MultiProcessAssumption DEF MultiProcessAssumption, Index

\* While a process has not been reaped none after it was started, and those
\* before it have exited as expected.
LEMMA Alone ==
  ASSUME OrderInv, NEW i \in Index, os[i] \in {"running", "exited"}
  PROVE  /\ \A j \in Index : i < j => os[j] = "added"
         /\ \A j \in Index : j < i => os[j] = "reaped" /\ ~Failed(j)
BY Constants DEF OrderInv, Shape, SequentialOrder, Statuses

\* A step of a sequential execution keeps the order.
LEMMA OrderStep ==
  ASSUME Pattern = "SEQUENTIAL", OrderInv, [Next]_vars
  PROVE  OrderInv'
<1> USE Constants
<1>s. ASSUME UNCHANGED <<os, exitCode, startIdx>>, startPc' \in {"mark", "true", "false"}
      PROVE  OrderInv'
  BY <1>s DEF OrderInv, Shape, SequentialOrder, Failed
<1>1. CASE StartBegin
  BY <1>1 DEF StartBegin, OrderInv, Shape, SequentialOrder, Failed
<1>2. CASE SpawnOk
  <2>1. os' = [os EXCEPT ![0] = "running"] /\ \A i \in Index : os[i] = "added"
    BY <1>2 DEF SpawnOk, OrderInv, Shape
  <2>2. \A i, j \in Index : i < j => os'[j] = "added"
    BY <2>1
  <2>3. Shape'
    BY <1>2, <2>1 DEF SpawnOk, OrderInv, Shape, Statuses
  <2> QED BY <2>2, <2>3 DEF OrderInv, SequentialOrder
<1>3. CASE SpawnFails
  <2>1. os' = [os EXCEPT ![0] = "failed"] /\ \A i \in Index : os[i] = "added"
    BY <1>3 DEF SpawnFails, OrderInv, Shape
  <2>2. \A i, j \in Index : i < j => os'[j] = "added"
    BY <2>1
  <2>3. Shape'
    BY <1>3, <2>1 DEF SpawnFails, OrderInv, Shape, Statuses
  <2> QED BY <2>2, <2>3 DEF OrderInv, SequentialOrder
<1>4. CASE MarkRunning
  BY <1>4, <1>s DEF MarkRunning, StartNext
<1>5. ASSUME NEW i \in Index, ProcessDies(i) PROVE OrderInv'
  <2>1. PICK c \in ExitCodes :
          /\ os[i] = "running"
          /\ os' = [os EXCEPT ![i] = "exited"] /\ exitCode' = [exitCode EXCEPT ![i] = c]
          /\ UNCHANGED <<startPc, startIdx>>
    BY <1>5 DEF ProcessDies
  <2>2. Shape'
    BY <2>1 DEF OrderInv, Shape, Statuses
  <2>3. SequentialOrder'
    <3>1. \A j \in Index : i < j => os'[j] = "added"
      BY <2>1, Alone
    <3> QED BY <2>1, <3>1 DEF OrderInv, Shape, SequentialOrder, Failed
  <2> QED BY <2>2, <2>3 DEF OrderInv
<1>6. ASSUME NEW i \in Index, ProcessExit(i) PROVE OrderInv'
  <2>1. os[i] = "exited" /\ UNCHANGED <<exitCode, startPc, startIdx>>
    BY <1>6 DEF ProcessExit
  <2>2. \/ os' = [os EXCEPT ![i] = "reaped"]
        \/ /\ exitCode[i] = Expected[i] /\ i + 1 \in Index
           /\ \/ os' = [os EXCEPT ![i] = "reaped", ![i + 1] = "running"]
              \/ os' = [os EXCEPT ![i] = "reaped", ![i + 1] = "failed"]
    <3>1. i + 1 < N => i + 1 \in Index
      OBVIOUS
    <3>2. CASE cleared
      BY <1>6, <3>2 DEF ProcessExit
    <3>3. CASE ~cleared
      <4>1. ExitSequential(i)
        BY <1>6, <3>3 DEF ProcessExit
      <4> QED BY <3>1, <4>1 DEF ExitSequential, AsExpected
    <3> QED BY <3>2, <3>3
  <2>3. /\ \A j \in Index : i < j => os[j] = "added"
        /\ \A j \in Index : j < i => os[j] = "reaped" /\ ~Failed(j)
    BY <2>1, Alone
  <2>4. Shape'
    BY <2>1, <2>2 DEF OrderInv, Shape, Statuses
  <2>5. SequentialOrder'
    BY <2>1, <2>2, <2>3 DEF OrderInv, Shape, SequentialOrder, Failed
  <2> QED BY <2>4, <2>5 DEF OrderInv
<1>7. CASE StopAndClear
  <2>1. /\ UNCHANGED <<exitCode, startPc, startIdx>>
        /\ \A i \in Index : os'[i] = os[i] \/ (os[i] = "running" /\ os'[i] = "killed")
        /\ os' \in [Index -> Statuses]
    BY <1>7 DEF StopAndClear, OrderInv, Shape, Statuses
  <2> QED BY <2>1 DEF OrderInv, Shape, SequentialOrder, Failed
<1>8. CASE UNCHANGED vars
  BY <1>8 DEF vars, OrderInv, Shape, SequentialOrder, Failed
<1> QED BY <1>1, <1>2, <1>3, <1>4, <1>5, <1>6, <1>7, <1>8 DEF Next

\* Whatever the number of processes and the timing of their exits, sequential
\* execution starts a process only after those before it exited as expected.
THEOREM RunsInOrder == Spec => [](Pattern = "SEQUENTIAL" => SequentialOrder)
<1> DEFINE I == Pattern = "SEQUENTIAL" => OrderInv
<1>1. Init => I
  BY Constants DEF Init, OrderInv, Shape, SequentialOrder, Statuses
<1>2. I /\ [Next]_vars => I'
  BY OrderStep
<1>3. I => (Pattern = "SEQUENTIAL" => SequentialOrder)
  BY DEF OrderInv
<1> QED BY <1>1, <1>2, <1>3, PTL DEF Spec

-----------------------------------------------------------------------------
(* The one report.                                                         *)

RunArgs == [success : BOOLEAN, exit_code : Int]

\* Before the report the callback is there; after it nothing is left to happen.
ResultInv ==
  /\ runs = <<>> => callback
  /\ runs # <<>> => startPc \notin {"idle", "spawn"}
  /\ runs = <<>> \/ \E r \in RunArgs : runs = <<r>>
  /\ SequentialResult

\* A list of runs with one in it.
LEMMA OneRun ==
  ASSUME NEW r \in RunArgs
  PROVE  /\ Append(<<>>, r) = <<r>> /\ Len(<<r>>) = 1 /\ <<r>>[1] = r /\ <<r>> # <<>>
         /\ Len(<<>>) = 0
OBVIOUS

\* With nothing reported yet, the invariant is about the flags alone.
LEMMA NotReported ==
  ASSUME runs' = <<>>, callback', ~cleared' => ~aborted'
  PROVE  ResultInv'
BY DEF ResultInv, SequentialResult

\* Running the completion callback for the first time, when process i was the
\* last one alive, and reporting its failure, that the next one could not be
\* started, or that all of them have exited as expected.
LEMMA Report ==
  ASSUME Pattern = "SEQUENTIAL", OrderInv, OrderInv', ResultInv, runs = <<>>,
         ~cleared, NEW ok \in BOOLEAN, NEW c \in Int, RunCompletionCallback(ok, c),
         startPc' \notin {"idle", "spawn"},
         \A i \in Index : os'[i] \notin {"running", "exited"},
         ok <=> (\A i \in Index : os'[i] = "reaped" /\ ~Failed(i)'),
         \A i \in Index : (os'[i] = "reaped" /\ Failed(i)') => c = exitCode'[i]
  PROVE  ResultInv'
<1> DEFINE r == [success |-> ok, exit_code |-> c]
<1>1. r \in RunArgs BY DEF RunArgs
<1>2. callback BY DEF ResultInv
<1>3. runs' = <<r>> /\ aborted' = aborted
  BY <1>1, <1>2, OneRun DEF RunCompletionCallback
<1>4. ~aborted BY DEF ResultInv, SequentialResult
<1>5. r.success = ok /\ r.exit_code = c OBVIOUS
<1> HIDE DEF r
<1>6. SequentialResult'
  BY <1>1, <1>3, <1>4, <1>5, OneRun DEF SequentialResult
<1> QED BY <1>1, <1>3, <1>4, <1>6, OneRun DEF ResultInv

\* A step of a sequential execution keeps the report right.
LEMMA ResultStep ==
  ASSUME Pattern = "SEQUENTIAL", OrderInv, ResultInv, [Next]_vars
  PROVE  ResultInv'
<1> USE Constants
<1>o. OrderInv' BY OrderStep
<1>1. CASE StartBegin \/ SpawnOk \/ SpawnFails
  <2>1. runs = <<>> /\ UNCHANGED <<runs, callback, cleared, aborted>>
    BY <1>1 DEF ResultInv, StartBegin, SpawnOk, SpawnFails
  <2> QED BY <2>1, NotReported DEF ResultInv, SequentialResult
<1>2. CASE MarkRunning
  <2>1. /\ startPc' = "true"
        /\ UNCHANGED <<os, exitCode, runs, callback, cleared, aborted>>
    BY <1>2 DEF MarkRunning, StartNext
  <2> QED BY <2>1 DEF ResultInv, SequentialResult, Failed
<1>3. ASSUME NEW i \in Index, ProcessDies(i) PROVE ResultInv'
  <2>1. os[i] = "running" /\ UNCHANGED <<runs, callback, cleared, aborted>>
    BY <1>3 DEF ProcessDies
  <2>2. runs = <<>>
    BY <2>1 DEF ResultInv, SequentialResult
  <2> QED BY <2>1, <2>2, NotReported DEF ResultInv, SequentialResult
<1>4. ASSUME NEW i \in Index, ~cleared, ProcessExit(i) PROVE ResultInv'
  <2>1. /\ os[i] = "exited" /\ ~cleared /\ ~cleared' /\ ExitSequential(i)
        /\ UNCHANGED <<exitCode, startPc>>
    BY <1>4 DEF ProcessExit
  <2>2. runs = <<>> /\ callback /\ ~aborted
    BY <2>1 DEF ResultInv, SequentialResult
  <2>3. startPc \notin {"idle", "spawn"}
    BY <2>1 DEF OrderInv, Shape
  <2>4. /\ \A j \in Index : i < j => os[j] = "added"
        /\ \A j \in Index : j < i => os[j] = "reaped" /\ ~Failed(j)
    BY <2>1, Alone
  <2>5. os \in [Index -> Statuses]
    BY DEF OrderInv, Shape
  <2>6. \A j \in Index : Failed(j)' <=> Failed(j)
    BY <2>1 DEF Failed
  <2>7. CASE /\ exitCode[i] # Expected[i]
             /\ os' = [os EXCEPT ![i] = "reaped"]
             /\ RunCompletionCallback(FALSE, exitCode[i])
    <3>1. exitCode[i] \in Int
      <4>1. exitCode[i] \in ExitCodes \cup {0}
        BY DEF OrderInv, Shape
      <4>2. ExitCodes \cup {0} \subseteq Int
        OBVIOUS
      <4> QED BY <4>1, <4>2, Zenon
    <3>2. \A j \in Index : os'[j] \notin {"running", "exited"}
      BY <2>4, <2>5, <2>7
    <3>3. os'[i] = "reaped" /\ Failed(i)'
      BY <2>5, <2>6, <2>7 DEF Failed
    <3>4. \A j \in Index : (os'[j] = "reaped" /\ Failed(j)') => exitCode[i] = exitCode'[j]
      BY <2>1, <2>4, <2>5, <2>6, <2>7
    <3> QED BY <1>o, <2>1, <2>2, <2>3, <2>7, <3>1, <3>2, <3>3, <3>4, Report
  <2>8. CASE NoCompletion
    BY <2>1, <2>2, <2>8, NotReported DEF NoCompletion
  <2>9. CASE /\ exitCode[i] = Expected[i] /\ i + 1 < N
             /\ os' = [os EXCEPT ![i] = "reaped", ![i + 1] = "failed"]
             /\ RunCompletionCallback(FALSE, -1)
    <3>1. i + 1 \in Index BY <2>9
    <3>2. \A j \in Index : os'[j] \notin {"running", "exited"}
      BY <2>4, <2>5, <2>9
    <3>3. os'[i + 1] # "reaped"
      BY <2>5, <2>9, <3>1
    <3>4. \A j \in Index : os'[j] = "reaped" => ~Failed(j)'
      BY <2>4, <2>5, <2>6, <2>9 DEF Failed
    <3>5. ~(\A j \in Index : os'[j] = "reaped" /\ ~Failed(j)')
      BY <3>1, <3>3
    <3>6. \A j \in Index : (os'[j] = "reaped" /\ Failed(j)') => -1 = exitCode'[j]
      BY <3>4
    <3>7. -1 \in Int OBVIOUS
    <3>8. RunCompletionCallback(FALSE, -1) /\ startPc' \notin {"idle", "spawn"}
      BY <2>1, <2>3, <2>9
    <3> QED BY <1>o, <2>2, <3>2, <3>5, <3>6, <3>7, <3>8, <2>1, Report
  <2>10. CASE /\ exitCode[i] = Expected[i] /\ i + 1 = N
              /\ os' = [os EXCEPT ![i] = "reaped"]
              /\ RunCompletionCallback(TRUE, 0)
    <3>1. \A j \in Index : os'[j] = "reaped" /\ ~Failed(j)'
      BY <2>4, <2>5, <2>6, <2>10 DEF Failed
    <3>2. \A j \in Index : os'[j] \notin {"running", "exited"}
      BY <3>1
    <3>3. \A j \in Index : (os'[j] = "reaped" /\ Failed(j)') => 0 = exitCode'[j]
      BY <3>1
    <3>4. RunCompletionCallback(TRUE, 0) /\ startPc' \notin {"idle", "spawn"}
      BY <2>1, <2>3, <2>10
    <3> QED BY <1>o, <2>2, <3>1, <3>2, <3>3, <3>4, <2>1, Report
  <2> QED BY <2>1, <2>7, <2>8, <2>9, <2>10 DEF ExitSequential, AsExpected
<1>5. ASSUME NEW i \in Index, cleared, ProcessExit(i) PROVE ResultInv'
  <2>1. os[i] = "exited" /\ cleared' /\ UNCHANGED <<runs, callback>>
    BY <1>5 DEF ProcessExit
  <2>2. runs = <<>>
    BY <2>1 DEF ResultInv, SequentialResult
  <2> QED BY <2>1, <2>2, NotReported DEF ResultInv
<1>6. CASE StopAndClear
  <2>1. cleared' /\ UNCHANGED <<exitCode, startPc, runs, callback>>
    BY <1>6 DEF StopAndClear
  <2>2. CASE runs = <<>>
    BY <2>1, <2>2, NotReported DEF ResultInv
  <2>3. CASE runs # <<>>
    <3>1. \A i \in Index : os'[i] = os[i]
      BY <1>6, <2>3 DEF StopAndClear, ResultInv, SequentialResult
    <3> QED BY <2>1, <2>3, <3>1 DEF ResultInv, SequentialResult, Failed
  <2> QED BY <2>2, <2>3
<1>7. CASE UNCHANGED vars
  BY <1>7 DEF vars, ResultInv, SequentialResult, Failed
<1> QED BY <1>1, <1>2, <1>3, <1>4, <1>5, <1>6, <1>7 DEF Next

\* Sequential execution reports once at most, when nothing is alive any more,
\* and reports the first failure or overall success, stopped or not.
THEOREM ReportsRightly == Spec => [](Pattern = "SEQUENTIAL" => SequentialResult)
<1> DEFINE I == Pattern = "SEQUENTIAL" => OrderInv /\ ResultInv
<1>1. Init => I
  BY Constants DEF Init, OrderInv, Shape, SequentialOrder, Statuses, ResultInv,
                   SequentialResult
<1>2. I /\ [Next]_vars => I'
  BY OrderStep, ResultStep
<1>3. I => (Pattern = "SEQUENTIAL" => SequentialResult)
  BY DEF ResultInv
<1> QED BY <1>1, <1>2, <1>3, PTL DEF Spec

-----------------------------------------------------------------------------
(* Parallel execution.                                                     *)

\* Start() has dealt with process i.
Begun(i) == startPc = "true" \/ (startPc \in {"spawn", "mark"} /\ i < startIdx)

ParallelTypes ==
  /\ os \in [Index -> Statuses]
  /\ exitCode \in [Index -> ExitCodes \cup {0}]
  /\ isRunning \in [Index -> BOOLEAN]
  /\ startPc \in {"idle", "spawn", "mark", "true"}
  /\ startIdx \in Index
  /\ success \in BOOLEAN /\ code \in Int
  /\ ~cleared

\* is_running_ tells what has yet to exit, but for the process that Start()
\* has spawned and not yet marked.
MarksAreTrue ==
  \A i \in Index :
    /\ Begun(i) => /\ os[i] \in {"running", "exited", "reaped", "failed"}
                   /\ isRunning[i] <=> os[i] \in {"running", "exited"}
    /\ ~Begun(i) => /\ ~isRunning[i]
                    /\ os[i] \in IF startPc = "mark" /\ i = startIdx
                                 THEN {"running", "exited"} ELSE {"added"}
    /\ startPc # "true" => os[i] # "reaped"

\* The outcome so far is that of the processes whose exits were handled.
OutcomeIsRight ==
  /\ success <=> \A i \in Index : os[i] = "reaped" => ~Failed(i)
  /\ ~success => \E i \in Index : os[i] = "reaped" /\ Failed(i) /\ code = exitCode[i]

\* One report, at the end, of the outcome.
ReportIsLast ==
  /\ ~aborted
  /\ runs = <<>> => callback
  /\ runs # <<>> =>
       /\ startPc = "true" /\ \A i \in Index : os[i] \in {"reaped", "failed"}
       /\ runs = <<[success |-> success, exit_code |-> code]>>

ParallelInv ==
  ParallelTypes /\ (~early => MarksAreTrue /\ OutcomeIsRight /\ ReportIsLast)

\* What Start() does next.
LEMMA StartGoesOn ==
  ASSUME Pattern = "PARALLEL", ParallelTypes, startPc \in {"spawn", "mark"}, StartNext
  PROVE  /\ startPc' \in {"spawn", "true"} /\ startIdx' \in Index
         /\ \A i \in Index : Begun(i)' <=> i < startIdx \/ i = startIdx
         /\ \A i \in Index : Begun(i) <=> i < startIdx
<1> USE Constants
<1>1. startIdx \in Int /\ \A i \in Index : i \in Int /\ i <= N - 1 BY DEF ParallelTypes
<1>2. CASE startIdx + 1 < N
  BY <1>1, <1>2 DEF StartNext, Begun, ParallelTypes
<1>3. CASE ~(startIdx + 1 < N)
  BY <1>1, <1>3 DEF StartNext, Begun, ParallelTypes
<1> QED BY <1>2, <1>3

\* A step of Start() does not touch the outcome or the report.
LEMMA StartKeeps ==
  ASSUME ParallelTypes', early' = early, UNCHANGED <<exitCode, success, code, callback, runs, aborted>>,
         runs = <<>>, ~early => MarksAreTrue',
         \A i \in Index : os'[i] = "reaped" <=> os[i] = "reaped",
         ~early => OutcomeIsRight /\ ReportIsLast
  PROVE  ParallelInv'
BY DEF ParallelInv, OutcomeIsRight, ReportIsLast, Failed

\* A step of a parallel execution that is not stopped.
LEMMA ParallelStep ==
  ASSUME Pattern = "PARALLEL", ~CanStop, ParallelInv, [Next]_vars
  PROVE  ParallelInv'
<1> USE Constants
<1>0. ParallelTypes BY DEF ParallelInv
<1>1. CASE StartBegin
  <2>1. /\ startPc = "idle" /\ startPc' = "spawn" /\ startIdx' = 0 /\ success' /\ code' = 0
        /\ UNCHANGED <<os, exitCode, isRunning, callback, runs, early, cleared, aborted>>
    BY <1>1 DEF StartBegin
  <2>2. ParallelTypes' BY <1>0, <2>1 DEF ParallelTypes
  <2>3. ASSUME ~early PROVE MarksAreTrue' /\ OutcomeIsRight' /\ ReportIsLast'
    <3>1. \A i \in Index : ~Begun(i) /\ ~Begun(i)' BY <2>1 DEF Begun
    <3>2. \A i \in Index : os[i] = "added" /\ ~isRunning[i]
      BY <2>1, <2>3, <3>1 DEF ParallelInv, MarksAreTrue
    <3>3. MarksAreTrue' BY <2>1, <3>1, <3>2 DEF MarksAreTrue
    <3>4. OutcomeIsRight' BY <2>1, <3>2 DEF OutcomeIsRight
    <3>5. runs = <<>> BY <2>1, <2>3 DEF ParallelInv, ReportIsLast
    <3>6. ReportIsLast' BY <2>1, <2>3, <3>5 DEF ParallelInv, ReportIsLast
    <3> QED BY <3>3, <3>4, <3>6
  <2> QED BY <2>1, <2>2, <2>3 DEF ParallelInv
<1>2. CASE SpawnOk
  <2>1. /\ startPc = "spawn" /\ startPc' = "mark" /\ os' = [os EXCEPT ![startIdx] = "running"]
        /\ UNCHANGED <<exitCode, isRunning, startIdx, success, code, callback, runs, early,
                       cleared, aborted>>
    BY <1>2 DEF SpawnOk
  <2>2. ParallelTypes' BY <1>0, <2>1 DEF ParallelTypes, Statuses
  <2>3. CASE early BY <2>1, <2>2, <2>3 DEF ParallelInv
  <2>4. CASE ~early
    <3>1. \A i \in Index : Begun(i)' <=> Begun(i) BY <2>1 DEF Begun
    <3>2. ~Begun(startIdx) BY <1>0, <2>1 DEF Begun, ParallelTypes
    <3>3. MarksAreTrue /\ OutcomeIsRight /\ ReportIsLast BY <2>4 DEF ParallelInv
    <3>4. \A i \in Index : os'[i] = IF i = startIdx THEN "running" ELSE os[i]
      BY <1>0, <2>1 DEF ParallelTypes
    <3>5. MarksAreTrue' BY <2>1, <3>1, <3>2, <3>3, <3>4 DEF MarksAreTrue
    <3>6. runs = <<>> BY <2>1, <3>3 DEF ReportIsLast
    <3>7. \A i \in Index : os'[i] # "reaped" /\ os[i] # "reaped"
      BY <2>1, <3>3, <3>4 DEF MarksAreTrue
    <3> QED BY <2>1, <2>2, <2>4, <3>3, <3>5, <3>6, <3>7, StartKeeps
  <2> QED BY <2>3, <2>4
<1>3. CASE SpawnFails
  <2>1. /\ startPc = "spawn" /\ StartNext /\ os' = [os EXCEPT ![startIdx] = "failed"]
        /\ UNCHANGED <<exitCode, isRunning, success, code, callback, runs, early, cleared, aborted>>
    BY <1>3 DEF SpawnFails
  <2>2. /\ startPc' \in {"spawn", "true"} /\ startIdx' \in Index
        /\ \A i \in Index : Begun(i)' <=> i < startIdx \/ i = startIdx
        /\ \A i \in Index : Begun(i) <=> i < startIdx
    BY <1>0, <2>1, StartGoesOn
  <2>3. ParallelTypes' BY <1>0, <2>1, <2>2 DEF ParallelTypes, Statuses
  <2>4. CASE early BY <2>1, <2>3, <2>4 DEF ParallelInv
  <2>5. CASE ~early
    <3>1. MarksAreTrue /\ OutcomeIsRight /\ ReportIsLast BY <2>5 DEF ParallelInv
    <3>2. \A i \in Index : os'[i] = IF i = startIdx THEN "failed" ELSE os[i]
      BY <1>0, <2>1 DEF ParallelTypes
    <3>3. ~(startIdx < startIdx) BY <1>0 DEF ParallelTypes
    <3>4. MarksAreTrue'
      <4> SUFFICES ASSUME NEW i \in Index
                   PROVE  /\ Begun(i)' => /\ os'[i] \in {"running", "exited", "reaped", "failed"}
                                          /\ isRunning'[i] <=> os'[i] \in {"running", "exited"}
                          /\ ~Begun(i)' => ~isRunning'[i] /\ os'[i] = "added"
                          /\ os'[i] # "reaped"
        BY <2>2 DEF MarksAreTrue
      <4>1. CASE i = startIdx BY <2>1, <2>2, <3>1, <3>2, <3>3, <4>1 DEF MarksAreTrue
      <4>2. CASE i # startIdx BY <2>1, <2>2, <3>1, <3>2, <4>2 DEF MarksAreTrue
      <4> QED BY <4>1, <4>2
    <3>5. runs = <<>> BY <2>1, <3>1 DEF ReportIsLast
    <3>6. \A i \in Index : os'[i] # "reaped" /\ os[i] # "reaped"
      BY <2>1, <3>1, <3>2 DEF MarksAreTrue
    <3> QED BY <2>1, <2>3, <2>5, <3>1, <3>4, <3>5, <3>6, StartKeeps
  <2> QED BY <2>4, <2>5
<1>4. CASE MarkRunning
  <2>1. /\ startPc = "mark" /\ StartNext /\ isRunning' = [isRunning EXCEPT ![startIdx] = TRUE]
        /\ UNCHANGED <<os, exitCode, success, code, callback, runs, early, cleared, aborted>>
    BY <1>4 DEF MarkRunning
  <2>2. /\ startPc' \in {"spawn", "true"} /\ startIdx' \in Index
        /\ \A i \in Index : Begun(i)' <=> i < startIdx \/ i = startIdx
        /\ \A i \in Index : Begun(i) <=> i < startIdx
    BY <1>0, <2>1, StartGoesOn
  <2>3. ParallelTypes' BY <1>0, <2>1, <2>2 DEF ParallelTypes, Statuses
  <2>4. CASE early BY <2>1, <2>3, <2>4 DEF ParallelInv
  <2>5. CASE ~early
    <3>1. MarksAreTrue /\ OutcomeIsRight /\ ReportIsLast BY <2>5 DEF ParallelInv
    <3>2. \A i \in Index : isRunning'[i] <=> IF i = startIdx THEN TRUE ELSE isRunning[i]
      BY <1>0, <2>1 DEF ParallelTypes
    <3>3. ~(startIdx < startIdx) BY <1>0 DEF ParallelTypes
    <3>4. MarksAreTrue'
      <4> SUFFICES ASSUME NEW i \in Index
                   PROVE  /\ Begun(i)' => /\ os[i] \in {"running", "exited", "reaped", "failed"}
                                          /\ isRunning'[i] <=> os[i] \in {"running", "exited"}
                          /\ ~Begun(i)' => ~isRunning'[i] /\ os[i] = "added"
                          /\ os[i] # "reaped"
        BY <2>1, <2>2 DEF MarksAreTrue
      <4>1. CASE i = startIdx
        <5>1. os[i] \in {"running", "exited"} BY <2>1, <2>2, <3>1, <3>3, <4>1 DEF MarksAreTrue
        <5> QED BY <2>2, <3>2, <4>1, <5>1
      <4>2. CASE i # startIdx BY <2>1, <2>2, <3>1, <3>2, <4>2 DEF MarksAreTrue
      <4> QED BY <4>1, <4>2
    <3>5. runs = <<>> BY <2>1, <3>1 DEF ReportIsLast
    <3>6. \A i \in Index : os'[i] # "reaped" /\ os[i] # "reaped" BY <2>1, <3>1 DEF MarksAreTrue
    <3> QED BY <2>1, <2>3, <2>5, <3>1, <3>4, <3>5, <3>6, StartKeeps
  <2> QED BY <2>4, <2>5
<1>5. ASSUME NEW i \in Index, ProcessDies(i) PROVE ParallelInv'
  <2>1. PICK c \in ExitCodes :
          /\ os[i] = "running"
          /\ os' = [os EXCEPT ![i] = "exited"] /\ exitCode' = [exitCode EXCEPT ![i] = c]
          /\ UNCHANGED <<isRunning, startPc, startIdx, success, code, callback, runs,
                         early, cleared, aborted>>
    BY <1>5 DEF ProcessDies
  <2>2. ParallelTypes' BY <1>0, <2>1 DEF ParallelTypes, Statuses
  <2>3. CASE early BY <2>1, <2>2, <2>3 DEF ParallelInv
  <2>4. CASE ~early
    <3>1. MarksAreTrue /\ OutcomeIsRight /\ ReportIsLast BY <2>4 DEF ParallelInv
    <3>2. \A j \in Index : /\ os'[j] = IF j = i THEN "exited" ELSE os[j]
                           /\ j # i => exitCode'[j] = exitCode[j]
      BY <1>0, <2>1 DEF ParallelTypes
    <3>3. \A j \in Index : Begun(j)' <=> Begun(j) BY <2>1 DEF Begun
    <3>4. MarksAreTrue' BY <2>1, <3>1, <3>2, <3>3 DEF MarksAreTrue
    <3>5. \A j \in Index : /\ os'[j] = "reaped" <=> os[j] = "reaped"
                           /\ os[j] = "reaped" => (Failed(j)' <=> Failed(j)) /\ exitCode'[j] = exitCode[j]
      BY <2>1, <3>2 DEF Failed
    <3>6. OutcomeIsRight' BY <2>1, <3>1, <3>5 DEF OutcomeIsRight
    <3>7. ReportIsLast' BY <2>1, <3>1 DEF ReportIsLast
    <3> QED BY <2>2, <3>4, <3>6, <3>7 DEF ParallelInv
  <2> QED BY <2>3, <2>4
<1>6. ASSUME NEW i \in Index, ProcessExit(i) PROVE ParallelInv'
  <2>1. /\ os[i] = "exited" /\ early' = (early \/ startPc \in {"spawn", "mark"})
        /\ UNCHANGED <<exitCode, startPc, startIdx, cleared>> /\ ExitParallel(i)
    BY <1>0, <1>6 DEF ProcessExit, ParallelTypes
  <2> DEFINE failed == Failed(i) /\ success
  <2>2. /\ os' = [os EXCEPT ![i] = "reaped"] /\ isRunning' = [isRunning EXCEPT ![i] = FALSE]
        /\ success' = IF failed THEN FALSE ELSE success
        /\ code' = IF failed THEN exitCode[i] ELSE code
        /\ IF \E j \in Index : isRunning'[j] THEN UNCHANGED <<runs, callback, aborted>>
           ELSE RunCompletionCallback(success', code')
    BY <2>1 DEF ExitParallel, AsExpected, Failed, StillRunning, NoCompletion
  <2>3. exitCode[i] \in Int
    <3>1. exitCode[i] \in ExitCodes \cup {0} BY <1>0 DEF ParallelTypes
    <3>2. ExitCodes \cup {0} \subseteq Int OBVIOUS
    <3> QED BY <3>1, <3>2, Zenon
  <2>4. ParallelTypes'
    <3>1. os' \in [Index -> Statuses] /\ isRunning' \in [Index -> BOOLEAN]
      BY <1>0, <2>2 DEF ParallelTypes, Statuses
    <3>2. success' \in BOOLEAN /\ code' \in Int BY <1>0, <2>2, <2>3 DEF ParallelTypes
    <3> QED BY <1>0, <2>1, <3>1, <3>2 DEF ParallelTypes
  <2>5. CASE early' BY <2>4, <2>5 DEF ParallelInv
  <2>6. CASE ~early'
    <3>1. MarksAreTrue /\ OutcomeIsRight /\ ReportIsLast /\ ~early BY <2>1, <2>6 DEF ParallelInv
    <3>2. startPc = "true" /\ \A j \in Index : Begun(j) /\ Begun(j)'
      <4>1. startPc \notin {"spawn", "mark"} BY <2>1, <2>6
      <4>2. startPc # "idle"
        <5> SUFFICES ASSUME startPc = "idle" PROVE FALSE OBVIOUS
        <5>1. ~Begun(i) BY DEF Begun
        <5> QED BY <2>1, <3>1, <5>1 DEF MarksAreTrue
      <4> QED BY <1>0, <2>1, <4>1, <4>2 DEF Begun, ParallelTypes
    <3>3. \A j \in Index : /\ os'[j] = IF j = i THEN "reaped" ELSE os[j]
                           /\ isRunning'[j] <=> (j # i /\ isRunning[j])
                           /\ Failed(j)' <=> Failed(j)
      BY <1>0, <2>1, <2>2 DEF ParallelTypes, Failed
    <3>4. MarksAreTrue' BY <3>1, <3>2, <3>3, <2>1 DEF MarksAreTrue
    <3>5. OutcomeIsRight'
      <4>1. CASE failed
        <5>1. ~success' /\ code' = exitCode[i] /\ os'[i] = "reaped" /\ Failed(i)' /\ exitCode' = exitCode
          BY <2>1, <2>2, <3>3, <4>1
        <5> QED BY <5>1 DEF OutcomeIsRight
      <4>2. CASE ~failed
        <5>1. success' = success /\ code' = code /\ exitCode' = exitCode BY <2>1, <2>2, <4>2
        <5> QED BY <2>1, <3>1, <3>3, <4>2, <5>1 DEF OutcomeIsRight
      <4> QED BY <4>1, <4>2
    <3>6. runs = <<>> /\ callback /\ ~aborted
      BY <2>1, <3>1 DEF ReportIsLast
    <3>7. ReportIsLast'
      <4>1. CASE \E j \in Index : isRunning'[j]
        BY <2>2, <3>6, <4>1 DEF ReportIsLast
      <4>2. CASE ~ \E j \in Index : isRunning'[j]
        <5>1. RunCompletionCallback(success', code') BY <2>2, <4>2
        <5>2. \A j \in Index : os'[j] \in {"reaped", "failed"}
          BY <3>1, <3>2, <3>4, <4>2 DEF MarksAreTrue
        <5> DEFINE r == [success |-> success', exit_code |-> code']
        <5>3. runs' = Append(<<>>, r) /\ ~aborted' BY <3>6, <5>1 DEF RunCompletionCallback
        <5>4. r \in RunArgs BY <2>4 DEF RunArgs, ParallelTypes
        <5> HIDE DEF r
        <5>5. runs' = <<r>> /\ runs' # <<>> BY <5>3, <5>4, OneRun
        <5> QED BY <2>1, <3>2, <5>2, <5>3, <5>5 DEF ReportIsLast, r
      <4> QED BY <4>1, <4>2
    <3> QED BY <2>4, <3>4, <3>5, <3>7 DEF ParallelInv
  <2> QED BY <2>5, <2>6
<1>7. CASE StopAndClear BY <1>7 DEF StopAndClear
<1>8. CASE UNCHANGED vars
  BY <1>8 DEF vars, ParallelInv, ParallelTypes, MarksAreTrue, Begun, OutcomeIsRight, ReportIsLast,
              Failed
<1> QED BY <1>1, <1>2, <1>3, <1>4, <1>5, <1>6, <1>7, <1>8 DEF Next

\* Parallel execution that nobody stops reports once, after the last exit, and
\* a failure exactly when a process failed, unless an exit was handled while
\* Start() was still spawning (see mp_parallel).
THEOREM ReportsAllInParallel ==
  Spec => [](Pattern = "PARALLEL" /\ ~CanStop => ParallelResultUnlessEarly)
<1> DEFINE I == Pattern = "PARALLEL" /\ ~CanStop => ParallelInv
<1>1. Init => I
  BY Constants DEF Init, ParallelInv, ParallelTypes, MarksAreTrue, Begun, OutcomeIsRight,
                   ReportIsLast, Failed, Statuses
<1>2. I /\ [Next]_vars => I'
  BY ParallelStep
<1>3. ParallelInv => ParallelResultUnlessEarly
  <2> SUFFICES ASSUME ParallelInv, ~early
               PROVE  /\ Len(runs) <= 1 /\ ~aborted
                      /\ runs # <<>> =>
                           /\ \A i \in Index : os[i] \in {"reaped", "failed"}
                           /\ runs[1].success <=> (\A i \in Reported : ~Failed(i))
                           /\ ~runs[1].success =>
                                \E i \in Reported : Failed(i) /\ runs[1].exit_code = exitCode[i]
    BY DEF ParallelResultUnlessEarly
  <2> DEFINE r == [success |-> success, exit_code |-> code]
  <2>1. OutcomeIsRight /\ ReportIsLast /\ r \in RunArgs
    BY DEF ParallelInv, ParallelTypes, RunArgs
  <2>2. r.success = success /\ r.exit_code = code OBVIOUS
  <2>3. runs # <<>> => runs = <<r>> /\ \A i \in Index : os[i] \in {"reaped", "failed"}
    BY <2>1 DEF ReportIsLast
  <2> HIDE DEF r
  <2>4. CASE runs = <<>> BY <2>1, <2>4, OneRun DEF ReportIsLast
  <2>5. CASE runs # <<>>
    <3>1. Len(runs) = 1 /\ runs[1].success = success /\ runs[1].exit_code = code
      BY <2>1, <2>2, <2>3, <2>5, OneRun
    <3> QED BY <2>1, <2>3, <2>5, <3>1 DEF OutcomeIsRight, ReportIsLast, Reported
  <2> QED BY <2>4, <2>5
<1> QED BY <1>1, <1>2, <1>3, PTL DEF Spec
=============================================================================
