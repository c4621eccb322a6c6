---------------------------- MODULE MultiProcess ----------------------------
(***************************************************************************)
(* transcoder/multi_process.{h,cc}: process::MultiProcess runs a vector of *)
(* OS processes one after the other or all in parallel and reports the     *)
(* outcome through one completion callback.                                *)
(*                                                                         *)
(* Threads.  The owner calls Start() and StopAndClear(); whisperlib's      *)
(* Process (external) runs each exit callback in a thread of its own.      *)
(* ProcessExit and StopAndClear hold sync_; Start does not, so its two     *)
(* steps per process (spawn, then set is_running_) interleave with exits.  *)
(***************************************************************************)
EXTENDS Integers, Sequences, FiniteSets

CONSTANTS
  N,            \* number of processes passed to Add()
  Pattern,      \* execution_pattern_
  ExitCodes,    \* codes a process may exit with
  Expected,     \* expected_exit_code_ of each process
  Permanent,    \* is completion_callback_ permanent?
  CanStop       \* does the owner ever call StopAndClear()?

Index == 0 .. N - 1

ASSUME MultiProcessAssumption ==
  /\ N \in Nat \ {0}
  /\ Pattern \in {"SEQUENTIAL", "PARALLEL"}
  /\ ExitCodes \subseteq Int
  /\ Expected \in [Index -> ExitCodes]
  /\ Permanent \in BOOLEAN /\ CanStop \in BOOLEAN

VARIABLES
  os,           \* life of each OS process (external)
  exitCode,     \* code it exited with, meaningful once it exited
  isRunning,    \* ProcessState::is_running_
  startPc,      \* where Start() is
  startIdx,     \* Start()'s loop index
  success,      \* parallel_success_
  code,         \* parallel_exit_code_
  callback,     \* completion_callback_ != NULL
  runs,         \* history: arguments of every completion callback run
  early,        \* history: an exit was handled before Start() returned
  cleared,      \* StopAndClear() ran: the ProcessStates are deleted
  aborted       \* a NULL or freed pointer was dereferenced

vars == <<os, exitCode, isRunning, startPc, startIdx, success, code,
          callback, runs, early, cleared, aborted>>

Init ==
  /\ os = [i \in Index |-> "added"]
  /\ exitCode = [i \in Index |-> 0]
  /\ isRunning = [i \in Index |-> FALSE]
  /\ startPc = "idle"
  /\ startIdx = 0
  /\ success = TRUE
  /\ code = -1
  /\ callback = TRUE
  /\ runs = <<>>
  /\ early = FALSE
  /\ cleared = FALSE
  /\ aborted = FALSE

-----------------------------------------------------------------------------
(* Start(), in the owner's thread, without sync_.                          *)

StartBegin ==
  /\ startPc = "idle"
  /\ ~cleared
  /\ startPc' = "spawn"
  /\ startIdx' = 0
  /\ IF Pattern = "PARALLEL"
       THEN success' = TRUE /\ code' = 0
       ELSE UNCHANGED <<success, code>>
  /\ UNCHANGED <<os, exitCode, isRunning, callback, runs, early, cleared, aborted>>

\* Where Start() goes once process startIdx is dealt with.
StartNext ==
  IF Pattern = "PARALLEL" /\ startIdx + 1 < N
    THEN startPc' = "spawn" /\ startIdx' = startIdx + 1
    ELSE startPc' = "true" /\ UNCHANGED startIdx

SpawnOk ==
  /\ startPc = "spawn"
  /\ os' = [os EXCEPT ![startIdx] = "running"]
  /\ startPc' = "mark"
  /\ UNCHANGED <<exitCode, isRunning, startIdx, success, code, callback, runs,
                 early, cleared, aborted>>

\* Sequential: Start() returns false.  Parallel: the failure is skipped.
SpawnFails ==
  /\ startPc = "spawn"
  /\ os' = [os EXCEPT ![startIdx] = "failed"]
  /\ IF Pattern = "SEQUENTIAL"
       THEN startPc' = "false" /\ UNCHANGED startIdx
       ELSE StartNext
  /\ UNCHANGED <<exitCode, isRunning, success, code, callback, runs, early,
                 cleared, aborted>>

MarkRunning ==
  /\ startPc = "mark"
  /\ isRunning' = [isRunning EXCEPT ![startIdx] = TRUE]
  /\ StartNext
  /\ UNCHANGED <<os, exitCode, success, code, callback, runs, early, cleared,
                 aborted>>

-----------------------------------------------------------------------------
(* Process, as multi_process.cc uses it (external).                        *)

ProcessDies(i) ==
  /\ os[i] = "running"
  /\ os' = [os EXCEPT ![i] = "exited"]
  /\ \E c \in ExitCodes : exitCode' = [exitCode EXCEPT ![i] = c]
  /\ UNCHANGED <<isRunning, startPc, startIdx, success, code, callback, runs,
                 early, cleared, aborted>>

-----------------------------------------------------------------------------
(* The exit callback, under sync_.                                         *)

NoCompletion == UNCHANGED <<runs, callback, aborted>>

\* Deviations: a success is always reported; nothing is reported.
RunCompletionCallback_AllWell(ok, c) ==
  /\ runs' = Append(runs, [success |-> TRUE, exit_code |-> 0])
  /\ callback' = Permanent
  /\ UNCHANGED aborted
RunCompletionCallback_Skipped(ok, c) == NoCompletion

RunCompletionCallback(ok, c) ==
  IF callback
    THEN /\ runs' = Append(runs, [success |-> ok, exit_code |-> c])
         /\ callback' = Permanent
         /\ UNCHANGED aborted
    ELSE aborted' = TRUE /\ UNCHANGED <<runs, callback>>

\* Deviation: any exit code is as expected.
AsExpected_Any(i) == TRUE
AsExpected(i) == exitCode[i] = Expected[i]

\* Deviation: the processes that still run are not waited for.
StillRunning_Ignored == FALSE
StillRunning == \E j \in Index : isRunning'[j]

ExitParallel(i) ==
  LET failed == ~AsExpected(i) /\ success
  IN  /\ os' = [os EXCEPT ![i] = "reaped"]
      /\ isRunning' = [isRunning EXCEPT ![i] = FALSE]
      /\ success' = IF failed THEN FALSE ELSE success
      /\ code' = IF failed THEN exitCode[i] ELSE code
      /\ IF StillRunning
           THEN NoCompletion
           ELSE RunCompletionCallback(success', code')

ExitSequential(i) ==
  /\ UNCHANGED <<success, code>>
  /\ \/ /\ ~AsExpected(i)
        /\ os' = [os EXCEPT ![i] = "reaped"]
        /\ isRunning' = [isRunning EXCEPT ![i] = FALSE]
        /\ RunCompletionCallback(FALSE, exitCode[i])
     \/ /\ AsExpected(i)
        /\ i + 1 < N
        /\ os' = [os EXCEPT ![i] = "reaped", ![i + 1] = "running"]
        /\ isRunning' = [isRunning EXCEPT ![i] = FALSE, ![i + 1] = TRUE]
        /\ NoCompletion
     \/ /\ AsExpected(i)
        /\ i + 1 < N
        /\ os' = [os EXCEPT ![i] = "reaped", ![i + 1] = "failed"]
        /\ isRunning' = [isRunning EXCEPT ![i] = FALSE]
        /\ RunCompletionCallback(FALSE, -1)
     \/ /\ AsExpected(i)
        /\ i + 1 = N
        /\ os' = [os EXCEPT ![i] = "reaped"]
        /\ isRunning' = [isRunning EXCEPT ![i] = FALSE]
        /\ RunCompletionCallback(TRUE, 0)

ProcessExit(i) ==
  /\ os[i] = "exited"
  /\ early' = (early \/ startPc \in {"spawn", "mark"})
  /\ UNCHANGED <<exitCode, startPc, startIdx, cleared>>
  /\ IF cleared    \* 'ps' is freed and processes_ is empty
       THEN /\ aborted' = TRUE
            /\ os' = [os EXCEPT ![i] = "reaped"]
            /\ UNCHANGED <<isRunning, success, code, callback, runs>>
       ELSE IF Pattern = "PARALLEL" THEN ExitParallel(i) ELSE ExitSequential(i)

-----------------------------------------------------------------------------
(* StopAndClear(), by the owner, under sync_.  Kill() is taken at its best: *)
(* a killed process runs no exit callback.                                 *)

StopAndClear ==
  /\ CanStop /\ ~cleared
  /\ startPc \in {"idle", "true", "false"}
  /\ os' = [i \in Index |->
              IF isRunning[i] /\ os[i] = "running" THEN "killed" ELSE os[i]]
  /\ isRunning' = [i \in Index |-> FALSE]
  /\ cleared' = TRUE
  /\ UNCHANGED <<exitCode, startPc, startIdx, success, code, callback, runs,
                 early, aborted>>

Next ==
  \/ StartBegin \/ SpawnOk \/ SpawnFails \/ MarkRunning
  \/ \E i \in Index : ProcessDies(i) \/ ProcessExit(i)
  \/ StopAndClear

\* Start() runs on, every process exits some day and its callback runs.
Fairness ==
  /\ WF_vars(SpawnOk \/ SpawnFails)
  /\ WF_vars(MarkRunning)
  /\ \A i \in Index : WF_vars(ProcessDies(i)) /\ WF_vars(ProcessExit(i))

Spec == Init /\ [][Next]_vars
FairSpec == Spec /\ Fairness

-----------------------------------------------------------------------------
Reported == {i \in Index : os[i] = "reaped"}
Failed(i) == exitCode[i] # Expected[i]

TypeOK ==
  /\ os \in [Index -> {"added", "failed", "running", "exited", "reaped", "killed"}]
  /\ exitCode \in [Index -> ExitCodes \cup {0}]
  /\ isRunning \in [Index -> BOOLEAN]
  /\ startPc \in {"idle", "spawn", "mark", "true", "false"}
  /\ startIdx \in Index
  /\ success \in BOOLEAN
  /\ code \in ExitCodes \cup {-1, 0}
  /\ callback \in BOOLEAN
  /\ runs \in Seq([success : BOOLEAN, exit_code : ExitCodes \cup {-1, 0}])
  /\ early \in BOOLEAN /\ cleared \in BOOLEAN /\ aborted \in BOOLEAN

\* Sequential execution: a process is spawned only after every earlier one has
\* exited with its expected code, so at most one is alive at any time, even
\* when the first one exits before Start() has marked it running.
SequentialOrder ==
  \A i, j \in Index :
    i < j /\ os[j] # "added" => os[i] = "reaped" /\ ~Failed(i)

\* The completion callback is run at most once per Start(), and never while a
\* process is alive; what it is told is the first failure or <TRUE, 0>.
\* StopAndClear() at any moment does not change that.
SequentialResult ==
  /\ Len(runs) <= 1
  /\ ~cleared => ~aborted
  /\ runs # <<>> =>
       /\ \A i \in Index : os[i] \notin {"running", "exited"}
       /\ runs[1].success <=> (\A i \in Index : os[i] = "reaped" /\ ~Failed(i))
       /\ \A i \in Index :
            (os[i] = "reaped" /\ Failed(i)) => runs[1].exit_code = exitCode[i]

\* "The 'completion_callback_' will be later called" (multi_process.h:70) once
\* Start() has returned true, unless the owner stops the processes.
CompletionFollowsStart == (startPc = "true") ~> (runs # <<>> \/ cleared)

\* Parallel execution: unless an exit was handled while Start() was still
\* spawning, the callback runs once, after the last exit, with a failure
\* exactly when some process failed.
ParallelResultUnlessEarly ==
  ~early =>
    /\ Len(runs) <= 1
    /\ ~aborted
    /\ runs # <<>> =>
         /\ \A i \in Index : os[i] \in {"reaped", "failed"}
         /\ runs[1].success <=> (\A i \in Reported : ~Failed(i))
         /\ ~runs[1].success =>
              \E i \in Reported : Failed(i) /\ runs[1].exit_code = exitCode[i]

\* "All processes finished execution" (multi_process.cc:112): whatever the
\* timing, the callback is not run while a process is alive.
CompletionMeansAllFinished ==
  runs # <<>> => \A i \in Index : os[i] \notin {"running", "exited"}

\* The integrity check of ProcessExit (multi_process.cc:94-95) never trips.
NeverAborts == ~aborted
=============================================================================
