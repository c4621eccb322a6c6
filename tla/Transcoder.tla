----------------------------- MODULE Transcoder -----------------------------
(***************************************************************************)
(* One MasterManager and its SlaveManagers: the AddFile RPCs of a slave    *)
(* controller are the AddFile calls of its slave, and the notifications of *)
(* a slave are the NotifyStateChange calls of the master.                  *)
(*                                                                         *)
(* An RPC that was sent is, in order, executed and answered, executed and  *)
(* its answer lost, or lost: the caller sees the last two as a failure.    *)
(***************************************************************************)
EXTENDS FStates, Integers, Sequences, FiniteSets

CONSTANTS
  Ids, Slaves, MaxProcessing, ReuseIds, MaxCalls, MaxStarts,
  Names, Uris, WildcardUris, Parallel, Wrappers, PinGarbage, W, MaxDeleted,
  MaxNotes, MaxProcs, MaxSlaveStarts,
  ScpPath,      \* the remote path SlaveController::ProcessFile makes of a file's path
  MasterUri     \* master_uri()

ASSUME TranscoderAssumption ==
  /\ ScpPath \in [Ids -> Names]
  /\ MasterUri \in Uris
  /\ MaxProcessing \in Nat \ {0} /\ MaxCalls \in Nat \ {0} /\ MaxStarts \in Nat \ {0}
  /\ ReuseIds \in BOOLEAN
  /\ IsFiniteSet(Names) /\ WildcardUris \subseteq Uris
  /\ Parallel \in Nat \ {0}
  /\ W \in Nat \ {0} /\ PinGarbage \subseteq 0 .. W - 1
  /\ MaxDeleted \in Nat
  /\ MaxNotes \in Nat \ {0} /\ MaxProcs \in Nat \ {0}
  /\ MaxSlaveStarts \in Nat \ {0}

VARIABLES
  phase, pending, cfiles, calls, hasKey, savedPending, savedFiles,
  submitted, deleted, starts, crashed, lastHeld, aborts,
  sup, mem, ssaved, sremoved, faults, sstarts

M == INSTANCE MasterManager
S == INSTANCE SlaveManager

masterVars == <<phase, pending, cfiles, calls, hasKey, savedPending, savedFiles,
                submitted, deleted, starts, crashed, lastHeld, aborts>>
slaveVars == <<sup, mem, ssaved, sremoved, faults, sstarts>>
vars == <<masterVars, slaveVars>>

Init == M!Init /\ S!Init

-----------------------------------------------------------------------------
(* SlaveManager::AddFile(file_id, file_path, ...) as ProcessFile calls it: *)
(* the remote path comes first and the id second, so the slave knows the   *)
(* file by its path.                                                       *)

NextCall(s) == calls[s][M!FirstUnanswered(s)]
SlaveId(id) == ScpPath[id]

AddFileExecuted(s) ==
  /\ phase = "up" /\ sup[s]
  /\ M!Unanswered(s) # {}
  /\ LET n == SlaveId(NextCall(s).id) IN
       \/ /\ S!RpcAddFile(s, n, MasterUri)
          /\ \E res \in {"ok", "failed"} :
               (res = "ok" => sup'[s]) /\ M!AnswerAddFile(s, res)
       \/ /\ S!Has(mem[s], n)
          /\ M!AnswerAddFile(s, "error")
          /\ UNCHANGED slaveVars

AddFileLost(s) == M!AnswerAddFile(s, "failed") /\ UNCHANGED slaveVars

\* The id in the notification is the one the slave knows the file by.
NotificationExecuted(s, n) ==
  /\ S!Unanswered(s, n) # {}
  /\ S!CanReach(s, n)
  /\ M!NotifyStateChange(s, n, S!NextNote(s, n).file)
  /\ \E res \in {"ok", "failed"} : S!AnswerNote(s, n, res)

NotificationLost(s, n) == S!AnswerNote(s, n, "failed") /\ UNCHANGED masterVars

MasterStep ==
  /\ M!UserStep \/ M!SlaveControllerStep \/ M!ProcessStep
  /\ UNCHANGED slaveVars

SlaveStep(s) ==
  /\ S!CallbackStep(s) \/ S!ProcessStep(s) \/ \E n \in Names : S!RpcDelFile(s, n)
  /\ UNCHANGED masterVars

NetworkStep(s) ==
  \/ AddFileExecuted(s)
  \/ AddFileLost(s)
  \/ \E n \in Names : NotificationExecuted(s, n) \/ NotificationLost(s, n)

Next == MasterStep \/ \E s \in Slaves : SlaveStep(s) \/ NetworkStep(s)

Spec == Init /\ [][Next]_vars

Offering(s, id) == M!Unanswered(s) # {} /\ NextCall(s).id = id

\* The alarms of the controllers are periodic; the selectors run the callbacks
\* they are given; a process that was started exits; a slave that went down is
\* started again; an RPC that is tried again and again gets through.
Fairness ==
  \A s \in Slaves :
    /\ WF_vars(M!HandleAddFileResult(s) /\ UNCHANGED slaveVars)
    /\ \A id \in Ids : WF_vars(M!ProcessPending(s, id) /\ UNCHANGED slaveVars)
    /\ WF_vars(\E n \in Names, report \in {S!Ready, S!Error} :
                 S!ProcessingCompleted(s, n, report) /\ UNCHANGED masterVars)
    /\ \A n \in Names :
         WF_vars(S!HandleNotifyStateChangeResult(s, n) /\ UNCHANGED masterVars)
    /\ WF_vars(S!Start(s) /\ UNCHANGED masterVars)
    /\ WF_vars(AddFileExecuted(s) \/ AddFileLost(s))
    /\ \A id \in Ids : SF_vars(Offering(s, id) /\ AddFileExecuted(s))
    /\ \A n \in Names :
         /\ WF_vars(NotificationExecuted(s, n) \/ NotificationLost(s, n))
         /\ SF_vars(NotificationExecuted(s, n))

FairSpec == Spec /\ Fairness

-----------------------------------------------------------------------------
(* What has become of a file at a slave, in memory or on its disk, and     *)
(* what the master has been told.                                          *)

Stage(s, id) ==
  LET disk == ssaved[s][SlaveId(id)].file.st
  IN  IF disk \notin {ABSENT, "PENDING"} THEN disk ELSE S!State(mem[s], SlaveId(id))

View(s, id) == cfiles[s][id].st

Outcomes == {"SLAVE_READY", "ERROR"}

\* The master never believes more than what happened, and never goes back:
\* lost, late and repeated messages and crashes of either side included.  What
\* the master shows while it is down is what it has on disk.
Shows(s, id) == IF phase = "up" THEN View(s, id) ELSE savedFiles[s][id].st

J == INSTANCE Job WITH
  stage <- [s \in Slaves |-> [id \in Ids |-> Stage(s, id)]],
  view  <- [s \in Slaves |-> [id \in Ids |-> Shows(s, id)]]

ImplementsJob == J!Spec

\* Until the master crashes, a file is given to one slave at most.
TranscodedOnce ==
  (~crashed /\ ~ReuseIds) =>
    \A id \in Ids : \A s, t \in Slaves :
      s # t => Stage(s, id) = ABSENT \/ Stage(t, id) = ABSENT

\* The controller offers a PENDING file until the slave has it, however many
\* RPCs fail: unless the master ends, or the slave stays down.
OffersReachTheSlave ==
  \A s \in Slaves, id \in Ids :
    \/ (phase = "up" /\ View(s, id) = "PENDING") ~> (phase # "up" \/ Stage(s, id) # ABSENT)
    \/ <>[]~sup[s]

\* What a slave has started ends, though it crashes: it is processed again
\* after the restart, unless the slave stays down.
StartedJobsEnd ==
  \A s \in Slaves, id \in Ids :
    \/ (Stage(s, id) = "PROCESSING") ~> (Stage(s, id) \in Outcomes)
    \/ <>[]~sup[s]

\* "string AddFile(string file_id, string file_path, ...)" (manager.rpc:50)
\* and "file identifier" (manager.rpc:9): slaves notify of ids that users gave.
NotifiedIdsAreKnown ==
  \A s \in Slaves, n \in Names : mem[s].notes[n] # <<>> => n \in submitted

\* "transcode in progress, keep checking file state" (slave_controller.cc:309):
\* a master that stays up, of a slave that stays up, learns of every outcome.
OutcomeIsLearned ==
  \A s \in Slaves, id \in Ids :
    \/ (phase = "up" /\ View(s, id) = "PROCESSING" /\ Stage(s, id) \in Outcomes)
         ~> (phase # "up" \/ View(s, id) \in Outcomes)
    \/ <>[]~sup[s]
=============================================================================
