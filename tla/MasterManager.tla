---------------------------- MODULE MasterManager ----------------------------
(***************************************************************************)
(* transcoder/master: RPCMasterManagerService with its RPCMasterControl-   *)
(* Service front end, and one SlaveController per slave.                   *)
(*                                                                         *)
(* Everything runs in one selector thread, so a handler is one atomic      *)
(* step; the steps that interleave are user RPCs, the 3 s grab alarm, the  *)
(* 5 s alarm of each file, RPC results, notifications from slaves, and     *)
(* stop, crash and restart.  The slaves are an arbitrary environment here: *)
(* see Transcoder for the composition with SlaveManager.                   *)
(*                                                                         *)
(* SlaveController::pending_files_ is left out: nothing calls              *)
(* QueueMediaFile, so it is always empty.                                  *)
(***************************************************************************)
EXTENDS FStates, Integers, Sequences, FiniteSets

CONSTANTS
  Ids,          \* file ids users choose
  Slaves,       \* names ("host:port") given to AddSlave
  MaxProcessing,\* max_paralel_processing_file_count_ (2 in master.cc)
  ReuseIds,     \* do users submit an id again?  manager.rpc: "unique file id"
  MaxCalls,     \* bound: outstanding AddFile RPCs to one slave
  MaxStarts     \* bound: times the master process comes up

ASSUME MasterAssumption ==
  /\ MaxProcessing \in Nat \ {0}
  /\ MaxCalls \in Nat \ {0}
  /\ MaxStarts \in Nat \ {0}
  /\ ReuseIds \in BOOLEAN

VARIABLES
  phase,        \* "down", "up", or "stopped": Stop() ran, destructor did not
  pending,      \* RPCMasterManagerService::pending_files_
  cfiles,       \* SlaveController::files_, per slave
  calls,        \* AddFile RPCs whose result callback has not run, per slave
  hasKey,       \* state keeper: was kStatePendingFiles ever saved?
  savedPending, \* state keeper: its value
  savedFiles,   \* state keeper: kStateFiles of each slave controller
  submitted,    \* history: ids users gave to AddFile
  deleted,      \* history: ids users gave to DelFile, not submitted again
  starts,       \* history: how often the process was started and came up
  crashed,      \* history: did it ever end other than through Stop()?
  lastHeld,     \* history: files_ of each slave when the process last ended
  aborts        \* history: the CHECKs and LOG_FATALs that ended the process

disk == <<hasKey, savedPending, savedFiles>>
history == <<submitted, deleted, starts, crashed, lastHeld, aborts>>
mvars == <<phase, pending, cfiles, calls, disk, history>>

None == [id \in Ids |-> NoFile]
Result == {"sent", "ok", "error", "failed"}
Call == [id : Ids, res : Result]

Init ==
  /\ phase = "down"
  /\ pending = None
  /\ cfiles = [s \in Slaves |-> None]
  /\ calls = [s \in Slaves |-> <<>>]
  /\ hasKey = FALSE
  /\ savedPending = None
  /\ savedFiles = [s \in Slaves |-> None]
  /\ submitted = {}
  /\ deleted = {}
  /\ starts = 0
  /\ crashed = FALSE
  /\ lastHeld = [s \in Slaves |-> None]
  /\ aborts = {}

-----------------------------------------------------------------------------
(* SlaveController helpers.                                                *)

\* Deviations: the change is not saved; a file in state ERROR is erased.
SetFile_Unsaved(s, id, file) ==
  /\ cfiles' = [cfiles EXCEPT ![s][id] = file]
  /\ UNCHANGED savedFiles
SetFile_ErasesErrors(s, id, file) ==
  /\ cfiles' = [cfiles EXCEPT ![s][id] = IF file.st = "ERROR" THEN NoFile ELSE file]
  /\ savedFiles' = [savedFiles EXCEPT ![s] = cfiles'[s]]

\* Every change of files_ is followed by Save(), which writes all of them.
SetFile(s, id, file) ==
  /\ cfiles' = [cfiles EXCEPT ![s][id] = file]
  /\ savedFiles' = [savedFiles EXCEPT ![s] = cfiles'[s]]

Processing(s) == {id \in Ids : cfiles[s][id].st = "PROCESSING"}

\* The process is gone: what is not on disk is lost.
LoseMemory ==
  /\ phase' = "down"
  /\ pending' = None
  /\ cfiles' = [s \in Slaves |-> None]
  /\ calls' = [s \in Slaves |-> <<>>]
  /\ lastHeld' = IF phase = "up" THEN cfiles ELSE lastHeld

\* A CHECK or LOG_FATAL fails in the handler of an up master.
Abort(why) ==
  /\ LoseMemory
  /\ crashed' = TRUE
  /\ aborts' = aborts \cup {why}
  /\ UNCHANGED <<disk, submitted, deleted, starts>>

-----------------------------------------------------------------------------
(* RPCMasterControlService.                                                *)

\* AddFile: map::insert keeps an entry that is already there; nothing is saved.
UserAddFile(id) ==
  /\ phase = "up"
  /\ ReuseIds \/ id \notin submitted
  /\ pending' = IF Holds(pending, id) THEN pending
                ELSE [pending EXCEPT ![id] = Pending]
  /\ submitted' = submitted \cup {id}
  /\ deleted' = deleted \ {id}
  /\ UNCHANGED <<phase, cfiles, calls, disk, starts, crashed, lastHeld, aborts>>

\* DelFile: only pending_files_ is searched; elsewhere the id is an error
\* that is logged.  Nothing is saved.
UserDelFile(id) ==
  /\ phase = "up"
  /\ pending' = [pending EXCEPT ![id] = NoFile]
  /\ deleted' = deleted \cup {id}
  /\ UNCHANGED <<phase, cfiles, calls, disk, submitted, starts, crashed,
                 lastHeld, aborts>>

-----------------------------------------------------------------------------
(* SlaveController.                                                        *)

\* Deviation: the grabbed file also stays where it was.
GrabMediaFile_Copies(id) == UNCHANGED pending
GrabMediaFile(id) == pending' = [pending EXCEPT ![id] = NoFile]

\* The 3 s alarm: take a pending file unless the slave has enough of them in
\* state PROCESSING.  AddFile returns NULL for an id files_ already has, and
\* the CHECK_NOT_NULL on it aborts.  (Ids are arbitrary strings, so the first
\* of the map is any of them.)
MaybeGrabMediaFile(s) ==
  /\ phase = "up"
  /\ Cardinality(Processing(s)) < MaxProcessing
  /\ \E id \in Ids :
       /\ Holds(pending, id)
       /\ \/ /\ Holds(cfiles[s], id)
             /\ Abort("duplicate id grabbed")
          \/ /\ ~Holds(cfiles[s], id)
             /\ GrabMediaFile(id)
             /\ SetFile(s, id, pending[id])
             /\ UNCHANGED <<phase, calls, hasKey, savedPending, history>>

\* The alarm of a file.  Only PENDING and SLAVE_READY do anything: the first
\* offers the file to the slave, again and again; the second is a LOG_FATAL.
ProcessPending(s, id) ==
  /\ phase = "up"
  /\ cfiles[s][id].st = "PENDING"
  /\ Len(calls[s]) < MaxCalls
  /\ calls' = [calls EXCEPT ![s] = Append(@, [id |-> id, res |-> "sent"])]
  /\ UNCHANGED <<phase, pending, cfiles, disk, history>>

ProcessSlaveReady(s, id) ==
  /\ phase = "up"
  /\ cfiles[s][id].st = "SLAVE_READY"
  /\ Abort("file distribution not implemented")

\* Deviations: a state of its own for failed files; the failure is final.
Failure_OwnState(file) == [file EXCEPT !.st = "FAILED"]
Failure_Final(file) == [file EXCEPT !.st = "ERROR", !.err = TRUE]

\* NotifyMediaFileError sets the error text and keeps the state.
Failure(file) == [file EXCEPT !.err = TRUE]

\* The result of the oldest AddFile: a failure or an error text from the slave
\* sets the file's error and leaves its state.
HandleAddFileResult(s) ==
  /\ phase = "up"
  /\ calls[s] # <<>>
  /\ Head(calls[s]).res # "sent"
  /\ LET c == Head(calls[s]) IN
       IF c.res # "ok" /\ Holds(cfiles[s], c.id)
         THEN SetFile(s, c.id, Failure(cfiles[s][c.id]))
         ELSE UNCHANGED <<cfiles, savedFiles>>
  /\ calls' = [calls EXCEPT ![s] = Tail(@)]
  /\ UNCHANGED <<phase, pending, hasKey, savedPending, history>>

\* RPC NotifyStateChange from slave s: files of other slaves, files not yet
\* grabbed and ids nobody knows are ignored.
NotifyStateChange(s, id, file) ==
  /\ phase = "up"
  /\ IF id \in Ids /\ Holds(cfiles[s], id) /\ cfiles[s][id] # file
       THEN SetFile(s, id, file)
       ELSE UNCHANGED <<cfiles, savedFiles>>
  /\ UNCHANGED <<phase, pending, calls, hasKey, savedPending, history>>

-----------------------------------------------------------------------------
(* Start, stop, crash.                                                     *)

\* Load(): without the pending key it returns before any SlaveController is
\* loaded.  Otherwise every controller re-adds, and so re-saves, its files.
Start ==
  /\ phase = "down"
  /\ starts < MaxStarts
  /\ phase' = "up"
  /\ starts' = starts + 1
  /\ IF hasKey
       THEN pending' = savedPending /\ cfiles' = savedFiles
       ELSE UNCHANGED <<pending, cfiles>>
  /\ UNCHANGED <<calls, disk, submitted, deleted, crashed, lastHeld, aborts>>

\* Load() of slave s dies half way: AddFile has already saved the part it had
\* loaded over the whole.
CrashInLoad(s) ==
  /\ phase = "down"
  /\ starts < MaxStarts
  /\ hasKey
  /\ \E loaded \in SUBSET {id \in Ids : Holds(savedFiles[s], id)} :
       /\ loaded # {}
       /\ savedFiles' = [savedFiles EXCEPT ![s] =
            [id \in Ids |-> IF id \in loaded THEN @[id] ELSE NoFile]]
  /\ crashed' = TRUE
  /\ UNCHANGED <<phase, pending, cfiles, calls, hasKey, savedPending, submitted,
                 deleted, starts, lastHeld, aborts>>

\* Stop() from the application: every SlaveController saves and clears its
\* files, then the pending files are saved (and kept).
Stop ==
  /\ phase = "up"
  /\ phase' = "stopped"
  /\ lastHeld' = cfiles
  /\ savedFiles' = cfiles
  /\ cfiles' = [s \in Slaves |-> None]
  /\ calls' = [s \in Slaves |-> <<>>]
  /\ hasKey' = TRUE /\ savedPending' = pending
  /\ UNCHANGED <<pending, submitted, deleted, starts, crashed, aborts>>

\* ~RPCMasterManagerService calls Stop() once more, on the emptied files_.
Destroy ==
  /\ phase = "stopped"
  /\ LoseMemory
  /\ savedFiles' = cfiles
  /\ hasKey' = TRUE /\ savedPending' = pending
  /\ UNCHANGED <<submitted, deleted, starts, crashed, aborts>>

Crash ==
  /\ phase \in {"up", "stopped"}
  /\ LoseMemory
  /\ crashed' = TRUE
  /\ UNCHANGED <<disk, submitted, deleted, starts, aborts>>

-----------------------------------------------------------------------------
(* The environment: a slave, or the network, answers the oldest AddFile    *)
(* RPC that has no answer.                                                 *)

Unanswered(s) == {k \in DOMAIN calls[s] : calls[s][k].res = "sent"}
FirstUnanswered(s) == CHOOSE k \in Unanswered(s) : \A j \in Unanswered(s) : k <= j

AnswerAddFile(s, res) ==
  /\ Unanswered(s) # {}
  /\ calls' = [calls EXCEPT ![s][FirstUnanswered(s)].res = res]
  /\ UNCHANGED <<phase, pending, cfiles, disk, history>>

UserStep == \E id \in Ids : UserAddFile(id) \/ UserDelFile(id)

SlaveControllerStep ==
  \E s \in Slaves :
    \/ MaybeGrabMediaFile(s)
    \/ HandleAddFileResult(s)
    \/ \E id \in Ids : ProcessPending(s, id) \/ ProcessSlaveReady(s, id)

ProcessStep == Start \/ Stop \/ Destroy \/ Crash \/ \E s \in Slaves : CrashInLoad(s)

AnySlaveStep ==
  \E s \in Slaves :
    \/ \E res \in Result \ {"sent"} : AnswerAddFile(s, res)
    \/ \E id \in Ids, file \in SlaveReports : NotifyStateChange(s, id, file)

Next == UserStep \/ SlaveControllerStep \/ ProcessStep \/ AnySlaveStep

Spec == Init /\ [][Next]_mvars

-----------------------------------------------------------------------------
FileMap == [Ids -> MaybeFile]

TypeOK ==
  /\ phase \in {"down", "up", "stopped"}
  /\ pending \in FileMap
  /\ cfiles \in [Slaves -> FileMap]
  /\ calls \in [Slaves -> Seq(Call)]
  /\ hasKey \in BOOLEAN
  /\ savedPending \in FileMap
  /\ savedFiles \in [Slaves -> FileMap]
  /\ submitted \subseteq Ids
  /\ deleted \subseteq Ids
  /\ starts \in Nat
  /\ crashed \in BOOLEAN
  /\ lastHeld \in [Slaves -> FileMap]
  /\ aborts \subseteq {"duplicate id grabbed", "file distribution not implemented"}

\* What a controller knows of a file: what it holds or, if it holds nothing, has
\* on disk.
Known(s, id) == IF Holds(cfiles[s], id) THEN cfiles[s][id] ELSE savedFiles[s][id]

\* The known ways in which a file of a controller is lost: the Stop() of the
\* destructor saves the emptied list; Load() dies when it has saved a part of the
\* list; a master that has not loaded the lists, because there was no pending
\* key, saves a new one.
KnownLoss(s, id) ==
  \/ Destroy
  \/ CrashInLoad(s)
  \/ ~hasKey /\ ~Holds(cfiles[s], id)

KeepsFile(s, id) ==
  Known(s, id) # NoFile =>
    /\ savedFiles'[s][id] = Known(s, id)'
    /\ \/ Known(s, id)' = Known(s, id)
       \/ Known(s, id)' # NoFile /\ phase = "up" /\ phase' = "up"
       \/ Known(s, id)' = NoFile /\ KnownLoss(s, id)

\* Each handler saves what it changes: what a slave controller knows of a file is
\* on disk after each step, in the state that the last handler of an up master
\* gave it, whatever comes between the handlers.  A crash, a Start() and the
\* Stop() of an up master change nothing of it, over any number of lives; and a
\* file is never lost but in the known ways, of which Load() and the second
\* Stop() are faults of the code (CrashInLoad, Destroy).
FilesAreKept == [][\A s \in Slaves, id \in Ids : KeepsFile(s, id)]_mvars

\* Until a crash, an id that users submit once is in one place at most: with
\* the manager, or with one slave controller.  (After a crash the pending list
\* on disk may be older than the controllers' lists.)
OnePlace ==
  (~ReuseIds /\ ~crashed) =>
    \A id \in Ids :
      /\ \A s \in Slaves : ~(Holds(pending, id) /\ Holds(cfiles[s], id))
      /\ \A s, t \in Slaves :
           s # t => ~(Holds(cfiles[s], id) /\ Holds(cfiles[t], id))

\* In the first life of the master no submitted file gets lost: until a user
\* deletes it, it is pending or with a slave controller.
NothingForgotten ==
  (phase = "up" /\ starts = 1) =>
    \A id \in submitted \ deleted :
      Holds(pending, id) \/ \E s \in Slaves : Holds(cfiles[s], id)

\* "CHECK_NOT_NULL(cfile)" (slave_controller.cc:367): with unique ids the file
\* a controller grabs is never one it already has.
GrabNeverDuplicates == "duplicate id grabbed" \notin aborts

\* "Completely remove file. [...] Applicable to all file states."
\* (manager.rpc:113,118): an id users deleted is nowhere in the manager.
DeletedIsGone ==
  phase = "up" =>
    \A id \in deleted : ~Holds(pending, id) /\
                        \A s \in Slaves : ~Holds(cfiles[s], id)

\* "how many files can we start processing in parallel on the slave"
\* (slave_controller.h:137): a controller has no more PROCESSING files.
AtMostMaxProcessing ==
  \A s \in Slaves : Cardinality(Processing(s)) <= MaxProcessing

\* "the master copies results between output dirs" (manager.rpc:18): a master
\* goes on with a file that is ready on its slave.
ReadyIsDistributed == "file distribution not implemented" \notin aborts

\* "save/load current configuration using the state_keeper_"
\* (rpc_master_manager_service.h:123): after a Stop() and a Start(), the slave
\* controllers hold what they held.
StopKeepsFiles ==
  [][(Start /\ ~crashed) => cfiles' = lastHeld]_mvars
=============================================================================
