-------------------------- MODULE Transcoder_proofs --------------------------
(* Proofs about Transcoder: what holds of the master and of the slaves by     *)
(* themselves holds of them together, no file is transcoded twice, and the    *)
(* whole does what Job promises.                                              *)
EXTENDS Transcoder, TLAPS

MP == INSTANCE MasterManager_proofs
SP == INSTANCE SlaveManager_proofs

\* The constants are what both parts assume.
LEMMA Assumptions == MP!MasterAssumption!: /\ SP!SlaveAssumption!:
BY TranscoderAssumption, Zenon
DEF MP!MasterAssumption, SP!SlaveAssumption, SP!IsFiniteSet, IsFiniteSet

-----------------------------------------------------------------------------
(* S and SP are the slaves, without and with the theorems about them: every *)
(* definition of the one is that of the other, which expanding them shows.  *)

USE DEF
  S!RpcDelFile, SP!RpcDelFile, S!Has, SP!Has, S!Absent, SP!Absent, S!NoFile,
  SP!NoFile, S!ABSENT, SP!ABSENT, S!RpcKey, SP!RpcKey, S!NoWrapper,
  SP!NoWrapper, S!WithFile, SP!WithFile, S!Pending, SP!Pending,
  S!WithWrapper, SP!WithWrapper, S!Unused, SP!Unused, S!MoreFiles,
  SP!MoreFiles, S!In, SP!In, S!State, SP!State, S!HasRoom, SP!HasRoom,
  S!MayNotify, SP!MayNotify, S!ChangeAndReturn, SP!ChangeAndReturn, S!Freed,
  SP!Freed, S!WrapperOf, SP!WrapperOf, S!Return, SP!Return, S!Saved,
  SP!Saved, S!Fault, SP!Fault, S!Gone, SP!Gone, S!Empty, SP!Empty, S!Keys,
  SP!Keys, S!StartProcessing, SP!StartProcessing, S!ChangeFileStates,
  SP!ChangeFileStates, S!Pin, SP!Pin, S!Processing, SP!Processing, S!Error,
  SP!Error, S!Ready, SP!Ready, S!ProcessingCompleted,
  SP!ProcessingCompleted, S!Reaped, SP!Reaped,
  S!HandleNotifyStateChangeResult, SP!HandleNotifyStateChangeResult,
  S!LoadKey, SP!LoadKey, S!Unpin, SP!Unpin, S!Start, SP!Start, S!UrisOf,
  SP!UrisOf, S!Known, SP!Known, S!Resumed, SP!Resumed, S!Loaded, SP!Loaded,
  S!Stop, SP!Stop, S!Crash, SP!Crash, S!AnswerNote, SP!AnswerNote,
  S!Unanswered, SP!Unanswered, S!CanReach, SP!CanReach, S!Reachable,
  SP!Reachable, S!NextNote, SP!NextNote, S!FirstUnanswered,
  SP!FirstUnanswered, S!Cardinality, SP!Cardinality

\* AddFile finds or makes the same wrappers.
LEMMA SameAfterAddFile ==
  ASSUME NEW m, NEW n, NEW u, NEW x, x \in S!AfterAddFile(m, n, u)
  PROVE  x \in SP!AfterAddFile(m, n, u)
<1> DEFINE key == S!RpcKey(u)
<1>0. /\ key = SP!RpcKey(u) /\ S!Unused = SP!Unused /\ S!NoWrapper = SP!NoWrapper
      /\ \A w : S!WithFile(m, n, w) = SP!WithFile(m, n, w)
      /\ \A k, w, pins : S!WithFile(S!WithWrapper(m, k, w, pins), n, w)
                           = SP!WithFile(SP!WithWrapper(m, k, w, pins), n, w)
  BY Zenon
<1> HIDE DEF key, S!Unused, SP!Unused, S!NoWrapper, SP!NoWrapper, S!RpcKey, SP!RpcKey,
             S!WithFile, SP!WithFile, S!WithWrapper, SP!WithWrapper
<1>1. CASE m.masters[key] # S!NoWrapper
  <2>1. x = S!WithFile(m, n, m.masters[key]) BY <1>1 DEF S!AfterAddFile, key
  <2>2. SP!AfterAddFile(m, n, u) = {SP!WithFile(m, n, m.masters[key])}
    BY <1>0, <1>1 DEF SP!AfterAddFile
  <2> QED BY <1>0, <2>1, <2>2
<1>2. CASE m.masters[key] = S!NoWrapper
  <2>1. PICK w \in {w \in Wrappers : m.heap[w] = S!Unused}, pins \in PinGarbage :
          x = S!WithFile(S!WithWrapper(m, key, w, pins), n, w)
    BY <1>2 DEF S!AfterAddFile, key
  <2>2. x = SP!WithFile(SP!WithWrapper(m, key, w, pins), n, w) BY <1>0, <2>1
  <2>3. SP!AfterAddFile(m, n, u) =
          {SP!WithFile(SP!WithWrapper(m, key, v, p), n, v) :
             v \in {v \in Wrappers : m.heap[v] = SP!Unused}, p \in PinGarbage}
    BY <1>0, <1>2 DEF SP!AfterAddFile
  <2>4. w \in Wrappers /\ m.heap[w] = SP!Unused BY <1>0, <2>1
  <2> QED BY <2>2, <2>3, <2>4
<1> QED BY <1>1, <1>2

\* AddFile is the same RPC.
LEMMA SameRpc ==
  ASSUME NEW s, NEW n, NEW u, S!RpcAddFile(s, n, u)
  PROVE  SP!RpcAddFile(s, n, u)
<1>1. sup[s] /\ ~SP!Has(mem[s], n) BY Zenon DEF S!RpcAddFile
<1>2. PICK m \in S!AfterAddFile(mem[s], n, u) : \E more \in S!MoreFiles(m) :
        /\ S!MayNotify(s, more)
        /\ \E started \in SUBSET more :
             S!ChangeAndReturn(s, S!StartProcessing(m, more, started), more)
  BY Zenon DEF S!RpcAddFile
<1>3. m \in SP!AfterAddFile(mem[s], n, u) BY <1>2, SameAfterAddFile
<1>4. S!MoreFiles(m) = SP!MoreFiles(m) BY Zenon
<1>5. ASSUME NEW more, NEW started, NEW p
      PROVE  /\ S!MayNotify(s, more) => SP!MayNotify(s, more)
             /\ S!StartProcessing(m, more, started) = SP!StartProcessing(m, more, started)
             /\ S!ChangeAndReturn(s, p, more) => SP!ChangeAndReturn(s, p, more)
  <2>1. S!MayNotify(s, more) => SP!MayNotify(s, more) BY Zenon
  <2>2. S!StartProcessing(m, more, started) = SP!StartProcessing(m, more, started) BY Zenon
  <2>3. S!ChangeAndReturn(s, p, more) => SP!ChangeAndReturn(s, p, more) BY Zenon
  <2> QED BY <2>1, <2>2, <2>3
<1> HIDE DEF S!MoreFiles, SP!MoreFiles, S!MayNotify, SP!MayNotify, SP!Has,
             S!StartProcessing, SP!StartProcessing, S!ChangeAndReturn, SP!ChangeAndReturn
<1> QED BY <1>1, <1>2, <1>3, <1>4, <1>5, Zenon DEF SP!RpcAddFile

\* So are the other steps of a slave.
LEMMA SameSteps ==
  ASSUME NEW s, NEW n
  PROVE  /\ S!RpcDelFile(s, n) => SP!RpcDelFile(s, n)
         /\ S!CallbackStep(s) => SP!CallbackStep(s)
         /\ S!ProcessStep(s) => SP!ProcessStep(s)
         /\ \A res : S!AnswerNote(s, n, res) => SP!AnswerNote(s, n, res)
<1>1. S!RpcDelFile(s, n) => SP!RpcDelFile(s, n) BY Zenon
<1>2. S!CallbackStep(s) => SP!CallbackStep(s)
  <2>1. ASSUME NEW x, NEW report PROVE S!ProcessingCompleted(s, x, report) => SP!ProcessingCompleted(s, x, report)
    BY Zenon
  <2>2. ASSUME NEW x PROVE S!HandleNotifyStateChangeResult(s, x) => SP!HandleNotifyStateChangeResult(s, x)
    BY Zenon
  <2>3. S!Ready = SP!Ready /\ S!Error = SP!Error BY Zenon
  <2> HIDE DEF S!ProcessingCompleted, SP!ProcessingCompleted, S!Ready, SP!Ready, S!Error, SP!Error,
               S!HandleNotifyStateChangeResult, SP!HandleNotifyStateChangeResult
  <2> QED BY <2>1, <2>2, <2>3 DEF S!CallbackStep, SP!CallbackStep
<1>3. S!ProcessStep(s) => SP!ProcessStep(s)
  <2>1. S!Start(s) => SP!Start(s) BY Zenon
  <2>2. S!Stop(s) => SP!Stop(s) BY Zenon
  <2>3. S!Crash(s) => SP!Crash(s) BY Zenon
  <2> HIDE DEF S!Start, SP!Start, S!Stop, SP!Stop, S!Crash, SP!Crash
  <2> QED BY <2>1, <2>2, <2>3 DEF S!ProcessStep, SP!ProcessStep
<1>4. ASSUME NEW res PROVE S!AnswerNote(s, n, res) => SP!AnswerNote(s, n, res) BY Zenon
<1> HIDE DEF S!RpcDelFile, SP!RpcDelFile, S!AnswerNote, SP!AnswerNote
<1> QED BY <1>1, <1>2, <1>3, <1>4

\* What is notified next, and what a file is in a memory, is the same.
LEMMA SameNotes ==
  ASSUME NEW s, NEW n
  PROVE  S!Unanswered(s, n) = SP!Unanswered(s, n) /\ S!NextNote(s, n) = SP!NextNote(s, n)
<1>1. S!Unanswered(s, n) = SP!Unanswered(s, n) BY Zenon
<1>2. S!NextNote(s, n) = SP!NextNote(s, n) BY Zenon
<1> QED BY <1>1, <1>2, Zenon

\* The slaves start the same.
LEMMA SameSlaveInit == S!Init => SP!Init
BY Zenon DEF S!Init, SP!Init

HIDE DEF
  S!RpcDelFile, SP!RpcDelFile, S!Has, SP!Has, S!Absent, SP!Absent, S!NoFile,
  SP!NoFile, S!ABSENT, SP!ABSENT, S!RpcKey, SP!RpcKey, S!NoWrapper,
  SP!NoWrapper, S!WithFile, SP!WithFile, S!Pending, SP!Pending,
  S!WithWrapper, SP!WithWrapper, S!Unused, SP!Unused, S!MoreFiles,
  SP!MoreFiles, S!In, SP!In, S!State, SP!State, S!HasRoom, SP!HasRoom,
  S!MayNotify, SP!MayNotify, S!ChangeAndReturn, SP!ChangeAndReturn, S!Freed,
  SP!Freed, S!WrapperOf, SP!WrapperOf, S!Return, SP!Return, S!Saved,
  SP!Saved, S!Fault, SP!Fault, S!Gone, SP!Gone, S!Empty, SP!Empty, S!Keys,
  SP!Keys, S!StartProcessing, SP!StartProcessing, S!ChangeFileStates,
  SP!ChangeFileStates, S!Pin, SP!Pin, S!Processing, SP!Processing, S!Error,
  SP!Error, S!Ready, SP!Ready, S!ProcessingCompleted,
  SP!ProcessingCompleted, S!Reaped, SP!Reaped,
  S!HandleNotifyStateChangeResult, SP!HandleNotifyStateChangeResult,
  S!LoadKey, SP!LoadKey, S!Unpin, SP!Unpin, S!Start, SP!Start, S!UrisOf,
  SP!UrisOf, S!Known, SP!Known, S!Resumed, SP!Resumed, S!Loaded, SP!Loaded,
  S!Stop, SP!Stop, S!Crash, SP!Crash, S!AnswerNote, SP!AnswerNote,
  S!Unanswered, SP!Unanswered, S!CanReach, SP!CanReach, S!Reachable,
  SP!Reachable, S!NextNote, SP!NextNote, S!FirstUnanswered,
  SP!FirstUnanswered, S!Cardinality, SP!Cardinality

-----------------------------------------------------------------------------
(* So it is with the master, M and MP.                                     *)

USE DEF
  M!UserStep, MP!UserStep, M!UserAddFile, MP!UserAddFile, M!Holds, MP!Holds,
  M!NoFile, MP!NoFile, M!ABSENT, MP!ABSENT, M!Pending, MP!Pending, M!disk,
  MP!disk, M!UserDelFile, MP!UserDelFile, M!SlaveControllerStep,
  MP!SlaveControllerStep, M!MaybeGrabMediaFile, MP!MaybeGrabMediaFile,
  M!Processing, MP!Processing, M!Abort, MP!Abort, M!LoseMemory,
  MP!LoseMemory, M!None, MP!None, M!GrabMediaFile, MP!GrabMediaFile,
  M!SetFile, MP!SetFile, M!history, MP!history, M!HandleAddFileResult,
  MP!HandleAddFileResult, M!Failure, MP!Failure, M!ProcessPending,
  MP!ProcessPending, M!ProcessSlaveReady, MP!ProcessSlaveReady,
  M!ProcessStep, MP!ProcessStep, M!Start, MP!Start, M!Stop, MP!Stop,
  M!Destroy, MP!Destroy, M!Crash, MP!Crash, M!CrashInLoad, MP!CrashInLoad,
  M!AnySlaveStep, MP!AnySlaveStep, M!Result, MP!Result, M!AnswerAddFile,
  MP!AnswerAddFile, M!Unanswered, MP!Unanswered, M!FirstUnanswered,
  MP!FirstUnanswered, M!SlaveReports, MP!SlaveReports, M!NotifyStateChange,
  MP!NotifyStateChange

\* The master starts the same.
LEMMA SameMasterInit == M!Init => MP!Init
BY Zenon DEF M!Init, MP!Init

\* Its steps that concern no slave are the same.
LEMMA SameMasterSteps ==
  /\ M!UserStep => MP!UserStep
  /\ M!SlaveControllerStep => MP!SlaveControllerStep
  /\ M!ProcessStep => MP!ProcessStep
  /\ M!AnySlaveStep => MP!AnySlaveStep
<1>1. M!UserStep => MP!UserStep BY Zenon
<1>2. M!SlaveControllerStep => MP!SlaveControllerStep
  <2>1. ASSUME NEW s PROVE M!MaybeGrabMediaFile(s) => MP!MaybeGrabMediaFile(s)
    BY Zenon DEF M!Cardinality, MP!Cardinality
  <2>2. ASSUME NEW s PROVE M!HandleAddFileResult(s) => MP!HandleAddFileResult(s) BY Zenon
  <2>3. ASSUME NEW s, NEW id PROVE M!ProcessPending(s, id) => MP!ProcessPending(s, id) BY Zenon
  <2>4. ASSUME NEW s, NEW id PROVE M!ProcessSlaveReady(s, id) => MP!ProcessSlaveReady(s, id) BY Zenon
  <2> HIDE DEF M!MaybeGrabMediaFile, MP!MaybeGrabMediaFile, M!HandleAddFileResult,
               MP!HandleAddFileResult, M!ProcessPending, MP!ProcessPending,
               M!ProcessSlaveReady, MP!ProcessSlaveReady
  <2> QED BY <2>1, <2>2, <2>3, <2>4
<1>3. M!ProcessStep => MP!ProcessStep BY Zenon
<1>4. M!AnySlaveStep => MP!AnySlaveStep BY Zenon
<1> QED BY <1>1, <1>2, <1>3, <1>4, Zenon

\* And those that answer a slave, or are answered by one.
LEMMA SameMasterCalls ==
  ASSUME NEW s, NEW id
  PROVE  /\ \A res : M!AnswerAddFile(s, res) => MP!AnswerAddFile(s, res)
         /\ \A file : M!NotifyStateChange(s, id, file) => MP!NotifyStateChange(s, id, file)
BY Zenon

HIDE DEF
  M!UserStep, MP!UserStep, M!UserAddFile, MP!UserAddFile, M!Holds, MP!Holds,
  M!NoFile, MP!NoFile, M!ABSENT, MP!ABSENT, M!Pending, MP!Pending, M!disk,
  MP!disk, M!UserDelFile, MP!UserDelFile, M!SlaveControllerStep,
  MP!SlaveControllerStep, M!MaybeGrabMediaFile, MP!MaybeGrabMediaFile,
  M!Processing, MP!Processing, M!Abort, MP!Abort, M!LoseMemory,
  MP!LoseMemory, M!None, MP!None, M!GrabMediaFile, MP!GrabMediaFile,
  M!SetFile, MP!SetFile, M!history, MP!history, M!HandleAddFileResult,
  MP!HandleAddFileResult, M!Failure, MP!Failure, M!ProcessPending,
  MP!ProcessPending, M!ProcessSlaveReady, MP!ProcessSlaveReady,
  M!ProcessStep, MP!ProcessStep, M!Start, MP!Start, M!Stop, MP!Stop,
  M!Destroy, MP!Destroy, M!Crash, MP!Crash, M!CrashInLoad, MP!CrashInLoad,
  M!AnySlaveStep, MP!AnySlaveStep, M!Result, MP!Result, M!AnswerAddFile,
  MP!AnswerAddFile, M!Unanswered, MP!Unanswered, M!FirstUnanswered,
  MP!FirstUnanswered, M!SlaveReports, MP!SlaveReports, M!NotifyStateChange,
  MP!NotifyStateChange

-----------------------------------------------------------------------------
(* The steps of the whole are steps of the parts.                          *)

\* The oldest AddFile without an answer is of an id users gave.
LEMMA NextCallFacts ==
  ASSUME MP!TypeOK, NEW s \in Slaves, M!Unanswered(s) # {}
  PROVE  NextCall(s).id \in Ids /\ MP!Called(s, NextCall(s).id)
<1> DEFINE k == M!FirstUnanswered(s)
<1>1. calls[s] \in Seq(MP!Call) BY DEF MP!TypeOK
<1>2. M!Unanswered(s) \in SUBSET Nat /\ M!Unanswered(s) \subseteq DOMAIN calls[s]
  BY <1>1 DEF M!Unanswered
<1>3. \E i \in M!Unanswered(s) : \A j \in M!Unanswered(s) : i <= j
  BY <1>2, SP!Smallest, Assumptions
<1>4. k \in DOMAIN calls[s] BY <1>2, <1>3 DEF M!FirstUnanswered
<1>5. calls[s][k] \in MP!Call BY <1>1, <1>4
<1> QED BY <1>4, <1>5 DEF NextCall, MP!Call, MP!Called

\* What the slaves report is what the master understands.
LEMMA SameReports ==
  ASSUME SP!WorkInv, NEW s \in Slaves, NEW n \in Names, S!Unanswered(s, n) # {}
  PROVE  S!NextNote(s, n).file \in M!SlaveReports
<1>1. SP!Unanswered(s, n) # {} /\ S!NextNote(s, n) = SP!NextNote(s, n) BY SameNotes
<1>2. SP!NextNote(s, n).file \in SP!SlaveReports BY <1>1, SP!NextReport, Assumptions
<1>3. SP!SlaveReports = M!SlaveReports BY DEF SP!SlaveReports, M!SlaveReports
<1> QED BY <1>1, <1>2, <1>3

\* A step of the whole is a step of the master, of the slaves, or of both.
LEMMA StepOfParts ==
  ASSUME MP!TypeOK, SP!WorkInv, [Next]_vars
  PROVE  [M!Next]_(M!mvars) /\ [S!Next]_(S!svars)
<1>m. ASSUME UNCHANGED masterVars PROVE UNCHANGED M!mvars
  BY <1>m DEF masterVars, M!mvars, M!disk, M!history
<1>s. ASSUME UNCHANGED slaveVars PROVE UNCHANGED S!svars
  BY <1>s DEF slaveVars, S!svars
<1>a. ASSUME NEW s \in Slaves, NEW res \in {"ok", "error", "failed"}, M!AnswerAddFile(s, res)
      PROVE  M!Next
  BY <1>a DEF M!Next, M!AnySlaveStep, M!Result
<1>1. CASE MasterStep
  <2>1. M!Next /\ UNCHANGED slaveVars BY <1>1 DEF MasterStep, M!Next
  <2> QED BY <2>1, <1>s
<1>2. ASSUME NEW s \in Slaves, SlaveStep(s)
      PROVE  [M!Next]_(M!mvars) /\ [S!Next]_(S!svars)
  <2>1. S!Next /\ UNCHANGED masterVars BY <1>2 DEF SlaveStep, S!Next, S!RpcStep
  <2> QED BY <2>1, <1>m
<1>3. ASSUME NEW s \in Slaves, AddFileExecuted(s)
      PROVE  [M!Next]_(M!mvars) /\ [S!Next]_(S!svars)
  <2> DEFINE n == SlaveId(NextCall(s).id)
  <2>1. M!Unanswered(s) # {} BY <1>3 DEF AddFileExecuted
  <2>2. n \in Names BY <2>1, NextCallFacts, TranscoderAssumption DEF SlaveId
  <2>3. /\ S!RpcAddFile(s, n, MasterUri) \/ UNCHANGED slaveVars
        /\ \E res \in {"ok", "error", "failed"} : M!AnswerAddFile(s, res)
    BY <1>3 DEF AddFileExecuted
  <2> HIDE DEF n
  <2>4. M!Next BY <2>3, <1>a
  <2>5. S!RpcAddFile(s, n, MasterUri) => S!Next
    BY <2>2, TranscoderAssumption DEF S!Next, S!RpcStep
  <2> QED BY <2>3, <2>4, <2>5, <1>s
<1>4. ASSUME NEW s \in Slaves, AddFileLost(s)
      PROVE  [M!Next]_(M!mvars) /\ [S!Next]_(S!svars)
  BY <1>4, <1>a, <1>s DEF AddFileLost
<1>5. ASSUME NEW s \in Slaves, NEW n \in Names, NotificationExecuted(s, n)
      PROVE  [M!Next]_(M!mvars) /\ [S!Next]_(S!svars)
  <2> DEFINE file == S!NextNote(s, n).file
  <2>1. /\ S!Unanswered(s, n) # {} /\ M!NotifyStateChange(s, n, file)
        /\ \E res \in {"ok", "failed"} : S!AnswerNote(s, n, res)
    BY <1>5 DEF NotificationExecuted
  <2>2. file \in M!SlaveReports BY <2>1, SameReports
  <2> HIDE DEF file
  <2>3. S!Next BY <2>1 DEF S!Next, S!AnyMasterStep
  <2>4. CASE n \in Ids
    BY <2>1, <2>2, <2>3, <2>4 DEF M!Next, M!AnySlaveStep
  <2>5. CASE n \notin Ids
    <3>1. UNCHANGED M!mvars
      BY <2>1, <2>5 DEF M!NotifyStateChange, M!mvars, M!disk, M!history
    <3> QED BY <2>3, <3>1
  <2> QED BY <2>4, <2>5
<1>6. ASSUME NEW s \in Slaves, NEW n \in Names, NotificationLost(s, n)
      PROVE  [M!Next]_(M!mvars) /\ [S!Next]_(S!svars)
  <2>1. S!Next BY <1>6 DEF NotificationLost, S!Next, S!AnyMasterStep
  <2> QED BY <1>6, <2>1, <1>m DEF NotificationLost
<1>7. CASE UNCHANGED vars BY <1>7, <1>m, <1>s DEF vars
<1> QED BY <1>1, <1>2, <1>3, <1>4, <1>5, <1>6, <1>7 DEF Next, NetworkStep

\* The steps of the parts are those their theorems are about.
LEMMA SameNext ==
  /\ [M!Next]_(M!mvars) => [MP!Next]_(MP!mvars)
  /\ [S!Next]_(S!svars) => [SP!Next]_(SP!svars)
<1>1. M!Next => MP!Next BY SameMasterSteps DEF M!Next, MP!Next
<1>2. UNCHANGED M!mvars => UNCHANGED MP!mvars
  BY DEF M!mvars, MP!mvars, M!disk, MP!disk, M!history, MP!history
<1>3. S!Next => SP!Next
  <2>1. ASSUME NEW s \in Slaves, S!RpcStep(s) PROVE SP!RpcStep(s)
    BY <2>1, SameRpc, SameSteps DEF S!RpcStep, SP!RpcStep
  <2>2. ASSUME NEW s \in Slaves, S!AnyMasterStep(s) PROVE SP!AnyMasterStep(s)
    BY <2>2, SameSteps DEF S!AnyMasterStep, SP!AnyMasterStep
  <2>3. ASSUME NEW s \in Slaves, S!CallbackStep(s) \/ S!ProcessStep(s)
        PROVE  SP!CallbackStep(s) \/ SP!ProcessStep(s)
    BY <2>3, SameSteps
  <2> QED BY <2>1, <2>2, <2>3 DEF S!Next, SP!Next
<1>4. UNCHANGED S!svars => UNCHANGED SP!svars BY DEF S!svars, SP!svars
<1> QED BY <1>1, <1>2, <1>3, <1>4

\* What the proofs of the parts need of every state, and those below as well.
PartsInv == MP!DurableInv /\ MP!WaitInv /\ MP!PlacesInv /\ SP!WorkInv

\* The invariants of the parts hold initially in the composition.
LEMMA PartsInit == Init => PartsInv
<1> SUFFICES ASSUME Init PROVE PartsInv OBVIOUS
<1>1. MP!Init /\ SP!Init BY SameMasterInit, SameSlaveInit DEF Init
<1>2. SP!WorkInv BY <1>1, SP!WorkInit, Assumptions
<1>3. MP!WaitInv BY <1>1, MP!WaitInit, Assumptions
<1>4. MP!DurableInv BY <1>1, MP!DurableInit, Assumptions
<1>5. MP!PlacesInv BY <1>1, MP!PlacesInit, Assumptions
<1> QED BY <1>2, <1>3, <1>4, <1>5 DEF PartsInv

\* And every step of the composition keeps them.
LEMMA PartsStep == PartsInv /\ [Next]_vars => PartsInv'
<1> SUFFICES ASSUME PartsInv, [Next]_vars PROVE PartsInv' OBVIOUS
<1>1. MP!TypeOK BY DEF PartsInv, MP!WaitInv
<1>2. [MP!Next]_(MP!mvars) /\ [SP!Next]_(SP!svars)
  BY <1>1, StepOfParts, SameNext DEF PartsInv
<1>3. SP!WorkInv' BY <1>2, SP!WorkStep, Assumptions DEF PartsInv
<1>4. MP!WaitInv' BY <1>2, MP!WaitStep, Assumptions DEF PartsInv
<1>5. MP!DurableInv' BY <1>2, MP!DurableStep, Assumptions DEF PartsInv
<1>6. MP!PlacesInv' BY <1>2, MP!PlacesStep, Assumptions DEF PartsInv
<1> QED BY <1>3, <1>4, <1>5, <1>6 DEF PartsInv

\* The master and its slaves together are a master and slaves as they are by
\* themselves: whatever holds of MasterManager and of SlaveManager, with masters
\* and slaves that do anything, holds of the two of them here.
THEOREM PartsHold == Spec => M!Spec /\ S!Spec
<1>1. PartsInv /\ [Next]_vars => [M!Next]_(M!mvars) /\ [S!Next]_(S!svars)
  BY StepOfParts DEF PartsInv, MP!WaitInv
<1>2. Init => M!Init /\ S!Init BY DEF Init
<1> QED BY <1>1, <1>2, PartsInit, PartsStep, PTL DEF Spec, M!Spec, S!Spec

-----------------------------------------------------------------------------
(* The steps of the whole, for the files of the slaves.                    *)

\* Nothing reaches the master or a slave but what is its own doing.
MasterAlone == MP!QuietStep /\ UNCHANGED slaveVars
SlaveAlone(s) == SP!GoesOn(s, {}) /\ UNCHANGED masterVars

\* A slave is given a file it was called for.
GivenFile(s, id) ==
  /\ MP!Called(s, id)
  /\ SP!GoesOn(s, {ScpPath[id]})
  /\ UNCHANGED <<phase, cfiles, savedFiles>>

\* The master is notified.
Notified(s, n) ==
  /\ SP!Unanswered(s, n) # {}
  /\ MP!NotifyStateChange(s, n, SP!NextNote(s, n).file)
  /\ \E res \in {"ok", "failed"} : SP!AnswerNote(s, n, res)
  /\ SP!GoesOn(s, {})

\* There is no other step.
LEMMA StepCases ==
  ASSUME PartsInv, Next
  PROVE  \/ MasterAlone
         \/ \E s \in Slaves : SlaveAlone(s)
         \/ \E s \in Slaves, id \in Ids : GivenFile(s, id)
         \/ \E s \in Slaves, n \in Names : Notified(s, n)
<1>0. SP!WorkInv /\ MP!TypeOK BY DEF PartsInv, MP!WaitInv
<1>a. ASSUME NEW s \in Slaves, NEW res \in {"ok", "error", "failed"}, M!AnswerAddFile(s, res)
      PROVE  MP!QuietStep /\ UNCHANGED <<phase, cfiles, savedFiles>>
  <2>1. MP!AnswerAddFile(s, res) BY <1>a, SameMasterCalls
  <2>2. MP!QuietStep BY <2>1 DEF MP!QuietStep, MP!Result
  <2> QED BY <2>1, <2>2 DEF MP!AnswerAddFile, MP!disk
<1>n. ASSUME NEW s \in Slaves, NEW n \in Names, NEW res \in {"ok", "failed"}, S!AnswerNote(s, n, res)
      PROVE  SP!AnswerNote(s, n, res) /\ SP!GoesOn(s, {})
  <2>1. SP!AnswerNote(s, n, res) BY <1>n, SameSteps
  <2> QED BY <1>0, <2>1, SP!AnswerGoesOn, Assumptions
<1>1. CASE MasterStep
  <2>1. MP!QuietStep BY <1>1, SameMasterSteps DEF MasterStep, MP!QuietStep
  <2> QED BY <1>1, <2>1 DEF MasterStep, MasterAlone
<1>2. ASSUME NEW s \in Slaves, SlaveStep(s) PROVE SlaveAlone(s)
  <2>1. SP!CallbackStep(s) \/ SP!ProcessStep(s) \/ \E n \in Names : SP!RpcDelFile(s, n)
    BY <1>2, SameSteps DEF SlaveStep
  <2>2. SP!GoesOn(s, {}) BY <1>0, <2>1, SP!IdleGoesOn, Assumptions
  <2> QED BY <1>2, <2>2 DEF SlaveStep, SlaveAlone
<1>3. ASSUME NEW s \in Slaves, AddFileExecuted(s)
      PROVE  MasterAlone \/ \E id \in Ids : GivenFile(s, id)
  <2> DEFINE id == NextCall(s).id
  <2>1. /\ M!Unanswered(s) # {}
        /\ S!RpcAddFile(s, ScpPath[id], MasterUri) \/ UNCHANGED slaveVars
        /\ \E res \in {"ok", "error", "failed"} : M!AnswerAddFile(s, res)
    BY <1>3 DEF AddFileExecuted, SlaveId
  <2>2. id \in Ids /\ MP!Called(s, id) BY <1>0, <2>1, NextCallFacts
  <2> HIDE DEF id
  <2>3. MP!QuietStep /\ UNCHANGED <<phase, cfiles, savedFiles>> BY <2>1, <1>a
  <2>4. CASE UNCHANGED slaveVars BY <2>3, <2>4 DEF MasterAlone
  <2>5. CASE S!RpcAddFile(s, ScpPath[id], MasterUri)
    <3>1. SP!RpcAddFile(s, ScpPath[id], MasterUri) BY <2>5, SameRpc
    <3>2. ScpPath[id] \in Names /\ MasterUri \in Uris BY <2>2, TranscoderAssumption
    <3>3. SP!GoesOn(s, {ScpPath[id]}) BY <1>0, <3>1, <3>2, SP!AddGoesOn, Assumptions
    <3> QED BY <2>2, <2>3, <3>3 DEF GivenFile
  <2> QED BY <2>1, <2>4, <2>5
<1>4. ASSUME NEW s \in Slaves, AddFileLost(s) PROVE MasterAlone
  BY <1>4, <1>a DEF AddFileLost, MasterAlone
<1>5. ASSUME NEW s \in Slaves, NEW n \in Names, NotificationExecuted(s, n) PROVE Notified(s, n)
  <2>1. PICK res \in {"ok", "failed"} : S!AnswerNote(s, n, res)
    BY <1>5 DEF NotificationExecuted
  <2>2. SP!AnswerNote(s, n, res) /\ SP!GoesOn(s, {}) BY <2>1, <1>n
  <2>3. S!Unanswered(s, n) # {} /\ M!NotifyStateChange(s, n, S!NextNote(s, n).file)
    BY <1>5 DEF NotificationExecuted
  <2>4. S!Unanswered(s, n) = SP!Unanswered(s, n) /\ S!NextNote(s, n) = SP!NextNote(s, n)
    BY SameNotes
  <2>5. MP!NotifyStateChange(s, n, SP!NextNote(s, n).file) BY <2>3, <2>4, SameMasterCalls
  <2> QED BY <2>2, <2>3, <2>4, <2>5 DEF Notified
<1>6. ASSUME NEW s \in Slaves, NEW n \in Names, NotificationLost(s, n) PROVE SlaveAlone(s)
  BY <1>6, <1>n DEF NotificationLost, SlaveAlone
<1> QED BY <1>1, <1>2, <1>3, <1>4, <1>5, <1>6 DEF Next, NetworkStep

-----------------------------------------------------------------------------
(* No file is transcoded twice.                                            *)

\* A slave has the file, in memory or on its disk, or is asked to take it.
Touched(s, id) ==
  SP!IsPresent(mem[s], ssaved[s], ScpPath[id]) \/ MP!Called(s, id)

\* Files are with the slave of the only controller that can have them.
TouchInv ==
  (~ReuseIds /\ ~crashed) =>
    \A id \in Ids, s \in Slaves :
      Touched(s, id) => MP!Only(s, id) /\ \A t \in Slaves \ {s} : ~Touched(t, id)

\* Different files have different paths at the slaves.
OwnPaths == \A x, y \in Ids : ScpPath[x] = ScpPath[y] => x = y

\* A slave gets nothing to do with a file but from its controller.
LEMMA TouchedStep ==
  ASSUME OwnPaths, PartsInv, [Next]_vars, NEW s \in Slaves, NEW id \in Ids, Touched(s, id)'
  PROVE  Touched(s, id) \/ (phase = "up" /\ MP!Holds(cfiles[s], id))
<1>0. MP!TypeOK /\ [MP!Next]_(MP!mvars)
  BY StepOfParts, SameNext DEF PartsInv, MP!WaitInv
<1>1. CASE MP!Called(s, id)'
  BY <1>0, <1>1, MP!CalledStep, Assumptions DEF Touched
<1>2. CASE SP!IsPresent(mem[s], ssaved[s], ScpPath[id])'
  <2>0. ScpPath[id] \in Names BY TranscoderAssumption
  <2>1. CASE UNCHANGED slaveVars
    BY <1>2, <2>1 DEF slaveVars, Touched, SP!IsPresent, SP!Has
  <2>2. ASSUME NEW r \in Slaves, NEW set, SP!GoesOn(r, set),
               r = s => ScpPath[id] \notin set
        PROVE  Touched(s, id)
    <3>1. CASE r = s
      <4>1. SP!Keeps(set, mem[s], ssaved[s], mem'[s], ssaved'[s])
        BY <2>2, <3>1 DEF SP!GoesOn
      <4>2. SP!IsPresent(mem'[s], ssaved'[s], ScpPath[id]) BY <1>2
      <4> QED BY <2>0, <2>2, <3>1, <4>1, <4>2 DEF SP!Keeps, Touched
    <3>2. CASE r # s
      <4>1. mem'[s] = mem[s] /\ ssaved'[s] = ssaved[s] BY <2>2, <3>2 DEF SP!GoesOn
      <4> QED BY <1>2, <4>1 DEF Touched
    <3> QED BY <3>1, <3>2
  <2>3. ASSUME NEW r \in Slaves, NEW x \in Ids, GivenFile(r, x) PROVE Touched(s, id)
    <3>1. MP!Called(r, x) /\ SP!GoesOn(r, {ScpPath[x]}) BY <2>3 DEF GivenFile
    <3>2. CASE r = s /\ x = id BY <3>1, <3>2 DEF Touched
    <3>3. CASE r # s \/ x # id
      <4>1. r = s => ScpPath[id] \notin {ScpPath[x]} BY <3>3 DEF OwnPaths
      <4> QED BY <2>2, <3>1, <4>1
    <3> QED BY <3>2, <3>3
  <2>4. CASE Next
    BY <2>1, <2>2, <2>3, <2>4, StepCases DEF MasterAlone, SlaveAlone, Notified
  <2>5. CASE UNCHANGED vars BY <2>1, <2>5 DEF vars
  <2> QED BY <2>4, <2>5
<1> QED BY <1>1, <1>2 DEF Touched

\* Every step keeps the slaves' files apart, unless the master crashes.
LEMMA TouchStep ==
  ASSUME OwnPaths, PartsInv, TouchInv, [Next]_vars
  PROVE  TouchInv'
<1>0. MP!TypeOK /\ [MP!Next]_(MP!mvars) /\ MP!PlacesInv
  BY StepOfParts, SameNext DEF PartsInv, MP!WaitInv
<1> SUFFICES ASSUME ~ReuseIds, ~crashed', NEW id \in Ids, NEW s \in Slaves, Touched(s, id)'
             PROVE  MP!Only(s, id)' /\ \A t \in Slaves \ {s} : ~Touched(t, id)'
  BY DEF TouchInv
<1>1. ~crashed BY <1>0, MP!CrashedStays, Assumptions
<1>2. ASSUME NEW t \in Slaves, Touched(t, id)' PROVE MP!Only(t, id)
  <2>1. Touched(t, id) \/ (phase = "up" /\ MP!Holds(cfiles[t], id))
    BY <1>2, TouchedStep
  <2>2. CASE Touched(t, id) BY <1>1, <2>2 DEF TouchInv
  <2>3. CASE phase = "up" /\ MP!Holds(cfiles[t], id)
    BY <1>0, <1>1, <2>3, MP!HoldsOnly, Assumptions
  <2> QED BY <2>1, <2>2, <2>3
<1>3. MP!Only(s, id) BY <1>2
<1>4. MP!Only(s, id)' BY <1>0, <1>3, MP!OnlyStep, Assumptions
<1>5. ASSUME NEW t \in Slaves \ {s}, Touched(t, id)' PROVE FALSE
  <2>1. MP!Only(t, id) BY <1>2, <1>5
  <2>2. \/ Touched(s, id) \/ (phase = "up" /\ MP!Holds(cfiles[s], id)) BY TouchedStep
  <2>3. \/ Touched(t, id) \/ (phase = "up" /\ MP!Holds(cfiles[t], id)) BY <1>5, TouchedStep
  <2>4. ~MP!Holds(cfiles[s], id) /\ ~MP!Holds(cfiles[t], id)
    BY <1>3, <2>1 DEF MP!Only
  <2>5. Touched(s, id) /\ Touched(t, id) BY <2>2, <2>3, <2>4
  <2> QED BY <1>1, <2>5 DEF TouchInv
<1> QED BY <1>4, <1>5

\* Before the first start no slave has a file.
LEMMA TouchInit == Init => TouchInv
<1> SUFFICES ASSUME Init PROVE TouchInv OBVIOUS
<1>1. MP!Init /\ SP!Init BY SameMasterInit, SameSlaveInit DEF Init
<1>2. ASSUME NEW s \in Slaves, NEW id \in Ids PROVE ~Touched(s, id)
  <2>1. ~SP!IsPresent(mem[s], ssaved[s], ScpPath[id])
    BY <1>1, SP!StageInit, Assumptions, TranscoderAssumption
  <2>2. calls[s] = <<>> BY <1>1 DEF MP!Init
  <2> QED BY <2>1, <2>2 DEF Touched, MP!Called
<1> QED BY <1>2 DEF TouchInv

\* How far a file has come, as the theorems about the slaves see it.
LEMMA SameStage ==
  ASSUME NEW s, NEW id
  PROVE  Stage(s, id) = SP!StageOf(mem[s], ssaved[s], ScpPath[id])
BY DEF Stage, SlaveId, SP!StageOf, SP!IsBegun, ABSENT, SP!ABSENT, S!State, SP!State

\* With any number of slaves and files, however messages get lost and slaves
\* crash: until the master crashes, no two slaves ever have work on a file that
\* users submitted once, if no other file has its path.
THEOREM GivenToOneSlave == OwnPaths => (Spec => []TranscodedOnce)
<1> SUFFICES ASSUME OwnPaths PROVE Spec => []TranscodedOnce OBVIOUS
<1>1. PartsInv /\ TouchInv => TranscodedOnce
  <2> SUFFICES ASSUME PartsInv, TouchInv, ~crashed, ~ReuseIds,
                      NEW id \in Ids, NEW s \in Slaves, NEW t \in Slaves, s # t
               PROVE  Stage(s, id) = ABSENT \/ Stage(t, id) = ABSENT
    BY DEF TranscodedOnce
  <2>1. ~Touched(s, id) \/ ~Touched(t, id) BY DEF TouchInv
  <2>2. ASSUME NEW r \in Slaves, ~Touched(r, id) PROVE Stage(r, id) = ABSENT
    <3>1. ~SP!IsPresent(mem[r], ssaved[r], ScpPath[id]) BY <2>2 DEF Touched
    <3>2. SP!MemoryInv(mem[r]) BY DEF PartsInv, SP!WorkInv, SP!WorkOK
    <3>3. ScpPath[id] \in Names BY TranscoderAssumption
    <3>4. SP!StageOf(mem[r], ssaved[r], ScpPath[id]) = SP!ABSENT
      BY <3>1, <3>2, <3>3, SP!StagePresent, Assumptions
    <3> QED BY <3>4, SameStage DEF ABSENT, SP!ABSENT
  <2> QED BY <2>1, <2>2
<1>2. PartsInv /\ TouchInv /\ [Next]_vars => PartsInv' /\ TouchInv'
  BY PartsStep, TouchStep
<1>3. Init => PartsInv /\ TouchInv BY PartsInit, TouchInit
<1> QED BY <1>1, <1>2, <1>3, PTL DEF Spec

-----------------------------------------------------------------------------
(* The whole does what Job promises.                                       *)

\* A file that a slave can name to the master is one that has its own id for a
\* path: the master then takes news of it for news of that id.
PathsAreIds == \A id \in Ids \cap Names : ScpPath[id] = id

\* What the master keeps of a file has happened to it, and the master is not
\* about to be told that the file is PROCESSING once it knows the outcome.
ShownOK(s, id) ==
  \A st \in MP!KeptStates(s, id) :
    /\ st \in J!Shown(Stage(s, id))
    /\ st \in Outcomes => ~SP!Telling(mem[s], ScpPath[id])

JobInv ==
  \A s \in Slaves :
    /\ sremoved[s] = {}
    /\ SP!StageOK(sup[s], mem[s], ssaved[s])
    /\ \A id \in Ids : ShownOK(s, id)

\* The stages.
LEMMA StageFacts ==
  /\ J!Stages = SP!Stages
  /\ J!Stages = {ABSENT, "PENDING", "PROCESSING", "SLAVE_READY", "ERROR"}
  /\ ABSENT = "ABSENT" /\ J!ABSENT = "ABSENT" /\ SP!ABSENT = "ABSENT" /\ MP!ABSENT = "ABSENT"
BY DEF J!Stages, J!Later, SP!Stages, ABSENT, J!ABSENT, SP!ABSENT, MP!ABSENT

\* What the master may show of a file, stage by stage.
LEMMA ShownFacts ==
  /\ \A st \in J!Stages : ABSENT \in J!Shown(st) /\ "PENDING" \in J!Shown(st)
  /\ \A st \in J!Stages : J!Shown(st) \subseteq J!Stages
  /\ \A st \in J!Stages : \A v \in J!Shown(st) \cap Outcomes : v = st
  /\ \A st \in J!Stages : SP!IsBegun(st) => "PROCESSING" \in J!Shown(st) /\ st \in J!Shown(st)
  /\ \A st, now \in J!Stages : SP!Advances(st, now) => J!Shown(st) \subseteq J!Shown(now)
BY DEF J!Shown, J!Later, J!Stages, J!ABSENT, ABSENT, SP!ABSENT, Outcomes, SP!IsBegun, SP!Advances

\* While a slave is well the stages of its files are stages.
LEMMA StageIn ==
  ASSUME JobInv, NEW s \in Slaves, NEW id \in Ids
  PROVE  Stage(s, id) \in J!Stages
<1>1. ScpPath[id] \in Names BY TranscoderAssumption
<1>2. SP!State(mem[s], ScpPath[id]) \in SP!Stages /\ ssaved[s][ScpPath[id]].file.st \in SP!Stages
  BY <1>1 DEF JobInv, SP!StageOK
<1> QED BY <1>2, SameStage, StageFacts DEF SP!StageOf

\* A slave that goes on keeps its part of the invariant, and its files advance.
LEMMA GoesOnStages ==
  ASSUME JobInv, NEW s \in Slaves, NEW set, SP!GoesOn(s, set), sremoved'[s] = {}
  PROVE  /\ \A t \in Slaves : SP!StageOK(sup[t], mem[t], ssaved[t])'
         /\ \A t \in Slaves, id \in Ids :
              /\ SP!Advances(Stage(t, id), Stage(t, id)')
              /\ t # s => Stage(t, id)' = Stage(t, id)
              /\ SP!Telling(mem'[t], ScpPath[id]) =>
                   SP!Telling(mem[t], ScpPath[id]) \/ Stage(t, id)' = "PROCESSING"
<1>1. /\ SP!StageOK(sup'[s], mem'[s], ssaved'[s])
      /\ SP!StageMoves(mem[s], ssaved[s], mem'[s], ssaved'[s])
  BY DEF JobInv, SP!GoesOn
<1>2. \A t \in Slaves \ {s} : sup'[t] = sup[t] /\ mem'[t] = mem[t] /\ ssaved'[t] = ssaved[t]
  BY DEF SP!GoesOn
<1>3. \A t \in Slaves : SP!StageOK(sup'[t], mem'[t], ssaved'[t]) BY <1>1, <1>2 DEF JobInv
<1>4. \A t \in Slaves, id \in Ids :
        /\ Stage(t, id) = SP!StageOf(mem[t], ssaved[t], ScpPath[id])
        /\ Stage(t, id)' = SP!StageOf(mem'[t], ssaved'[t], ScpPath[id])
  <2>1. ASSUME NEW t \in Slaves, NEW id \in Ids
        PROVE  Stage(t, id)' = SP!StageOf(mem'[t], ssaved'[t], ScpPath[id])
    BY DEF Stage, SlaveId, SP!StageOf, SP!IsBegun, ABSENT, SP!ABSENT, S!State, SP!State
  <2> QED BY <2>1, SameStage
<1>5. \A id \in Ids : ScpPath[id] \in Names BY TranscoderAssumption
<1>6. ASSUME NEW id \in Ids
      PROVE  /\ SP!Advances(Stage(s, id), Stage(s, id)')
             /\ SP!Telling(mem'[s], ScpPath[id]) =>
                  SP!Telling(mem[s], ScpPath[id]) \/ Stage(s, id)' = "PROCESSING"
  BY <1>1, <1>4, <1>5 DEF SP!StageMoves
<1>7. ASSUME NEW t \in Slaves \ {s}, NEW id \in Ids
      PROVE  Stage(t, id)' = Stage(t, id) /\ mem'[t] = mem[t]
  BY <1>2, <1>4
<1> QED BY <1>3, <1>6, <1>7 DEF SP!Advances

\* As files advance, what is shown of them stays right.
LEMMA ShownAdvances ==
  ASSUME JobInv, NEW s \in Slaves, NEW id \in Ids,
         MP!KeptStates(s, id)' \subseteq MP!KeptStates(s, id) \cup {ABSENT, "PENDING"},
         Stage(s, id)' \in J!Stages,
         SP!Advances(Stage(s, id), Stage(s, id)'),
         SP!Telling(mem'[s], ScpPath[id]) =>
           SP!Telling(mem[s], ScpPath[id]) \/ Stage(s, id)' = "PROCESSING"
  PROVE  ShownOK(s, id)'
<1>1. J!Shown(Stage(s, id)) \subseteq J!Shown(Stage(s, id)') BY StageIn, ShownFacts
<1> SUFFICES ASSUME NEW st \in MP!KeptStates(s, id)'
             PROVE  /\ st \in J!Shown(Stage(s, id)')
                    /\ st \in Outcomes => ~SP!Telling(mem'[s], ScpPath[id])
  BY DEF ShownOK
<1>2. CASE st \in {ABSENT, "PENDING"} BY <1>2, ShownFacts, StageFacts DEF Outcomes
<1>3. CASE st \in MP!KeptStates(s, id)
  <2>1. st \in J!Shown(Stage(s, id)) /\ (st \in Outcomes => ~SP!Telling(mem[s], ScpPath[id]))
    BY <1>3 DEF JobInv, ShownOK
  <2>2. st \in J!Shown(Stage(s, id)') BY <1>1, <2>1
  <2>3. st \in Outcomes => Stage(s, id)' # "PROCESSING" BY <2>2, ShownFacts DEF Outcomes
  <2> QED BY <2>1, <2>2, <2>3
<1> QED BY <1>2, <1>3

\* What is shown is the state in memory or on disk.
LEMMA SameShows ==
  ASSUME NEW s, NEW id
  PROVE  /\ Shows(s, id) = MP!ShownState(s, id) /\ Shows(s, id) \in MP!KeptStates(s, id)
         /\ Shows(s, id)' = MP!ShownState(s, id)' /\ Shows(s, id)' \in MP!KeptStates(s, id)'
BY DEF Shows, View, MP!ShownState, MP!KeptStates

\* The files of a slave advance.
LEMMA WorkIsWork ==
  ASSUME NEW s \in Slaves,
         \A t \in Slaves, id \in Ids :
           /\ Stage(t, id)' \in J!Stages
           /\ SP!Advances(Stage(t, id), Stage(t, id)')
           /\ t # s => Stage(t, id)' = Stage(t, id)
           /\ Shows(t, id)' = Shows(t, id)
  PROVE  J!Next
<1> DEFINE now == [id \in Ids |-> Stage(s, id)']
<1>1. now \in [Ids -> J!Stages] OBVIOUS
<1>2. \A id \in Ids :
        \/ now[id] = Stage(s, id)
        \/ Stage(s, id) = J!ABSENT /\ now[id] \in {"PENDING", "PROCESSING", "ERROR"}
        \/ Stage(s, id) = "PENDING" /\ now[id] \in {J!ABSENT, "PROCESSING", "ERROR"}
        \/ Stage(s, id) = "PROCESSING" /\ now[id] \in {"SLAVE_READY", "ERROR"}
  BY StageFacts DEF SP!Advances
<1>3. [t \in Slaves |-> [id \in Ids |-> Stage(t, id)]]'
        = [[t \in Slaves |-> [id \in Ids |-> Stage(t, id)]] EXCEPT ![s] = now]
  OBVIOUS
<1>4. UNCHANGED [t \in Slaves |-> [id \in Ids |-> Shows(t, id)]] OBVIOUS
<1> HIDE DEF now
<1>5. J!Work(s) BY <1>1, <1>2, <1>3, <1>4 DEF J!Work
<1> QED BY <1>5 DEF J!Next

\* The master learns something of a file.
LEMMA NewsIsLearned ==
  ASSUME NEW s \in Slaves, NEW id \in Ids,
         Shows(s, id)' \in J!Later[Shows(s, id)] \cap J!Shown(Stage(s, id)),
         \A t \in Slaves, x \in Ids :
           /\ Stage(t, x)' = Stage(t, x)
           /\ t # s \/ x # id => Shows(t, x)' = Shows(t, x)
  PROVE  J!Next
<1> DEFINE v == Shows(s, id)'
<1>1. [t \in Slaves |-> [x \in Ids |-> Shows(t, x)]]'
        = [[t \in Slaves |-> [x \in Ids |-> Shows(t, x)]] EXCEPT ![s][id] = v]
  OBVIOUS
<1>2. UNCHANGED [t \in Slaves |-> [x \in Ids |-> Stage(t, x)]] OBVIOUS
<1>3. v \in J!Later[Shows(s, id)] \cap J!Shown(Stage(s, id)) OBVIOUS
<1> HIDE DEF v
<1>4. J!Learn(s, id) BY <1>1, <1>2, <1>3 DEF J!Learn
<1> QED BY <1>4 DEF J!Next

\* The master forgets, or remembers.
LEMMA NoNewsIsRestart ==
  ASSUME \A s \in Slaves, id \in Ids :
           /\ Stage(s, id)' = Stage(s, id)
           /\ Shows(s, id)' \in J!Stages \cap J!Shown(Stage(s, id))
           /\ Shows(s, id) = J!ABSENT \/ Shows(s, id)' \in {J!ABSENT, Shows(s, id)}
  PROVE  J!Next
<1>1. UNCHANGED [t \in Slaves |-> [x \in Ids |-> Stage(t, x)]] OBVIOUS
<1>2. [t \in Slaves |-> [x \in Ids |-> Shows(t, x)]]' \in [Slaves -> [Ids -> J!Stages]] OBVIOUS
<1>3. J!Restart BY <1>1, <1>2 DEF J!Restart
<1> QED BY <1>3 DEF J!Next

\* The master is notified: the news is right, and new to it or known.
LEMMA NotifiedStep ==
  ASSUME PathsAreIds, PartsInv, JobInv, NEW s \in Slaves, NEW n \in Names, Notified(s, n),
         \A t \in Slaves : sremoved'[t] = {}
  PROVE  JobInv' /\ [J!Next]_(J!jvars)
<1> DEFINE news == SP!NextNote(s, n).file
<1>0. SP!WorkInv /\ MP!TypeOK BY DEF PartsInv, MP!WaitInv
<1>1. SP!Unanswered(s, n) # {} /\ MP!NotifyStateChange(s, n, news) /\ SP!GoesOn(s, {})
  BY DEF Notified
<1>2. PICK res \in {"ok", "failed"} : SP!AnswerNote(s, n, res) BY DEF Notified
<1>3. \A t \in Slaves, id \in Ids : Stage(t, id)' = Stage(t, id)
  <2> SUFFICES ASSUME NEW t \in Slaves, NEW id \in Ids PROVE Stage(t, id)' = Stage(t, id)
    OBVIOUS
  <2>1. ScpPath[id] \in Names BY TranscoderAssumption
  <2>2. SP!StageOf(mem'[t], ssaved'[t], ScpPath[id]) = SP!StageOf(mem[t], ssaved[t], ScpPath[id])
    BY <1>0, <1>2, <2>1, SP!AnswerStages, Assumptions
  <2>3. Stage(t, id)' = SP!StageOf(mem'[t], ssaved'[t], ScpPath[id])
    BY DEF Stage, SlaveId, SP!StageOf, SP!IsBegun, ABSENT, SP!ABSENT, S!State, SP!State
  <2> QED BY <2>2, <2>3, SameStage
<1>4. /\ \A t \in Slaves : SP!StageOK(sup[t], mem[t], ssaved[t])'
      /\ \A t \in Slaves, id \in Ids :
           SP!Telling(mem'[t], ScpPath[id]) =>
             SP!Telling(mem[t], ScpPath[id]) \/ Stage(t, id)' = "PROCESSING"
  BY <1>1, GoesOnStages
<1>5. /\ news \in SP!SlaveReports
      /\ news.st \in SP!Told(SP!StageOf(mem[s], ssaved[s], n))
      /\ news.st = "PROCESSING" => SP!Telling(mem[s], n)
      /\ news.st # "PROCESSING" => ~SP!Telling(mem[s], n)
  BY <1>0, <1>1, SP!NextNews, Assumptions DEF JobInv
<1>6. /\ phase = "up" /\ phase' = "up"
      /\ \/ UNCHANGED <<cfiles, savedFiles>>
         \/ /\ n \in Ids /\ MP!Holds(cfiles[s], n)
            /\ cfiles'[s][n] = news
            /\ \A t \in Slaves, x \in Ids :
                 /\ t # s \/ x # n => cfiles'[t][x] = cfiles[t][x]
                 /\ savedFiles'[t][x] = IF t = s THEN cfiles'[t][x] ELSE savedFiles[t][x]
  BY <1>0, <1>1, MP!NotifyStates, Assumptions
<1> HIDE DEF news
<1>o. ASSUME NEW t \in Slaves, NEW x \in Ids,
             MP!KeptStates(t, x)' \subseteq MP!KeptStates(t, x) \cup {ABSENT, "PENDING"}
      PROVE  ShownOK(t, x)'
  <2>1. Stage(t, x)' \in J!Stages /\ SP!Advances(Stage(t, x), Stage(t, x)')
    BY <1>3, StageIn DEF SP!Advances
  <2> QED BY <1>4, <1>o, <2>1, ShownAdvances
<1>7. CASE UNCHANGED <<cfiles, savedFiles>>
  <2>1. \A t \in Slaves, x \in Ids : ShownOK(t, x)' BY <1>7, <1>o DEF MP!KeptStates
  <2>2. JobInv' BY <1>4, <2>1 DEF JobInv
  <2>3. \A t \in Slaves, x \in Ids : Shows(t, x)' = Shows(t, x) BY <1>6, <1>7 DEF Shows, View
  <2>4. UNCHANGED J!jvars BY <1>3, <2>3 DEF J!jvars
  <2> QED BY <2>2, <2>4
<1>8. CASE /\ n \in Ids /\ MP!Holds(cfiles[s], n)
           /\ cfiles'[s][n] = news
           /\ \A t \in Slaves, x \in Ids :
                /\ t # s \/ x # n => cfiles'[t][x] = cfiles[t][x]
                /\ savedFiles'[t][x] = IF t = s THEN cfiles'[t][x] ELSE savedFiles[t][x]
  <2> DEFINE old == cfiles[s][n].st
             st == Stage(s, n)
  <2>1. n \in Ids /\ ScpPath[n] = n BY <1>8 DEF PathsAreIds
  <2>2. st \in J!Stages /\ st = SP!StageOf(mem[s], ssaved[s], n)
    BY <2>1, StageIn, SameStage
  <2>3. SP!IsBegun(st) /\ news.st \in {"PROCESSING", st} BY <1>5, <2>2 DEF SP!Told
  <2>4. news.st \in J!Shown(st) BY <2>2, <2>3, ShownFacts
  <2>5. old \in J!Shown(st) /\ (old \in Outcomes => ~SP!Telling(mem[s], n))
    BY <2>1 DEF JobInv, ShownOK, MP!KeptStates
  <2>6. old # ABSENT
    <3>1. cfiles[s][n] \in MP!MaybeFile
      <4>1. cfiles \in [Slaves -> MP!FileMap] BY <1>0 DEF MP!TypeOK
      <4>2. cfiles[s] \in [Ids -> MP!MaybeFile] BY <4>1 DEF MP!FileMap
      <4> QED BY <2>1, <4>2
    <3>2. MP!ABSENT = ABSENT BY StageFacts
    <3> QED BY <1>8, <3>1, <3>2, MP!NoFileStates, Assumptions DEF MP!Holds
  <2>7. news.st \in Outcomes => ~SP!Telling(mem[s], n) BY <1>5 DEF Outcomes
  <2>8. ShownOK(s, n)'
    <3>1. MP!KeptStates(s, n)' = {news.st} BY <1>8 DEF MP!KeptStates
    <3>2. news.st \in Outcomes => ~SP!Telling(mem'[s], n)
      <4>1. SP!Telling(mem'[s], n) => SP!Telling(mem[s], n) \/ st = "PROCESSING"
        BY <1>3, <1>4, <2>1
      <4>2. news.st \in Outcomes => st # "PROCESSING" BY <2>3 DEF Outcomes
      <4> QED BY <2>7, <4>1, <4>2
    <3>3. Stage(s, n)' = st BY <1>3, <2>1
    <3> HIDE DEF st
    <3> QED BY <2>1, <2>4, <3>1, <3>2, <3>3 DEF ShownOK
  <2>9. \A t \in Slaves, x \in Ids : t # s \/ x # n => ShownOK(t, x)'
    <3> SUFFICES ASSUME NEW t \in Slaves, NEW x \in Ids, t # s \/ x # n PROVE ShownOK(t, x)'
      OBVIOUS
    <3>1. MP!KeptStates(t, x)' \subseteq MP!KeptStates(t, x) BY <1>8 DEF MP!KeptStates
    <3> QED BY <3>1, <1>o
  <2>10. JobInv' BY <1>4, <2>8, <2>9 DEF JobInv
  <2>11. /\ Shows(s, n) = old /\ Shows(s, n)' = news.st
         /\ \A t \in Slaves, x \in Ids : t # s \/ x # n => Shows(t, x)' = Shows(t, x)
    BY <1>6, <1>8 DEF Shows, View
  <2>12. CASE news.st = old
    <3>1. \A t \in Slaves, x \in Ids : Shows(t, x)' = Shows(t, x) BY <2>11, <2>12
    <3>2. UNCHANGED J!jvars BY <1>3, <3>1 DEF J!jvars
    <3> QED BY <2>10, <3>2
  <2>13. CASE news.st # old
    <3>1. old \in {"PENDING", "PROCESSING"}
      <4>1. ASSUME old \in Outcomes PROVE FALSE
        <5>1. old = st BY <2>2, <2>5, <4>1, ShownFacts
        <5>2. news.st = "PROCESSING" BY <2>3, <2>13, <5>1
        <5> QED BY <1>5, <2>5, <4>1, <5>2
      <4>2. old \in J!Stages BY <2>2, <2>5, ShownFacts
      <4> QED BY <2>6, <4>1, <4>2, StageFacts DEF Outcomes
    <3>2. news.st \in J!Later[old]
      <4>1. st \in {"PROCESSING", "SLAVE_READY", "ERROR"} BY <2>2, <2>3, StageFacts DEF SP!IsBegun
      <4> QED BY <2>3, <2>13, <3>1, <4>1 DEF J!Later
    <3> HIDE DEF old, st
    <3>3. J!Next BY <1>3, <2>1, <2>4, <2>11, <3>2, NewsIsLearned DEF st
    <3> QED BY <2>10, <3>3
  <2> QED BY <2>12, <2>13
<1> QED BY <1>6, <1>7, <1>8

\* Every step of the whole is one of Job, or none.
LEMMA JobStep ==
  ASSUME MaxDeleted = 0, PathsAreIds, PartsInv, JobInv, [Next]_vars
  PROVE  JobInv' /\ [J!Next]_(J!jvars)
<1>0. SP!WorkInv /\ MP!TypeOK /\ MP!DurableInv /\ MP!WaitInv BY DEF PartsInv, MP!WaitInv
<1>1. \A s \in Slaves : sremoved'[s] = {}
  <2>1. [SP!Next]_(SP!svars) BY <1>0, StepOfParts, SameNext
  <2>2. \A s \in Slaves : sremoved[s] = {} BY DEF JobInv
  <2> QED BY <1>0, <2>1, <2>2, SP!NothingRemoved, Assumptions
<1>s. ASSUME UNCHANGED slaveVars
      PROVE  /\ \A s \in Slaves : SP!StageOK(sup[s], mem[s], ssaved[s])'
             /\ \A s \in Slaves, id \in Ids : Stage(s, id)' = Stage(s, id)
  <2>1. \A s \in Slaves : sup'[s] = sup[s] /\ mem'[s] = mem[s] /\ ssaved'[s] = ssaved[s]
    BY <1>s DEF slaveVars
  <2>2. \A s \in Slaves, id \in Ids : Stage(s, id)' = Stage(s, id)
    BY <2>1 DEF Stage, SlaveId, S!State
  <2> QED BY <2>1, <2>2 DEF JobInv
<1>2. CASE MasterAlone
  <2>1. UNCHANGED slaveVars /\ MP!QuietStep BY <1>2 DEF MasterAlone
  <2>2. MP!StatesKept /\ MP!NoNews BY <1>0, <2>1, MP!QuietStates, Assumptions
  <2>3. /\ \A s \in Slaves : SP!StageOK(sup[s], mem[s], ssaved[s])'
        /\ \A s \in Slaves, id \in Ids : Stage(s, id)' = Stage(s, id)
    BY <2>1, <1>s
  <2>4. ASSUME NEW s \in Slaves, NEW id \in Ids PROVE ShownOK(s, id)'
    <3>1. MP!KeptStates(s, id)' \subseteq MP!KeptStates(s, id) \cup {ABSENT, "PENDING"}
      BY <2>2, StageFacts DEF MP!StatesKept
    <3>2. Stage(s, id)' \in J!Stages /\ SP!Advances(Stage(s, id), Stage(s, id)')
      BY <2>3, StageIn DEF SP!Advances
    <3>3. mem' = mem BY <2>1 DEF slaveVars
    <3> QED BY <3>1, <3>2, <3>3, ShownAdvances
  <2>5. JobInv' BY <1>1, <2>3, <2>4 DEF JobInv
  <2>6. ASSUME NEW s \in Slaves, NEW id \in Ids
        PROVE  /\ Shows(s, id)' \in J!Stages \cap J!Shown(Stage(s, id))
               /\ Shows(s, id) = J!ABSENT \/ Shows(s, id)' \in {J!ABSENT, Shows(s, id)}
    <3>1. Shows(s, id)' \in J!Shown(Stage(s, id)) BY <2>3, <2>4, SameShows DEF ShownOK
    <3>2. Shows(s, id)' \in J!Stages BY <3>1, StageIn, ShownFacts
    <3>3. Shows(s, id) = MP!ABSENT \/ Shows(s, id)' \in {MP!ABSENT, Shows(s, id)}
      BY <2>2, SameShows DEF MP!NoNews
    <3> QED BY <3>1, <3>2, <3>3, StageFacts
  <2>7. J!Next BY <2>3, <2>6, NoNewsIsRestart
  <2> QED BY <2>5, <2>7
<1>3. ASSUME NEW s \in Slaves, NEW set, SP!GoesOn(s, set),
             UNCHANGED <<phase, cfiles, savedFiles>>
      PROVE  JobInv' /\ J!Next
  <2>1. /\ \A t \in Slaves : SP!StageOK(sup[t], mem[t], ssaved[t])'
        /\ \A t \in Slaves, id \in Ids :
             /\ SP!Advances(Stage(t, id), Stage(t, id)')
             /\ t # s => Stage(t, id)' = Stage(t, id)
             /\ SP!Telling(mem'[t], ScpPath[id]) =>
                  SP!Telling(mem[t], ScpPath[id]) \/ Stage(t, id)' = "PROCESSING"
    BY <1>1, <1>3, GoesOnStages
  <2>2. \A t \in Slaves, id \in Ids : Stage(t, id)' \in J!Stages
    BY <2>1, StageIn, StageFacts DEF SP!Advances
  <2>3. ASSUME NEW t \in Slaves, NEW id \in Ids PROVE ShownOK(t, id)'
    <3>1. MP!KeptStates(t, id)' \subseteq MP!KeptStates(t, id) \cup {ABSENT, "PENDING"}
      BY <1>3 DEF MP!KeptStates
    <3> QED BY <2>1, <2>2, <3>1, ShownAdvances
  <2>4. JobInv' BY <1>1, <2>1, <2>3 DEF JobInv
  <2>5. \A t \in Slaves, id \in Ids : Shows(t, id)' = Shows(t, id) BY <1>3 DEF Shows, View
  <2>6. J!Next BY <2>1, <2>2, <2>5, WorkIsWork
  <2> QED BY <2>4, <2>6
<1>4. ASSUME NEW s \in Slaves, SlaveAlone(s) PROVE JobInv' /\ J!Next
  BY <1>3, <1>4 DEF SlaveAlone, masterVars
<1>5. ASSUME NEW s \in Slaves, NEW id \in Ids, GivenFile(s, id) PROVE JobInv' /\ J!Next
  BY <1>3, <1>5 DEF GivenFile
<1>6. ASSUME NEW s \in Slaves, NEW n \in Names, Notified(s, n)
      PROVE  JobInv' /\ [J!Next]_(J!jvars)
  BY <1>1, <1>6, NotifiedStep
<1>7. CASE UNCHANGED vars
  <2>1. UNCHANGED slaveVars /\ UNCHANGED <<phase, cfiles, savedFiles>>
    BY <1>7 DEF vars, masterVars
  <2>2. /\ \A s \in Slaves : SP!StageOK(sup[s], mem[s], ssaved[s])'
        /\ \A s \in Slaves, id \in Ids : Stage(s, id)' = Stage(s, id)
    BY <2>1, <1>s
  <2>3. \A s \in Slaves, id \in Ids : Shows(s, id)' = Shows(s, id) BY <2>1 DEF Shows, View
  <2>4. \A s \in Slaves, id \in Ids : ShownOK(s, id)'
    BY <2>1, <2>2 DEF JobInv, ShownOK, MP!KeptStates, slaveVars
  <2>5. JobInv' BY <1>1, <2>2, <2>4 DEF JobInv
  <2>6. UNCHANGED J!jvars BY <2>2, <2>3 DEF J!jvars
  <2> QED BY <2>5, <2>6
<1> QED BY <1>2, <1>4, <1>5, <1>6, <1>7, StepCases

\* Before the first start nothing is shown, and nothing has happened.
LEMMA JobInit == Init => JobInv /\ J!Init
<1> SUFFICES ASSUME Init PROVE JobInv /\ J!Init OBVIOUS
<1>1. MP!Init /\ SP!Init BY SameMasterInit, SameSlaveInit DEF Init
<1>2. ASSUME NEW s \in Slaves
      PROVE  /\ sremoved[s] = {} /\ SP!StageOK(sup[s], mem[s], ssaved[s])
             /\ \A n \in Names : SP!StageOf(mem[s], ssaved[s], n) = SP!ABSENT
  BY <1>1, SP!StageInit, Assumptions
<1>3. ASSUME NEW s \in Slaves, NEW id \in Ids
      PROVE  Stage(s, id) = ABSENT /\ MP!KeptStates(s, id) = {ABSENT}
  <2>1. ScpPath[id] \in Names BY TranscoderAssumption
  <2>2. Stage(s, id) = ABSENT BY <1>2, <2>1, SameStage, StageFacts
  <2>3. cfiles[s][id] = MP!NoFile /\ savedFiles[s][id] = MP!NoFile
    BY <1>1 DEF MP!Init, MP!None
  <2>4. MP!NoFile.st = ABSENT BY DEF MP!NoFile, MP!ABSENT, ABSENT
  <2> QED BY <2>2, <2>3, <2>4 DEF MP!KeptStates
<1>4. \A s \in Slaves, id \in Ids : ShownOK(s, id)
  BY <1>3, ShownFacts, StageFacts DEF ShownOK, Outcomes
<1>5. JobInv BY <1>2, <1>4 DEF JobInv
<1>6. \A s \in Slaves, id \in Ids : Stage(s, id) = J!ABSENT /\ Shows(s, id) = J!ABSENT
  BY <1>3, SameShows, StageFacts
<1>7. J!Init BY <1>6 DEF J!Init
<1> QED BY <1>5, <1>7

\* The transcoder implements Job, for any number of masters' files and slaves,
\* whatever messages get lost or repeated and whoever crashes: what the master
\* shows of a file follows what happens to it at the slave, never ahead of it
\* and never backwards.  No file is deleted at a slave (no master asks for it),
\* and a slave names files that users know, if any, as users do.
THEOREM FollowsJob == (MaxDeleted = 0 /\ PathsAreIds) => (Spec => ImplementsJob)
<1> SUFFICES ASSUME MaxDeleted = 0, PathsAreIds PROVE Spec => ImplementsJob OBVIOUS
<1>1. Init => PartsInv /\ JobInv /\ J!Init BY PartsInit, JobInit
<1>2. PartsInv /\ JobInv /\ [Next]_vars => PartsInv' /\ JobInv' /\ [J!Next]_(J!jvars)
  BY PartsStep, JobStep
<1> QED BY <1>1, <1>2, PTL DEF Spec, ImplementsJob, J!Spec
=============================================================================
