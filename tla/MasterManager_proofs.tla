------------------------ MODULE MasterManager_proofs ------------------------
(* Proofs about MasterManager: its types, and that what the slave          *)
(* controllers know of the files is kept on disk.                          *)
EXTENDS MasterManager, SequenceTheorems, TLAPS

\* NoFile and the files of the module are what their type says.
LEMMA FileTypes ==
  /\ NoFile \in MaybeFile /\ Pending \in MaybeFile
  /\ SlaveReports \subseteq MaybeFile
  /\ None \in FileMap
  /\ \A f \in MaybeFile : [f EXCEPT !.err = TRUE] \in MaybeFile \/ f = NoFile
<1>1. NoFile \in MaybeFile /\ Pending \in MaybeFile /\ SlaveReports \subseteq MaybeFile
  BY DEF NoFile, MaybeFile, Pending, SlaveReports, File, FState, SlaveStates, MasterStates
<1>2. None \in FileMap
  BY <1>1 DEF None, FileMap
<1>3. ASSUME NEW f \in MaybeFile
      PROVE  [f EXCEPT !.err = TRUE] \in MaybeFile \/ f = NoFile
  BY DEF MaybeFile, File
<1> QED BY <1>1, <1>2, <1>3

\* No calls, one call more, one less, and an answered call are lists of calls.
LEMMA CallTypes ==
  /\ [s \in Slaves |-> <<>>] \in [Slaves -> Seq(Call)]
  /\ \A q \in Seq(Call), c \in Call : Append(q, c) \in Seq(Call)
  /\ \A q \in Seq(Call), res \in Result : \A k : [q EXCEPT ![k].res = res] \in Seq(Call)
<1>1. [s \in Slaves |-> <<>>] \in [Slaves -> Seq(Call)]
  <2>1. <<>> \in Seq(Call) OBVIOUS
  <2> QED BY <2>1
<1>2. \A q \in Seq(Call), c \in Call : Append(q, c) \in Seq(Call)
  OBVIOUS
<1>3. ASSUME NEW q \in Seq(Call), NEW k, NEW res \in Result
      PROVE  [q EXCEPT ![k].res = res] \in Seq(Call)
  <2> DEFINE r == [q EXCEPT ![k].res = res]
  <2>1. PICK n \in Nat : q \in [1 .. n -> Call]
    BY SeqDef
  <2>2. DOMAIN r = 1 .. n /\ r = [j \in 1 .. n |-> r[j]]
    BY <2>1
  <2>3. ASSUME NEW j \in 1 .. n PROVE r[j] \in Call
    <3>1. q[j] \in Call BY <2>1
    <3>2. CASE j = k
      <4>1. r[j] = [q[j] EXCEPT !.res = res] BY <2>1, <3>2
      <4> QED BY <3>1, <4>1 DEF Call
    <3>3. CASE j # k
      BY <2>1, <3>1, <3>3
    <3> QED BY <3>2, <3>3
  <2>4. r \in [1 .. n -> Call] BY <2>2, <2>3
  <2> QED BY <2>4, SeqDef
<1> QED BY <1>1, <1>2, <1>3

\* Storing a file under an id keeps the lists of a controller lists of files.
LEMMA SetFileType ==
  ASSUME TypeOK, NEW s \in Slaves, NEW id \in Ids, NEW f \in MaybeFile, SetFile(s, id, f)
  PROVE  cfiles' \in [Slaves -> FileMap] /\ savedFiles' \in [Slaves -> FileMap]
BY DEF TypeOK, SetFile, FileMap

\* When the process ends every list is empty, and the record of what was held
\* is the lists as they were.
LEMMA LoseMemoryType ==
  ASSUME TypeOK, LoseMemory
  PROVE  /\ phase' \in {"down", "up", "stopped"}
         /\ pending' \in FileMap
         /\ cfiles' \in [Slaves -> FileMap]
         /\ calls' \in [Slaves -> Seq(Call)]
         /\ lastHeld' \in [Slaves -> FileMap]
<1>1. None \in FileMap BY FileTypes
<1>2. calls' \in [Slaves -> Seq(Call)] BY CallTypes DEF LoseMemory
<1> QED BY <1>1, <1>2 DEF TypeOK, LoseMemory

\* Every step of the master keeps every variable within its type.
LEMMA TypeStep == TypeOK /\ [Next]_mvars => TypeOK'
<1> SUFFICES ASSUME TypeOK, [Next]_mvars PROVE TypeOK' OBVIOUS
<1> USE FileTypes
<1>1. ASSUME NEW id \in Ids, UserAddFile(id) PROVE TypeOK'
  BY <1>1 DEF TypeOK, UserAddFile, FileMap, disk
<1>2. ASSUME NEW id \in Ids, UserDelFile(id) PROVE TypeOK'
  BY <1>2 DEF TypeOK, UserDelFile, FileMap, disk
<1>3. ASSUME NEW s \in Slaves, MaybeGrabMediaFile(s) PROVE TypeOK'
  <2>1. PICK id \in Ids :
          /\ Holds(pending, id)
          /\ \/ Holds(cfiles[s], id) /\ Abort("duplicate id grabbed")
             \/ /\ ~Holds(cfiles[s], id)
                /\ pending' = [pending EXCEPT ![id] = NoFile]
                /\ SetFile(s, id, pending[id])
                /\ UNCHANGED <<phase, calls, hasKey, savedPending, history>>
    BY <1>3 DEF MaybeGrabMediaFile, GrabMediaFile
  <2>2. CASE Abort("duplicate id grabbed")
    BY <2>2, LoseMemoryType DEF TypeOK, Abort, disk
  <2>3. CASE /\ pending' = [pending EXCEPT ![id] = NoFile]
             /\ SetFile(s, id, pending[id])
             /\ UNCHANGED <<phase, calls, hasKey, savedPending, history>>
    <3>1. pending[id] \in MaybeFile BY DEF TypeOK, FileMap
    <3>2. cfiles' \in [Slaves -> FileMap] /\ savedFiles' \in [Slaves -> FileMap]
      BY <2>3, <3>1, SetFileType
    <3> QED BY <2>3, <3>2 DEF TypeOK, FileMap, history
  <2> QED BY <2>1, <2>2, <2>3
<1>4. ASSUME NEW s \in Slaves, HandleAddFileResult(s) PROVE TypeOK'
  <2> DEFINE c == Head(calls[s])
  <2>1. calls[s] \in Seq(Call) /\ calls[s] # <<>>
    BY <1>4 DEF TypeOK, HandleAddFileResult
  <2>2. c \in Call /\ Tail(calls[s]) \in Seq(Call)
    BY <2>1
  <2>3. cfiles' \in [Slaves -> FileMap] /\ savedFiles' \in [Slaves -> FileMap]
    <3>1. CASE UNCHANGED <<cfiles, savedFiles>>
      BY <3>1 DEF TypeOK
    <3>2. CASE Holds(cfiles[s], c.id) /\ SetFile(s, c.id, [cfiles[s][c.id] EXCEPT !.err = TRUE])
      <4>1. c.id \in Ids BY <2>2 DEF Call
      <4>2. cfiles[s][c.id] \in MaybeFile /\ cfiles[s][c.id] # NoFile
        BY <3>2, <4>1 DEF TypeOK, FileMap, Holds
      <4>3. [cfiles[s][c.id] EXCEPT !.err = TRUE] \in MaybeFile BY <4>2
      <4> QED BY <3>2, <4>1, <4>3, SetFileType
    <3> QED BY <1>4, <3>1, <3>2 DEF HandleAddFileResult, Failure
  <2>4. calls' \in [Slaves -> Seq(Call)]
    BY <1>4, <2>2 DEF TypeOK, HandleAddFileResult
  <2> QED BY <1>4, <2>3, <2>4 DEF TypeOK, HandleAddFileResult, history
<1>5. ASSUME NEW s \in Slaves, NEW id \in Ids, ProcessPending(s, id) PROVE TypeOK'
  <2>1. [id |-> id, res |-> "sent"] \in Call BY DEF Call, Result
  <2>2. calls' \in [Slaves -> Seq(Call)]
    <3>1. Append(calls[s], [id |-> id, res |-> "sent"]) \in Seq(Call)
      BY <2>1, CallTypes DEF TypeOK
    <3> QED BY <1>5, <3>1 DEF TypeOK, ProcessPending
  <2> QED BY <1>5, <2>2 DEF TypeOK, ProcessPending, history, disk
<1>6. ASSUME NEW s \in Slaves, NEW id \in Ids, ProcessSlaveReady(s, id) PROVE TypeOK'
  BY <1>6, LoseMemoryType DEF TypeOK, ProcessSlaveReady, Abort, disk
<1>7. CASE Start
  <2>1. pending' \in FileMap /\ cfiles' \in [Slaves -> FileMap]
    BY <1>7 DEF TypeOK, Start
  <2>2. starts' \in Nat
    <3>1. starts \in Nat BY DEF TypeOK
    <3>2. starts' = starts + 1 BY <1>7 DEF Start
    <3> QED BY <3>1, <3>2
  <2>3. UNCHANGED <<calls, hasKey, savedPending, savedFiles, submitted, deleted,
                    crashed, lastHeld, aborts>> /\ phase' = "up"
    BY <1>7 DEF Start, disk
  <2> QED BY <2>1, <2>2, <2>3 DEF TypeOK
<1>8. CASE Stop
  <2>1. cfiles' \in [Slaves -> FileMap] BY <1>8 DEF Stop
  <2>2. calls' \in [Slaves -> Seq(Call)] BY <1>8, CallTypes DEF Stop
  <2> QED BY <1>8, <2>1, <2>2 DEF TypeOK, Stop
<1>9. CASE Destroy
  BY <1>9, LoseMemoryType DEF TypeOK, Destroy
<1>10. CASE Crash
  BY <1>10, LoseMemoryType DEF TypeOK, Crash, disk
<1>11. ASSUME NEW s \in Slaves, CrashInLoad(s) PROVE TypeOK'
  <2>1. PICK loaded \in SUBSET {id \in Ids : Holds(savedFiles[s], id)} :
          savedFiles' = [savedFiles EXCEPT ![s] =
            [id \in Ids |-> IF id \in loaded THEN @[id] ELSE NoFile]]
    BY <1>11 DEF CrashInLoad
  <2>2. savedFiles' \in [Slaves -> FileMap]
    BY <2>1 DEF TypeOK, FileMap
  <2>3. crashed' = TRUE BY <1>11 DEF CrashInLoad
  <2>4. UNCHANGED <<phase, pending, cfiles, calls, hasKey, savedPending, submitted,
                    deleted, starts, lastHeld, aborts>>
    BY <1>11 DEF CrashInLoad
  <2> QED BY <2>2, <2>3, <2>4 DEF TypeOK
<1>12. ASSUME NEW s \in Slaves, NEW res \in Result \ {"sent"}, AnswerAddFile(s, res)
       PROVE  TypeOK'
  <2> DEFINE k == FirstUnanswered(s)
             q == [calls[s] EXCEPT ![k].res = res]
  <2>1. calls[s] \in Seq(Call) BY DEF TypeOK
  <2>2. q \in Seq(Call) BY <2>1, CallTypes
  <2>3. calls' = [calls EXCEPT ![s] = q] BY <1>12 DEF AnswerAddFile
  <2>4. calls' \in [Slaves -> Seq(Call)] BY <2>2, <2>3 DEF TypeOK
  <2> QED BY <1>12, <2>4 DEF TypeOK, AnswerAddFile, history, disk
<1>13. ASSUME NEW s \in Slaves, NEW id \in Ids, NEW file \in SlaveReports,
              NotifyStateChange(s, id, file)
       PROVE  TypeOK'
  <2>1. cfiles' \in [Slaves -> FileMap] /\ savedFiles' \in [Slaves -> FileMap]
    <3>1. CASE UNCHANGED <<cfiles, savedFiles>>
      BY <3>1 DEF TypeOK
    <3>2. CASE SetFile(s, id, file)
      BY <3>2, SetFileType
    <3> QED BY <1>13, <3>1, <3>2 DEF NotifyStateChange
  <2> QED BY <1>13, <2>1 DEF TypeOK, NotifyStateChange, history
<1>14. CASE UNCHANGED mvars
  BY <1>14 DEF TypeOK, mvars, disk, history
<1> QED
  BY <1>1, <1>2, <1>3, <1>4, <1>5, <1>6, <1>7, <1>8, <1>9, <1>10, <1>11, <1>12,
     <1>13, <1>14
  DEF Next, UserStep, SlaveControllerStep, ProcessStep, AnySlaveStep

\* A master that was never started has variables of the right types.
LEMMA TypeInit == Init => TypeOK
<1> SUFFICES ASSUME Init PROVE TypeOK OBVIOUS
<1>1. calls \in [Slaves -> Seq(Call)] BY CallTypes DEF Init
<1> QED BY <1>1, FileTypes DEF Init, TypeOK

\* MasterManager keeps its variables within their types, for any ids, slaves,
\* limits and behaviour of the slaves.
THEOREM TypeCorrect == Spec => []TypeOK
BY TypeInit, TypeStep, PTL DEF Spec

-----------------------------------------------------------------------------
(* Durability.  What a controller holds is what it has on disk, unless the *)
(* master found no pending key: then nothing of the disk was loaded, and   *)
(* the list on disk is an older one until the controller holds a file.     *)
(* Start() relies on the lists being empty while the master is down.       *)

HeldIsSaved ==
  phase = "up" =>
    \A s \in Slaves : hasKey \/ cfiles[s] # None => savedFiles[s] = cfiles[s]

DurableInv ==
  /\ TypeOK
  /\ HeldIsSaved
  /\ phase # "up" => \A s \in Slaves : cfiles[s] = None

\* Storing a file keeps the list of every slave equal to the list on disk, or
\* makes it so.
LEMMA SetFileDurable ==
  ASSUME TypeOK, HeldIsSaved, phase = "up", phase' = "up", hasKey' = hasKey,
         NEW s \in Slaves, NEW id, NEW f, SetFile(s, id, f)
  PROVE  HeldIsSaved'
<1>1. savedFiles'[s] = cfiles'[s]
  BY DEF TypeOK, SetFile
<1>2. \A t \in Slaves \ {s} : cfiles'[t] = cfiles[t] /\ savedFiles'[t] = savedFiles[t]
  BY DEF TypeOK, SetFile
<1> QED BY <1>1, <1>2 DEF HeldIsSaved, None

\* A process that ended has empty lists.
LEMMA LoseMemoryDurable ==
  ASSUME LoseMemory
  PROVE  phase' # "up" /\ \A s \in Slaves : cfiles'[s] = None
BY DEF LoseMemory, None

\* Every step keeps the lists of the slave controllers on disk.
LEMMA DurableStep == DurableInv /\ [Next]_mvars => DurableInv'
<1> SUFFICES ASSUME DurableInv, [Next]_mvars PROVE DurableInv' OBVIOUS
<1>0. TypeOK /\ HeldIsSaved /\ TypeOK'
  BY TypeStep DEF DurableInv
<1>d. ASSUME phase' # "up", \A s \in Slaves : cfiles'[s] = None PROVE DurableInv'
  BY <1>0, <1>d DEF DurableInv, HeldIsSaved
<1>u. ASSUME phase' = "up", HeldIsSaved' PROVE DurableInv'
  BY <1>0, <1>u DEF DurableInv
<1>a. ASSUME NEW why, Abort(why) PROVE DurableInv'
  BY <1>a, <1>d, LoseMemoryDurable DEF Abort
<1>s. ASSUME UNCHANGED <<phase, cfiles, savedFiles, hasKey>> PROVE DurableInv'
  BY <1>0, <1>s DEF DurableInv, HeldIsSaved, None
<1>1. ASSUME NEW id \in Ids, UserAddFile(id) \/ UserDelFile(id) PROVE DurableInv'
  BY <1>1, <1>s DEF UserAddFile, UserDelFile, disk
<1>2. ASSUME NEW s \in Slaves, MaybeGrabMediaFile(s) PROVE DurableInv'
  <2>1. PICK id \in Ids :
          \/ Abort("duplicate id grabbed")
          \/ SetFile(s, id, pending[id]) /\ UNCHANGED <<phase, hasKey>>
    BY <1>2 DEF MaybeGrabMediaFile, GrabMediaFile
  <2>2. CASE Abort("duplicate id grabbed") BY <2>2, <1>a
  <2>3. CASE SetFile(s, id, pending[id]) /\ UNCHANGED <<phase, hasKey>>
    <3>1. phase = "up" BY <1>2 DEF MaybeGrabMediaFile, GrabMediaFile
    <3> QED BY <2>3, <3>1, <1>0, <1>u, SetFileDurable
  <2> QED BY <2>1, <2>2, <2>3
<1>3. ASSUME NEW s \in Slaves, HandleAddFileResult(s) PROVE DurableInv'
  <2>1. \/ UNCHANGED <<phase, cfiles, savedFiles, hasKey>>
        \/ /\ phase = "up" /\ phase' = "up" /\ hasKey' = hasKey
           /\ \E id, f : SetFile(s, id, f)
    BY <1>3 DEF HandleAddFileResult, Failure
  <2> QED BY <2>1, <1>0, <1>s, <1>u, SetFileDurable
<1>4. ASSUME NEW s \in Slaves, NEW id \in Ids, ProcessPending(s, id) PROVE DurableInv'
  BY <1>4, <1>s DEF ProcessPending, disk
<1>5. ASSUME NEW s \in Slaves, NEW id \in Ids, ProcessSlaveReady(s, id) PROVE DurableInv'
  BY <1>5, <1>a DEF ProcessSlaveReady
<1>6. CASE Start
  <2>1. /\ phase' = "up" /\ savedFiles' = savedFiles /\ hasKey' = hasKey
        /\ cfiles' = IF hasKey THEN savedFiles ELSE cfiles
    BY <1>6 DEF Start, disk
  <2>2. \A s \in Slaves : cfiles[s] = None
    BY <1>6 DEF Start, DurableInv
  <2>3. HeldIsSaved'
    BY <2>1, <2>2 DEF HeldIsSaved, None
  <2> QED BY <2>1, <2>3, <1>u
<1>7. CASE Stop
  BY <1>7, <1>d DEF Stop, None
<1>8. CASE Destroy
  BY <1>8, <1>d, LoseMemoryDurable DEF Destroy
<1>9. CASE Crash
  BY <1>9, <1>d, LoseMemoryDurable DEF Crash
<1>10. ASSUME NEW s \in Slaves, CrashInLoad(s) PROVE DurableInv'
  <2>1. phase' = "down" /\ phase = "down" /\ cfiles' = cfiles
    BY <1>10 DEF CrashInLoad
  <2>2. \A t \in Slaves : cfiles'[t] = None
    BY <2>1 DEF DurableInv
  <2> QED BY <2>1, <2>2, <1>d
<1>11. ASSUME NEW s \in Slaves, NEW res, AnswerAddFile(s, res) PROVE DurableInv'
  BY <1>11, <1>s DEF AnswerAddFile, disk
<1>12. ASSUME NEW s \in Slaves, NEW id, NEW file, NotifyStateChange(s, id, file)
       PROVE  DurableInv'
  <2>1. \/ UNCHANGED <<phase, cfiles, savedFiles, hasKey>>
        \/ phase = "up" /\ phase' = "up" /\ hasKey' = hasKey /\ SetFile(s, id, file)
    BY <1>12 DEF NotifyStateChange
  <2> QED BY <2>1, <1>0, <1>s, <1>u, SetFileDurable
<1>13. CASE UNCHANGED mvars
  BY <1>13, <1>s DEF mvars, disk
<1> QED
  BY <1>1, <1>2, <1>3, <1>4, <1>5, <1>6, <1>7, <1>8, <1>9, <1>10, <1>11, <1>12, <1>13
  DEF Next, UserStep, SlaveControllerStep, ProcessStep, AnySlaveStep

\* Before the first start nothing is held.
LEMMA DurableInit == Init => DurableInv
<1> SUFFICES ASSUME Init PROVE DurableInv OBVIOUS
<1>1. TypeOK BY TypeInit
<1>2. phase # "up" /\ \A s \in Slaves : cfiles[s] = None BY DEF Init
<1> QED BY <1>1, <1>2 DEF DurableInv, HeldIsSaved

\* What is known of every file is kept, in a step that leaves the lists alone
\* but for the end of the process.
LEMMA SameIsKept ==
  ASSUME DurableInv, UNCHANGED savedFiles,
         \/ UNCHANGED cfiles
         \/ \A t \in Slaves : cfiles'[t] = None
         \/ \A t \in Slaves : cfiles'[t] = savedFiles[t]
  PROVE  \A s \in Slaves, id \in Ids : KeepsFile(s, id)
<1> SUFFICES ASSUME NEW s \in Slaves, NEW id \in Ids PROVE KeepsFile(s, id) OBVIOUS
<1>1. Holds(cfiles[s], id) => savedFiles[s][id] = cfiles[s][id]
  BY DEF DurableInv, HeldIsSaved, None, Holds
<1>2. Holds(cfiles'[s], id) => savedFiles'[s][id] = cfiles'[s][id]
  BY <1>1 DEF None, Holds
<1>3. Known(s, id) = savedFiles[s][id] /\ Known(s, id)' = savedFiles'[s][id]
  BY <1>1, <1>2 DEF Known
<1> QED BY <1>3 DEF KeepsFile

\* Storing a file keeps the others, unless the list on disk is one that the
\* master has not loaded.
LEMMA SetFileKeeps ==
  ASSUME DurableInv, phase = "up", phase' = "up",
         NEW s \in Slaves, NEW id \in Ids, NEW f, f # NoFile, SetFile(s, id, f)
  PROVE  \A t \in Slaves, x \in Ids : KeepsFile(t, x)
<1> SUFFICES ASSUME NEW t \in Slaves, NEW x \in Ids PROVE KeepsFile(t, x) OBVIOUS
<1>1. Holds(cfiles[t], x) => savedFiles[t][x] = cfiles[t][x]
  BY DEF DurableInv, HeldIsSaved, None, Holds
<1>2. Known(t, x) = savedFiles[t][x]
  BY <1>1 DEF Known
<1>3. CASE t # s
  <2>1. cfiles'[t] = cfiles[t] /\ savedFiles'[t] = savedFiles[t]
    BY <1>3 DEF DurableInv, TypeOK, SetFile
  <2>2. Known(t, x)' = savedFiles'[t][x]
    BY <1>1, <2>1 DEF Known, Holds
  <2> QED BY <1>2, <2>1, <2>2 DEF KeepsFile
<1>4. CASE t = s
  <2>1. savedFiles'[s] = cfiles'[s] /\ cfiles'[s] = [cfiles[s] EXCEPT ![id] = f]
    BY DEF DurableInv, TypeOK, SetFile
  <2>2. Known(t, x)' = savedFiles'[t][x]
    BY <1>4, <2>1 DEF Known
  <2>3. CASE x = id
    <3>1. cfiles[s] \in FileMap BY DEF DurableInv, TypeOK
    <3>2. savedFiles'[t][x] = f BY <1>4, <2>1, <2>3, <3>1 DEF FileMap
    <3> QED BY <2>2, <3>2 DEF KeepsFile
  <2>4. CASE x # id
    <3>1. savedFiles'[t][x] = cfiles[t][x]
      BY <1>4, <2>1, <2>4 DEF DurableInv, TypeOK, FileMap
    <3>2. CASE Holds(cfiles[t], x)
      BY <1>1, <1>2, <2>2, <3>1, <3>2 DEF KeepsFile
    <3>3. CASE ~Holds(cfiles[t], x) /\ hasKey
      <4>1. savedFiles[t] = cfiles[t] BY <3>3 DEF DurableInv, HeldIsSaved
      <4> QED BY <1>2, <2>2, <3>1, <4>1 DEF KeepsFile
    <3>4. CASE ~Holds(cfiles[t], x) /\ ~hasKey
      <4>1. Known(t, x)' = NoFile BY <2>2, <3>1, <3>4 DEF Holds
      <4> QED BY <2>2, <3>4, <4>1 DEF KeepsFile, KnownLoss
    <3> QED BY <3>2, <3>3, <3>4
  <2> QED BY <2>3, <2>4
<1> QED BY <1>3, <1>4

\* Writing the lists of all controllers keeps what they hold, and what they have
\* not loaded is lost.
LEMMA StopKeeps ==
  ASSUME DurableInv, Stop
  PROVE  \A s \in Slaves, id \in Ids : KeepsFile(s, id)
<1> SUFFICES ASSUME NEW s \in Slaves, NEW id \in Ids PROVE KeepsFile(s, id) OBVIOUS
<1>1. phase = "up" /\ cfiles'[s] = None /\ savedFiles'[s] = cfiles[s]
  BY DEF Stop
<1>2. Known(s, id)' = savedFiles'[s][id]
  BY <1>1 DEF Known, Holds, None
<1>3. CASE Holds(cfiles[s], id)
  BY <1>1, <1>2, <1>3 DEF KeepsFile, Known
<1>4. CASE ~Holds(cfiles[s], id) /\ hasKey
  BY <1>1, <1>2, <1>4 DEF KeepsFile, Known, DurableInv, HeldIsSaved
<1>5. CASE ~Holds(cfiles[s], id) /\ ~hasKey
  BY <1>1, <1>2, <1>5 DEF KeepsFile, KnownLoss, Holds
<1> QED BY <1>3, <1>4, <1>5

\* A load that dies keeps the part of the list that it had loaded.
LEMMA CrashInLoadKeeps ==
  ASSUME DurableInv, NEW t \in Slaves, CrashInLoad(t)
  PROVE  \A s \in Slaves, id \in Ids : KeepsFile(s, id)
<1> SUFFICES ASSUME NEW s \in Slaves, NEW id \in Ids PROVE KeepsFile(s, id) OBVIOUS
<1>1. PICK loaded \in SUBSET {x \in Ids : Holds(savedFiles[t], x)} :
        savedFiles' = [savedFiles EXCEPT ![t] =
          [x \in Ids |-> IF x \in loaded THEN @[x] ELSE NoFile]]
  BY DEF CrashInLoad
<1>2. cfiles[s] = None /\ cfiles' = cfiles
  BY DEF DurableInv, CrashInLoad
<1>3. Known(s, id) = savedFiles[s][id] /\ Known(s, id)' = savedFiles'[s][id]
  BY <1>2 DEF Known, Holds, None
<1>4. savedFiles'[s][id] = savedFiles[s][id] \/ (s = t /\ savedFiles'[s][id] = NoFile)
  BY <1>1 DEF DurableInv, TypeOK
<1> QED BY <1>3, <1>4 DEF KeepsFile, KnownLoss

\* The second Stop() writes empty lists.
LEMMA DestroyKeeps ==
  ASSUME DurableInv, Destroy
  PROVE  \A s \in Slaves, id \in Ids : KeepsFile(s, id)
<1> SUFFICES ASSUME NEW s \in Slaves, NEW id \in Ids PROVE KeepsFile(s, id) OBVIOUS
<1>1. cfiles'[s] = None /\ savedFiles'[s] = None
  BY DEF Destroy, LoseMemory, DurableInv
<1>2. Known(s, id)' = NoFile /\ savedFiles'[s][id] = NoFile
  BY <1>1 DEF Known, Holds, None
<1> QED BY <1>2 DEF KeepsFile, KnownLoss

\* Every step keeps what is known of every file, but for the known losses.
LEMMA KeepsStep ==
  DurableInv /\ [Next]_mvars => [\A s \in Slaves, id \in Ids : KeepsFile(s, id)]_mvars
<1> DEFINE Keeps == \A s \in Slaves, id \in Ids : KeepsFile(s, id)
<1> SUFFICES ASSUME DurableInv, Next PROVE Keeps OBVIOUS
<1>t. TypeOK BY DEF DurableInv
<1>s. ASSUME UNCHANGED <<cfiles, savedFiles>> PROVE Keeps
  BY <1>s, SameIsKept
<1>l. ASSUME LoseMemory, UNCHANGED savedFiles PROVE Keeps
  BY <1>l, SameIsKept DEF LoseMemory
<1>f. ASSUME NEW s \in Slaves, NEW id \in Ids, NEW f, f # NoFile, phase = "up",
             phase' = "up", UNCHANGED <<cfiles, savedFiles>> \/ SetFile(s, id, f)
      PROVE  Keeps
  BY <1>f, <1>s, SetFileKeeps
<1> HIDE DEF Keeps
<1>1. CASE UserStep
  BY <1>1, <1>s DEF UserStep, UserAddFile, UserDelFile, disk
<1>2. ASSUME NEW s \in Slaves, MaybeGrabMediaFile(s) PROVE Keeps
  <2>1. PICK id \in Ids :
          /\ Holds(pending, id)
          /\ \/ Abort("duplicate id grabbed")
             \/ SetFile(s, id, pending[id]) /\ UNCHANGED phase
    BY <1>2 DEF MaybeGrabMediaFile, GrabMediaFile
  <2>2. CASE Abort("duplicate id grabbed") BY <2>2, <1>l DEF Abort, disk
  <2>3. CASE SetFile(s, id, pending[id]) /\ UNCHANGED phase
    <3>1. phase = "up" BY <1>2 DEF MaybeGrabMediaFile
    <3>2. pending[id] # NoFile BY <2>1 DEF Holds
    <3> QED BY <2>3, <3>1, <3>2, <1>f
  <2> QED BY <2>1, <2>2, <2>3
<1>3. ASSUME NEW s \in Slaves, HandleAddFileResult(s) PROVE Keeps
  <2> DEFINE c == Head(calls[s])
             f == [cfiles[s][c.id] EXCEPT !.err = TRUE]
  <2>1. /\ phase = "up" /\ phase' = "up"
        /\ UNCHANGED <<cfiles, savedFiles>> \/ SetFile(s, c.id, f)
    BY <1>3 DEF HandleAddFileResult, Failure
  <2>2. c.id \in Ids
    <3>1. calls[s] \in Seq(Call) /\ calls[s] # <<>>
      BY <1>3, <1>t DEF TypeOK, HandleAddFileResult
    <3>2. c \in Call BY <3>1
    <3> QED BY <3>2 DEF Call
  <2>3. f # NoFile
    BY DEF NoFile
  <2> HIDE DEF c, f
  <2> QED BY <2>1, <2>2, <2>3, <1>f
<1>4. ASSUME NEW s \in Slaves, NEW id \in Ids, ProcessPending(s, id) PROVE Keeps
  BY <1>4, <1>s DEF ProcessPending, disk
<1>5. ASSUME NEW s \in Slaves, NEW id \in Ids, ProcessSlaveReady(s, id) PROVE Keeps
  BY <1>5, <1>l DEF ProcessSlaveReady, Abort, disk
<1>6. CASE Start
  <2>1. UNCHANGED savedFiles /\ (UNCHANGED cfiles \/ cfiles' = savedFiles)
    BY <1>6 DEF Start, disk
  <2> QED BY <2>1, SameIsKept DEF Keeps
<1>7. CASE Stop BY <1>7, StopKeeps DEF Keeps
<1>8. CASE Destroy BY <1>8, DestroyKeeps DEF Keeps
<1>9. CASE Crash BY <1>9, <1>l DEF Crash, disk
<1>10. ASSUME NEW s \in Slaves, CrashInLoad(s) PROVE Keeps
  BY <1>10, CrashInLoadKeeps DEF Keeps
<1>11. ASSUME NEW s \in Slaves, NEW res, AnswerAddFile(s, res) PROVE Keeps
  BY <1>11, <1>s DEF AnswerAddFile, disk
<1>12. ASSUME NEW s \in Slaves, NEW id \in Ids, NEW file \in SlaveReports,
              NotifyStateChange(s, id, file)
       PROVE  Keeps
  <2>1. /\ phase = "up" /\ phase' = "up"
        /\ UNCHANGED <<cfiles, savedFiles>> \/ SetFile(s, id, file)
    BY <1>12 DEF NotifyStateChange
  <2>2. file # NoFile
    BY DEF SlaveReports, NoFile, ABSENT
  <2> QED BY <2>1, <2>2, <1>f
<1> QED
  BY <1>1, <1>2, <1>3, <1>4, <1>5, <1>6, <1>7, <1>8, <1>9, <1>10, <1>11, <1>12
  DEF Next, SlaveControllerStep, ProcessStep, AnySlaveStep

\* For any number of ids, slaves and lives of the master, and whatever the
\* slaves report: what a slave controller knows of a file is on disk after each
\* step, only the handlers of an up master change it, and it is lost only in
\* the known ways.
THEOREM Durability == Spec => FilesAreKept
BY DurableInit, DurableStep, KeepsStep, PTL DEF Spec, FilesAreKept

-----------------------------------------------------------------------------
(* One place for each file.  A grab moves a file from the pending list to  *)
(* one controller, and the two are saved at different times: the lists on  *)
(* disk agree only once Stop() has written both, which is when the next    *)
(* life begins from them.                                                  *)

\* An id is in one of these lists at most.
Apart(list, lists) ==
  \A id \in Ids :
    /\ \A s \in Slaves : ~(Holds(list, id) /\ Holds(lists[s], id))
    /\ \A s, t \in Slaves : s # t => ~(Holds(lists[s], id) /\ Holds(lists[t], id))

\* Every id in these lists was submitted.
Given(list, lists) ==
  \A id \in Ids :
    Holds(list, id) \/ (\E s \in Slaves : Holds(lists[s], id)) => id \in submitted

PlacesInv ==
  /\ TypeOK
  /\ Given(pending, cfiles)
  /\ Given(savedPending, savedFiles)
  /\ (~ReuseIds /\ ~crashed) =>
       /\ Apart(pending, cfiles)
       /\ phase # "up" => Apart(savedPending, savedFiles)

\* After a file is stored, ids are held as before, and this one by this slave.
LEMMA SetFileHolds ==
  ASSUME TypeOK, NEW s \in Slaves, NEW id \in Ids, NEW f, f # NoFile, SetFile(s, id, f)
  PROVE  \A t \in Slaves, x \in Ids :
           /\ Holds(cfiles'[t], x) <=> (Holds(cfiles[t], x) \/ (t = s /\ x = id))
           /\ Holds(savedFiles'[t], x) =>
                Holds(savedFiles[t], x) \/ Holds(cfiles[t], x) \/ (t = s /\ x = id)
<1> SUFFICES ASSUME NEW t \in Slaves, NEW x \in Ids
             PROVE  /\ Holds(cfiles'[t], x) <=> (Holds(cfiles[t], x) \/ (t = s /\ x = id))
                    /\ Holds(savedFiles'[t], x) =>
                         Holds(savedFiles[t], x) \/ Holds(cfiles[t], x) \/ (t = s /\ x = id)
  OBVIOUS
<1>1. Holds(cfiles'[t], x) <=> (Holds(cfiles[t], x) \/ (t = s /\ x = id))
  BY DEF TypeOK, FileMap, SetFile, Holds
<1>2. savedFiles'[t] = cfiles'[t] \/ savedFiles'[t] = savedFiles[t]
  BY DEF TypeOK, SetFile
<1> QED BY <1>1, <1>2

\* When the process ends nothing is held in memory.
LEMMA LoseMemoryHolds ==
  ASSUME LoseMemory
  PROVE  /\ phase' = "down"
         /\ \A id \in Ids : ~Holds(pending', id) /\ \A s \in Slaves : ~Holds(cfiles'[s], id)
BY DEF LoseMemory, None, Holds

\* Storing a file under an id its controller has already leaves all in place.
LEMMA SetFilePlaces ==
  ASSUME PlacesInv, TypeOK', NEW s \in Slaves, NEW id \in Ids, NEW f, f # NoFile,
         phase = "up", Holds(cfiles[s], id), SetFile(s, id, f),
         UNCHANGED <<phase, pending, savedPending, submitted, crashed>>
  PROVE  PlacesInv'
<1> USE DEF PlacesInv
<1>1. \A t \in Slaves, x \in Ids :
        /\ Holds(cfiles'[t], x) <=> Holds(cfiles[t], x)
        /\ Holds(savedFiles'[t], x) => Holds(savedFiles[t], x) \/ Holds(cfiles[t], x)
  BY SetFileHolds
<1>2. Given(pending, cfiles)' /\ Given(savedPending, savedFiles)'
  BY <1>1 DEF Given
<1>3. (~ReuseIds /\ ~crashed) => Apart(pending, cfiles)'
  BY <1>1 DEF Apart
<1> QED BY <1>2, <1>3

\* Every step keeps each file in one place.
LEMMA PlacesStep == PlacesInv /\ [Next]_mvars => PlacesInv'
<1> SUFFICES ASSUME PlacesInv, [Next]_mvars PROVE PlacesInv' OBVIOUS
<1>t. TypeOK /\ TypeOK'
  BY TypeStep DEF PlacesInv
<1>s. ASSUME UNCHANGED <<phase, pending, cfiles, savedPending, savedFiles, submitted, crashed>>
      PROVE  PlacesInv'
  BY <1>t, <1>s DEF PlacesInv, Given, Apart
<1>a. ASSUME LoseMemory, UNCHANGED <<savedPending, savedFiles, submitted>>, crashed' = TRUE
      PROVE  PlacesInv'
  BY <1>t, <1>a, LoseMemoryHolds DEF PlacesInv, Given
<1>1. ASSUME NEW id \in Ids, UserAddFile(id) PROVE PlacesInv'
  <2>1. \A x \in Ids : Holds(pending', x) <=> (Holds(pending, x) \/ x = id)
    BY <1>1, <1>t DEF UserAddFile, TypeOK, FileMap, Holds, Pending, NoFile, ABSENT
  <2>2. /\ submitted' = submitted \cup {id}
        /\ phase' = "up"
        /\ UNCHANGED <<cfiles, savedPending, savedFiles, crashed>>
        /\ ReuseIds \/ id \notin submitted
    BY <1>1 DEF UserAddFile, disk
  <2>3. Given(pending, cfiles)' /\ Given(savedPending, savedFiles)'
    BY <2>1, <2>2 DEF PlacesInv, Given
  <2>4. (~ReuseIds /\ ~crashed) => Apart(pending, cfiles)'
    BY <2>1, <2>2 DEF PlacesInv, Given, Apart
  <2> QED BY <1>t, <2>2, <2>3, <2>4 DEF PlacesInv
<1>2. ASSUME NEW id \in Ids, UserDelFile(id) PROVE PlacesInv'
  <2>1. \A x \in Ids : Holds(pending', x) => Holds(pending, x)
    BY <1>2, <1>t DEF UserDelFile, TypeOK, FileMap, Holds
  <2>2. UNCHANGED <<phase, cfiles, savedPending, savedFiles, submitted, crashed>>
    BY <1>2 DEF UserDelFile, disk
  <2> QED BY <1>t, <2>1, <2>2 DEF PlacesInv, Given, Apart
<1>3. ASSUME NEW s \in Slaves, MaybeGrabMediaFile(s) PROVE PlacesInv'
  <2>1. PICK id \in Ids :
          /\ Holds(pending, id)
          /\ \/ Abort("duplicate id grabbed")
             \/ /\ pending' = [pending EXCEPT ![id] = NoFile]
                /\ SetFile(s, id, pending[id])
                /\ UNCHANGED <<phase, savedPending, submitted, crashed>>
    BY <1>3 DEF MaybeGrabMediaFile, GrabMediaFile, history
  <2>2. CASE Abort("duplicate id grabbed")
    BY <2>2, <1>a DEF Abort, disk
  <2>3. CASE /\ pending' = [pending EXCEPT ![id] = NoFile]
             /\ SetFile(s, id, pending[id])
             /\ UNCHANGED <<phase, savedPending, submitted, crashed>>
    <3>1. \A t \in Slaves, x \in Ids :
            /\ Holds(cfiles'[t], x) <=> (Holds(cfiles[t], x) \/ (t = s /\ x = id))
            /\ Holds(savedFiles'[t], x) =>
                 Holds(savedFiles[t], x) \/ Holds(cfiles[t], x) \/ (t = s /\ x = id)
      BY <1>t, <2>1, <2>3, SetFileHolds DEF Holds
    <3>2. \A x \in Ids : Holds(pending', x) <=> (Holds(pending, x) /\ x # id)
      BY <2>3, <1>t DEF TypeOK, FileMap, Holds
    <3>3. Given(pending, cfiles)' /\ Given(savedPending, savedFiles)'
      BY <2>1, <2>3, <3>1, <3>2 DEF PlacesInv, Given
    <3>4. (~ReuseIds /\ ~crashed) => Apart(pending, cfiles)'
      <4> SUFFICES ASSUME ~ReuseIds, ~crashed, NEW x \in Ids
                   PROVE  /\ \A t \in Slaves : ~(Holds(pending', x) /\ Holds(cfiles'[t], x))
                          /\ \A t, u \in Slaves : t # u =>
                               ~(Holds(cfiles'[t], x) /\ Holds(cfiles'[u], x))
        BY DEF Apart
      <4>1. \A t \in Slaves : ~(Holds(pending, x) /\ Holds(cfiles[t], x))
        BY DEF PlacesInv, Apart
      <4>2. \A t, u \in Slaves : t # u => ~(Holds(cfiles[t], x) /\ Holds(cfiles[u], x))
        BY DEF PlacesInv, Apart
      <4>3. CASE x = id
        BY <2>1, <3>1, <3>2, <4>1, <4>3
      <4>4. CASE x # id
        BY <3>1, <3>2, <4>1, <4>2, <4>4
      <4> QED BY <4>3, <4>4
    <3>5. phase' = "up"
      BY <1>3, <2>3 DEF MaybeGrabMediaFile, GrabMediaFile
    <3> QED BY <1>t, <2>3, <3>3, <3>4, <3>5 DEF PlacesInv
  <2> QED BY <2>1, <2>2, <2>3
<1>4. ASSUME NEW s \in Slaves, HandleAddFileResult(s) PROVE PlacesInv'
  <2> DEFINE c == Head(calls[s])
             f == [cfiles[s][c.id] EXCEPT !.err = TRUE]
  <2>1. /\ phase = "up"
        /\ UNCHANGED <<phase, pending, savedPending, submitted, crashed>>
        /\ \/ UNCHANGED <<cfiles, savedFiles>>
           \/ Holds(cfiles[s], c.id) /\ SetFile(s, c.id, f)
    BY <1>4 DEF HandleAddFileResult, Failure, history
  <2>2. c.id \in Ids
    <3>1. calls[s] \in Seq(Call) /\ calls[s] # <<>>
      BY <1>4, <1>t DEF TypeOK, HandleAddFileResult
    <3>2. c \in Call BY <3>1
    <3> QED BY <3>2 DEF Call
  <2>3. CASE UNCHANGED <<cfiles, savedFiles>> BY <2>1, <2>3, <1>s
  <2>4. CASE Holds(cfiles[s], c.id) /\ SetFile(s, c.id, f)
    <3>1. f # NoFile
      BY DEF NoFile
    <3> HIDE DEF c, f
    <3> QED BY <1>t, <2>1, <2>2, <2>4, <3>1, SetFilePlaces
  <2> QED BY <2>1, <2>3, <2>4
<1>5. ASSUME NEW s \in Slaves, NEW id \in Ids, ProcessPending(s, id) PROVE PlacesInv'
  BY <1>5, <1>s DEF ProcessPending, disk, history
<1>6. ASSUME NEW s \in Slaves, NEW id \in Ids, ProcessSlaveReady(s, id) PROVE PlacesInv'
  BY <1>6, <1>a DEF ProcessSlaveReady, Abort, disk
<1>7. CASE Start
  <2>1. /\ phase = "down" /\ phase' = "up"
        /\ UNCHANGED <<savedPending, savedFiles, submitted, crashed>>
        /\ \/ pending' = savedPending /\ cfiles' = savedFiles
           \/ pending' = pending /\ cfiles' = cfiles
    BY <1>7 DEF Start, disk
  <2> QED BY <1>t, <2>1 DEF PlacesInv, Given, Apart
<1>8. CASE Stop
  <2>1. /\ phase = "up" /\ savedFiles' = cfiles /\ savedPending' = pending
        /\ \A s \in Slaves, id \in Ids : ~Holds(cfiles'[s], id)
        /\ UNCHANGED <<pending, submitted, crashed>>
    BY <1>8 DEF Stop, None, Holds
  <2> QED BY <1>t, <2>1 DEF PlacesInv, Given, Apart
<1>9. CASE Destroy
  <2>1. /\ \A id \in Ids : ~Holds(pending', id) /\ \A s \in Slaves : ~Holds(cfiles'[s], id)
        /\ savedFiles' = cfiles /\ savedPending' = pending
        /\ UNCHANGED <<submitted, crashed>>
    BY <1>9, LoseMemoryHolds DEF Destroy
  <2> QED BY <1>t, <2>1 DEF PlacesInv, Given, Apart
<1>10. CASE Crash
  BY <1>10, <1>a DEF Crash, disk
<1>11. ASSUME NEW s \in Slaves, CrashInLoad(s) PROVE PlacesInv'
  <2>1. PICK loaded \in SUBSET {id \in Ids : Holds(savedFiles[s], id)} :
          savedFiles' = [savedFiles EXCEPT ![s] =
            [id \in Ids |-> IF id \in loaded THEN @[id] ELSE NoFile]]
    BY <1>11 DEF CrashInLoad
  <2>2. \A t \in Slaves, x \in Ids : Holds(savedFiles'[t], x) => Holds(savedFiles[t], x)
    BY <2>1, <1>t DEF TypeOK, FileMap, Holds
  <2>3. crashed' = TRUE /\ UNCHANGED <<pending, cfiles, savedPending, submitted>>
    BY <1>11 DEF CrashInLoad
  <2> QED BY <1>t, <2>2, <2>3 DEF PlacesInv, Given
<1>12. ASSUME NEW s \in Slaves, NEW res, AnswerAddFile(s, res) PROVE PlacesInv'
  BY <1>12, <1>s DEF AnswerAddFile, disk, history
<1>13. ASSUME NEW s \in Slaves, NEW id \in Ids, NEW file \in SlaveReports,
              NotifyStateChange(s, id, file)
       PROVE  PlacesInv'
  <2>1. /\ phase = "up"
        /\ UNCHANGED <<phase, pending, savedPending, submitted, crashed>>
        /\ \/ UNCHANGED <<cfiles, savedFiles>>
           \/ Holds(cfiles[s], id) /\ SetFile(s, id, file)
    BY <1>13 DEF NotifyStateChange, history
  <2>2. file # NoFile
    BY DEF SlaveReports, NoFile, ABSENT
  <2> QED BY <1>t, <2>1, <2>2, <1>s, SetFilePlaces
<1>14. CASE UNCHANGED mvars
  BY <1>14, <1>s DEF mvars, disk, history
<1> QED
  BY <1>1, <1>2, <1>3, <1>4, <1>5, <1>6, <1>7, <1>8, <1>9, <1>10, <1>11, <1>12,
     <1>13, <1>14
  DEF Next, UserStep, SlaveControllerStep, ProcessStep, AnySlaveStep

\* Before the first start no file is anywhere.
LEMMA PlacesInit == Init => PlacesInv
<1> SUFFICES ASSUME Init PROVE PlacesInv OBVIOUS
<1>1. \A id \in Ids : /\ ~Holds(pending, id) /\ ~Holds(savedPending, id)
                      /\ \A s \in Slaves : ~Holds(cfiles[s], id) /\ ~Holds(savedFiles[s], id)
  BY DEF Init, None, Holds
<1> QED BY <1>1, TypeInit DEF PlacesInv, Given, Apart

\* With ids that are not reused and no crash, a file is with the manager or
\* with one slave, however often the master is stopped and started.
THEOREM SinglePlace == Spec => []OnePlace
<1>1. PlacesInv => OnePlace
  BY DEF PlacesInv, OnePlace, Apart
<1> QED BY <1>1, PlacesInit, PlacesStep, PTL DEF Spec

-----------------------------------------------------------------------------
(* Nothing is forgotten in the first life.                                 *)

KeptInv ==
  /\ TypeOK
  /\ NothingForgotten
  /\ starts = 0 => submitted = {} /\ phase = "down"

\* What is kept stays kept when lists of the controllers only gain ids.
LEMMA KeptGrows ==
  ASSUME KeptInv, TypeOK', UNCHANGED <<phase, pending, submitted, deleted, starts>>,
         \A s \in Slaves, id \in Ids : Holds(cfiles[s], id) => Holds(cfiles'[s], id)
  PROVE  KeptInv'
<1>1. submitted \subseteq Ids BY DEF KeptInv, TypeOK
<1> QED BY <1>1 DEF KeptInv, NothingForgotten

\* Every step of the first life keeps every file users submitted.
LEMMA KeptStep == KeptInv /\ [Next]_mvars => KeptInv'
<1> SUFFICES ASSUME KeptInv, [Next]_mvars PROVE KeptInv' OBVIOUS
<1>t. TypeOK /\ TypeOK' /\ submitted \subseteq Ids /\ starts \in Nat
  BY TypeStep DEF KeptInv, TypeOK
<1>s. ASSUME UNCHANGED <<phase, pending, cfiles, submitted, deleted, starts>> PROVE KeptInv'
  BY <1>t, <1>s, KeptGrows
<1>d. ASSUME phase' # "up", starts' # 0 PROVE KeptInv'
  BY <1>t, <1>d DEF KeptInv, NothingForgotten
<1>e. ASSUME phase # "down", phase' # "up", starts' = starts PROVE KeptInv'
  BY <1>d, <1>e DEF KeptInv
<1>f. ASSUME NEW s \in Slaves, NEW id \in Ids, NEW f, f # NoFile, SetFile(s, id, f),
             UNCHANGED <<phase, pending, submitted, deleted, starts>>
      PROVE  KeptInv'
  BY <1>t, <1>f, SetFileHolds, KeptGrows
<1>1. ASSUME NEW id \in Ids, UserAddFile(id) PROVE KeptInv'
  <2>1. \A x \in Ids : Holds(pending', x) <=> (Holds(pending, x) \/ x = id)
    BY <1>1, <1>t DEF UserAddFile, TypeOK, FileMap, Holds, Pending, NoFile, ABSENT
  <2>2. /\ phase = "up" /\ submitted' = submitted \cup {id} /\ deleted' = deleted \ {id}
        /\ UNCHANGED <<phase, cfiles, starts>>
    BY <1>1 DEF UserAddFile
  <2> QED BY <1>t, <2>1, <2>2 DEF KeptInv, NothingForgotten
<1>2. ASSUME NEW id \in Ids, UserDelFile(id) PROVE KeptInv'
  <2>1. \A x \in Ids \ {id} : Holds(pending, x) => Holds(pending', x)
    BY <1>2, <1>t DEF UserDelFile, TypeOK, FileMap, Holds
  <2>2. /\ phase = "up" /\ deleted' = deleted \cup {id}
        /\ UNCHANGED <<phase, cfiles, submitted, starts>>
    BY <1>2 DEF UserDelFile
  <2> QED BY <1>t, <2>1, <2>2 DEF KeptInv, NothingForgotten
<1>3. ASSUME NEW s \in Slaves, MaybeGrabMediaFile(s) PROVE KeptInv'
  <2>1. PICK id \in Ids :
          /\ Holds(pending, id)
          /\ \/ Abort("duplicate id grabbed")
             \/ /\ pending' = [pending EXCEPT ![id] = NoFile]
                /\ SetFile(s, id, pending[id])
                /\ UNCHANGED <<phase, submitted, deleted, starts>>
    BY <1>3 DEF MaybeGrabMediaFile, GrabMediaFile, history
  <2>2. CASE Abort("duplicate id grabbed")
    <3>1. phase = "up" /\ phase' = "down" /\ starts' = starts
      BY <1>3, <2>2 DEF MaybeGrabMediaFile, Abort, LoseMemory
    <3> QED BY <3>1, <1>e
  <2>3. CASE /\ pending' = [pending EXCEPT ![id] = NoFile]
             /\ SetFile(s, id, pending[id])
             /\ UNCHANGED <<phase, submitted, deleted, starts>>
    <3>1. \A t \in Slaves, x \in Ids :
            Holds(cfiles'[t], x) <=> (Holds(cfiles[t], x) \/ (t = s /\ x = id))
      BY <1>t, <2>1, <2>3, SetFileHolds DEF Holds
    <3>2. \A x \in Ids \ {id} : Holds(pending, x) => Holds(pending', x)
      BY <2>3, <1>t DEF TypeOK, FileMap, Holds
    <3> QED BY <1>t, <2>3, <3>1, <3>2 DEF KeptInv, NothingForgotten
  <2> QED BY <2>1, <2>2, <2>3
<1>4. ASSUME NEW s \in Slaves, HandleAddFileResult(s) PROVE KeptInv'
  <2> DEFINE c == Head(calls[s])
             f == [cfiles[s][c.id] EXCEPT !.err = TRUE]
  <2>1. /\ UNCHANGED <<phase, pending, submitted, deleted, starts>>
        /\ UNCHANGED cfiles \/ SetFile(s, c.id, f)
    BY <1>4 DEF HandleAddFileResult, Failure, history
  <2>2. c.id \in Ids
    <3>1. calls[s] \in Seq(Call) /\ calls[s] # <<>>
      BY <1>4, <1>t DEF TypeOK, HandleAddFileResult
    <3>2. c \in Call BY <3>1
    <3> QED BY <3>2 DEF Call
  <2>3. f # NoFile
    BY DEF NoFile
  <2> HIDE DEF c, f
  <2> QED BY <2>1, <2>2, <2>3, <1>s, <1>f
<1>5. ASSUME NEW s \in Slaves, NEW id \in Ids, ProcessPending(s, id) PROVE KeptInv'
  BY <1>5, <1>s DEF ProcessPending, history
<1>6. ASSUME NEW s \in Slaves, NEW id \in Ids, ProcessSlaveReady(s, id) PROVE KeptInv'
  <2>1. phase = "up" /\ phase' = "down" /\ starts' = starts
    BY <1>6 DEF ProcessSlaveReady, Abort, LoseMemory
  <2> QED BY <2>1, <1>e
<1>7. CASE Start
  <2>1. phase = "down" /\ starts' = starts + 1 /\ UNCHANGED <<submitted, deleted>>
    BY <1>7 DEF Start
  <2>2. CASE starts = 0
    BY <1>t, <2>1, <2>2 DEF KeptInv, NothingForgotten
  <2>3. CASE starts # 0
    <3>1. starts' # 0 /\ starts' # 1 BY <1>t, <2>1, <2>3
    <3> QED BY <1>t, <3>1 DEF KeptInv, NothingForgotten
  <2> QED BY <2>2, <2>3
<1>8. CASE Stop
  BY <1>8, <1>e DEF Stop
<1>9. CASE Destroy
  BY <1>9, <1>e, LoseMemoryHolds DEF Destroy
<1>10. CASE Crash
  BY <1>10, <1>e, LoseMemoryHolds DEF Crash
<1>11. ASSUME NEW s \in Slaves, CrashInLoad(s) PROVE KeptInv'
  BY <1>11, <1>s DEF CrashInLoad
<1>12. ASSUME NEW s \in Slaves, NEW res, AnswerAddFile(s, res) PROVE KeptInv'
  BY <1>12, <1>s DEF AnswerAddFile, history
<1>13. ASSUME NEW s \in Slaves, NEW id \in Ids, NEW file \in SlaveReports,
              NotifyStateChange(s, id, file)
       PROVE  KeptInv'
  <2>1. /\ UNCHANGED <<phase, pending, submitted, deleted, starts>>
        /\ UNCHANGED cfiles \/ SetFile(s, id, file)
    BY <1>13 DEF NotifyStateChange, history
  <2>2. file # NoFile
    BY DEF SlaveReports, NoFile, ABSENT
  <2> QED BY <2>1, <2>2, <1>s, <1>f
<1>14. CASE UNCHANGED mvars
  BY <1>14, <1>s DEF mvars, history
<1> QED
  BY <1>1, <1>2, <1>3, <1>4, <1>5, <1>6, <1>7, <1>8, <1>9, <1>10, <1>11, <1>12,
     <1>13, <1>14
  DEF Next, UserStep, SlaveControllerStep, ProcessStep, AnySlaveStep

\* In the first life of a master every submitted file is with the manager or
\* with a slave until a user deletes it, whatever the slaves do.
THEOREM NothingLost == Spec => []NothingForgotten
<1>1. Init => KeptInv
  BY TypeInit DEF Init, KeptInv, NothingForgotten
<1>2. KeptInv => NothingForgotten
  BY DEF KeptInv
<1> QED BY <1>1, <1>2, KeptStep, PTL DEF Spec

-----------------------------------------------------------------------------
(* What a file is shown to be, and where it can be, from the outside.      *)

\* Files that wait for a slave are PENDING.
Waits(list) == \A id \in Ids : list[id] \in {NoFile, Pending}

WaitInv == TypeOK /\ Waits(pending) /\ Waits(savedPending)

\* The states in which slave controller s keeps a file, in memory or on disk.
KeptStates(s, id) == {cfiles[s][id].st, savedFiles[s][id].st}

\* Every state in memory or on disk was there before, or is that of a new file.
StatesKept ==
  \A s \in Slaves, id \in Ids :
    KeptStates(s, id)' \subseteq KeptStates(s, id) \cup {ABSENT, "PENDING"}

\* What the master shows of a file: while it is down, what it has on disk.
ShownState(s, id) == IF phase = "up" THEN cfiles[s][id].st ELSE savedFiles[s][id].st

\* It forgets files, or recalls forgotten ones, but shows no news.
NoNews ==
  \A s \in Slaves, id \in Ids :
    \/ ShownState(s, id) = ABSENT
    \/ ShownState(s, id)' \in {ABSENT, ShownState(s, id)}

\* A quiet step tells the master nothing of the slaves.
QuietStep ==
  \/ UserStep
  \/ SlaveControllerStep
  \/ ProcessStep
  \/ \E s \in Slaves, res \in Result \ {"sent"} : AnswerAddFile(s, res)

\* No file is in a state.
LEMMA NoFileStates ==
  /\ \A id \in Ids : None[id] = NoFile
  /\ NoFile.st = ABSENT /\ Pending.st = "PENDING"
  /\ \A f \in MaybeFile : f # NoFile <=> f.st # ABSENT
BY DEF None, NoFile, Pending, MaybeFile, File, FState, SlaveStates, MasterStates, ABSENT

\* A file is stored, in a state that is old or new.
LEMMA SetFileStates ==
  ASSUME TypeOK, NEW s \in Slaves, NEW id \in Ids, NEW f, SetFile(s, id, f)
  PROVE  /\ cfiles'[s][id] = f
         /\ \A t \in Slaves, x \in Ids :
              /\ t # s \/ x # id => cfiles'[t][x] = cfiles[t][x]
              /\ savedFiles'[t][x] = IF t = s THEN cfiles'[t][x] ELSE savedFiles[t][x]
BY DEF TypeOK, FileMap, SetFile

\* The process ends: the lists on disk stay.
LEMMA LostStates ==
  ASSUME DurableInv, phase = "up", LoseMemory, UNCHANGED savedFiles
  PROVE  StatesKept /\ NoNews
<1>1. /\ phase' = "down"
      /\ \A s \in Slaves, id \in Ids :
           cfiles'[s][id].st = ABSENT /\ savedFiles'[s][id] = savedFiles[s][id]
  BY NoFileStates DEF LoseMemory
<1>2. StatesKept BY <1>1 DEF StatesKept, KeptStates
<1>3. ASSUME NEW s \in Slaves, NEW id \in Ids
      PROVE  cfiles[s][id].st \in {ABSENT, savedFiles[s][id].st}
  <2>1. CASE cfiles[s] = None BY <2>1, NoFileStates
  <2>2. CASE savedFiles[s] = cfiles[s] BY <2>2
  <2> QED BY <2>1, <2>2 DEF DurableInv, HeldIsSaved
<1>4. NoNews BY <1>1, <1>3 DEF NoNews, ShownState
<1> QED BY <1>2, <1>4

\* Files that stay in their states.
LEMMA SameStates ==
  ASSUME UNCHANGED phase,
         \A s \in Slaves, id \in Ids :
           /\ cfiles'[s][id].st = cfiles[s][id].st
           /\ savedFiles'[s][id].st \in KeptStates(s, id)
           /\ phase # "up" => savedFiles'[s][id].st \in {ABSENT, savedFiles[s][id].st}
  PROVE  StatesKept /\ NoNews
BY DEF StatesKept, NoNews, KeptStates, ShownState

\* A quiet step changes no state, but for new files and lost ones.
LEMMA QuietStates ==
  ASSUME DurableInv, WaitInv, QuietStep
  PROVE  StatesKept /\ NoNews
<1>t. TypeOK BY DEF DurableInv
<1>s. ASSUME UNCHANGED <<phase, cfiles, savedFiles>> PROVE StatesKept /\ NoNews
  <2>1. \A s \in Slaves, id \in Ids : savedFiles'[s][id].st \in KeptStates(s, id)
    BY <1>s DEF KeptStates
  <2> QED BY <1>s, <2>1, SameStates
<1>a. ASSUME NEW why, phase = "up", Abort(why) PROVE StatesKept /\ NoNews
  BY <1>a, LostStates DEF Abort, disk
<1>1. CASE UserStep BY <1>1, <1>s DEF UserStep, UserAddFile, UserDelFile, disk
<1>2. ASSUME NEW s \in Slaves, MaybeGrabMediaFile(s) PROVE StatesKept /\ NoNews
  <2>0. phase = "up" BY <1>2 DEF MaybeGrabMediaFile
  <2>1. PICK id \in Ids :
          /\ Holds(pending, id)
          /\ \/ Abort("duplicate id grabbed")
             \/ ~Holds(cfiles[s], id) /\ SetFile(s, id, pending[id]) /\ UNCHANGED phase
    BY <1>2 DEF MaybeGrabMediaFile
  <2>2. CASE Abort("duplicate id grabbed") BY <2>0, <2>2, <1>a
  <2>3. CASE ~Holds(cfiles[s], id) /\ SetFile(s, id, pending[id]) /\ UNCHANGED phase
    <3>1. pending[id].st = "PENDING" BY <2>1, NoFileStates DEF WaitInv, Waits, Holds
    <3>2. cfiles[s][id].st = ABSENT BY <2>3, NoFileStates DEF Holds
    <3>3. /\ cfiles'[s][id] = pending[id]
          /\ \A t \in Slaves, x \in Ids :
               /\ t # s \/ x # id => cfiles'[t][x] = cfiles[t][x]
               /\ savedFiles'[t][x] = IF t = s THEN cfiles'[t][x] ELSE savedFiles[t][x]
      BY <1>t, <2>3, SetFileStates
    <3>4. StatesKept BY <3>1, <3>3 DEF StatesKept, KeptStates
    <3>5. NoNews BY <2>0, <2>3, <3>2, <3>3 DEF NoNews, ShownState
    <3> QED BY <3>4, <3>5
  <2> QED BY <2>1, <2>2, <2>3
<1>3. ASSUME NEW s \in Slaves, HandleAddFileResult(s) PROVE StatesKept /\ NoNews
  <2> DEFINE c == Head(calls[s])
             f == [cfiles[s][c.id] EXCEPT !.err = TRUE]
  <2>1. /\ phase = "up" /\ UNCHANGED phase
        /\ \/ UNCHANGED <<cfiles, savedFiles>>
           \/ SetFile(s, c.id, f)
    BY <1>3 DEF HandleAddFileResult, Failure
  <2>2. c.id \in Ids
    <3>1. calls[s] \in Seq(Call) /\ calls[s] # <<>>
      BY <1>3, <1>t DEF TypeOK, HandleAddFileResult
    <3>2. c \in Call BY <3>1
    <3> QED BY <3>2 DEF Call
  <2>3. f.st = cfiles[s][c.id].st
    <3>1. cfiles[s][c.id] \in MaybeFile BY <1>t, <2>2 DEF TypeOK, FileMap
    <3> QED BY <3>1 DEF MaybeFile, File, NoFile
  <2> HIDE DEF c, f
  <2>4. CASE UNCHANGED <<cfiles, savedFiles>> BY <2>1, <2>4, <1>s
  <2>5. CASE SetFile(s, c.id, f)
    <3>1. /\ cfiles'[s][c.id] = f
          /\ \A t \in Slaves, x \in Ids :
               /\ t # s \/ x # c.id => cfiles'[t][x] = cfiles[t][x]
               /\ savedFiles'[t][x] = IF t = s THEN cfiles'[t][x] ELSE savedFiles[t][x]
      BY <1>t, <2>2, <2>5, SetFileStates
    <3>2. \A t \in Slaves, x \in Ids : cfiles'[t][x].st = cfiles[t][x].st
      BY <2>3, <3>1
    <3>3. \A t \in Slaves, x \in Ids : savedFiles'[t][x].st \in KeptStates(t, x)
      BY <3>1, <3>2 DEF KeptStates
    <3> QED BY <2>1, <3>2, <3>3, SameStates
  <2> QED BY <2>1, <2>4, <2>5
<1>4. ASSUME NEW s \in Slaves, NEW id \in Ids, ProcessPending(s, id) \/ ProcessSlaveReady(s, id)
      PROVE  StatesKept /\ NoNews
  <2>1. CASE ProcessPending(s, id) BY <2>1, <1>s DEF ProcessPending, disk
  <2>2. CASE ProcessSlaveReady(s, id) BY <2>2, <1>a DEF ProcessSlaveReady
  <2> QED BY <1>4, <2>1, <2>2
<1>5. CASE SlaveControllerStep BY <1>2, <1>3, <1>4, <1>5 DEF SlaveControllerStep
<1>6. CASE Start
  <2>1. phase = "down" /\ phase' = "up" /\ savedFiles' = savedFiles
        /\ (cfiles' = savedFiles \/ cfiles' = cfiles)
    BY <1>6 DEF Start, disk
  <2>2. \A s \in Slaves, id \in Ids : cfiles[s][id].st = ABSENT
    BY <2>1, NoFileStates DEF DurableInv
  <2>3. StatesKept BY <2>1 DEF StatesKept, KeptStates
  <2>4. NoNews BY <2>1, <2>2 DEF NoNews, ShownState
  <2> QED BY <2>3, <2>4
<1>7. CASE Stop
  <2>1. /\ phase = "up" /\ phase' = "stopped" /\ savedFiles' = cfiles
        /\ \A s \in Slaves, id \in Ids : cfiles'[s][id].st = ABSENT
    BY <1>7, NoFileStates DEF Stop
  <2>2. StatesKept BY <2>1 DEF StatesKept, KeptStates
  <2>3. NoNews BY <2>1 DEF NoNews, ShownState
  <2> QED BY <2>2, <2>3
<1>8. CASE Destroy
  <2>1. /\ phase = "stopped" /\ phase' = "down" /\ savedFiles' = cfiles
        /\ \A s \in Slaves, id \in Ids : cfiles'[s][id].st = ABSENT
    BY <1>8, NoFileStates DEF Destroy, LoseMemory
  <2>2. \A s \in Slaves, id \in Ids : cfiles[s][id].st = ABSENT
    BY <2>1, NoFileStates DEF DurableInv
  <2>3. StatesKept BY <2>1 DEF StatesKept, KeptStates
  <2>4. NoNews BY <2>1, <2>2 DEF NoNews, ShownState
  <2> QED BY <2>3, <2>4
<1>9. CASE Crash
  <2>1. LoseMemory /\ UNCHANGED savedFiles /\ phase \in {"up", "stopped"} BY <1>9 DEF Crash, disk
  <2>2. CASE phase = "up" BY <2>1, <2>2, LostStates
  <2>3. CASE phase # "up"
    <3>1. /\ phase' = "down"
          /\ \A s \in Slaves, id \in Ids : cfiles'[s][id].st = ABSENT
      BY <2>1, NoFileStates DEF LoseMemory
    <3>2. StatesKept BY <2>1, <3>1 DEF StatesKept, KeptStates
    <3>3. NoNews BY <2>1, <2>3, <3>1 DEF NoNews, ShownState
    <3> QED BY <3>2, <3>3
  <2> QED BY <2>2, <2>3
<1>10. ASSUME NEW s \in Slaves, CrashInLoad(s) PROVE StatesKept /\ NoNews
  <2>1. PICK loaded \in SUBSET {id \in Ids : Holds(savedFiles[s], id)} :
          savedFiles' = [savedFiles EXCEPT ![s] =
            [id \in Ids |-> IF id \in loaded THEN @[id] ELSE NoFile]]
    BY <1>10 DEF CrashInLoad
  <2>2. phase = "down" /\ UNCHANGED <<phase, cfiles>> BY <1>10 DEF CrashInLoad
  <2>3. \A t \in Slaves, x \in Ids : savedFiles'[t][x].st \in {ABSENT, savedFiles[t][x].st}
    BY <1>t, <2>1, NoFileStates DEF TypeOK, FileMap
  <2>4. StatesKept BY <2>2, <2>3 DEF StatesKept, KeptStates
  <2>5. NoNews BY <2>2, <2>3 DEF NoNews, ShownState
  <2> QED BY <2>4, <2>5
<1>11. CASE ProcessStep BY <1>6, <1>7, <1>8, <1>9, <1>10, <1>11 DEF ProcessStep
<1>12. ASSUME NEW s \in Slaves, NEW res, AnswerAddFile(s, res) PROVE StatesKept /\ NoNews
  BY <1>12, <1>s DEF AnswerAddFile, disk
<1> QED BY <1>1, <1>5, <1>11, <1>12 DEF QuietStep

\* Files that wait are PENDING, to begin with.
LEMMA WaitInit == Init => WaitInv
<1> SUFFICES ASSUME Init PROVE WaitInv OBVIOUS
<1>1. pending = None /\ savedPending = None BY DEF Init
<1>2. Waits(pending) /\ Waits(savedPending) BY <1>1, NoFileStates DEF Waits
<1> QED BY <1>2, TypeInit DEF WaitInv

\* Every step keeps the files that wait PENDING.
LEMMA WaitStep == WaitInv /\ [Next]_mvars => WaitInv'
<1> SUFFICES ASSUME WaitInv, [Next]_mvars PROVE WaitInv' OBVIOUS
<1>t. TypeOK /\ TypeOK' /\ Waits(pending) /\ Waits(savedPending)
  BY TypeStep DEF WaitInv
<1>s. ASSUME \A id \in Ids : pending'[id] \in {NoFile, Pending, pending[id]},
             savedPending' \in {pending, savedPending}
      PROVE  WaitInv'
  BY <1>t, <1>s DEF WaitInv, Waits
<1>u. ASSUME UNCHANGED <<pending, savedPending>> PROVE WaitInv'
  BY <1>u, <1>s
<1>a. ASSUME LoseMemory, savedPending' \in {pending, savedPending} PROVE WaitInv'
  BY <1>a, <1>s, NoFileStates DEF LoseMemory
<1>1. CASE UserStep
  <2>1. ASSUME NEW id \in Ids, UserAddFile(id) PROVE WaitInv'
    BY <2>1, <1>s, <1>t DEF UserAddFile, disk, TypeOK, FileMap
  <2>2. ASSUME NEW id \in Ids, UserDelFile(id) PROVE WaitInv'
    BY <2>2, <1>s, <1>t DEF UserDelFile, disk, TypeOK, FileMap
  <2> QED BY <1>1, <2>1, <2>2 DEF UserStep
<1>2. CASE SlaveControllerStep
  <2>1. ASSUME NEW s \in Slaves, MaybeGrabMediaFile(s) PROVE WaitInv'
    <3>1. PICK id \in Ids :
            \/ Abort("duplicate id grabbed")
            \/ pending' = [pending EXCEPT ![id] = NoFile] /\ UNCHANGED savedPending
      BY <2>1 DEF MaybeGrabMediaFile, GrabMediaFile
    <3>2. CASE Abort("duplicate id grabbed") BY <3>2, <1>a DEF Abort, disk
    <3>3. CASE pending' = [pending EXCEPT ![id] = NoFile] /\ UNCHANGED savedPending
      BY <3>3, <1>s, <1>t DEF TypeOK, FileMap
    <3> QED BY <3>1, <3>2, <3>3
  <2>2. ASSUME NEW s \in Slaves, HandleAddFileResult(s) PROVE WaitInv'
    BY <2>2, <1>u DEF HandleAddFileResult
  <2>3. ASSUME NEW s \in Slaves, NEW id \in Ids, ProcessPending(s, id) PROVE WaitInv'
    BY <2>3, <1>u DEF ProcessPending, disk
  <2>4. ASSUME NEW s \in Slaves, NEW id \in Ids, ProcessSlaveReady(s, id) PROVE WaitInv'
    BY <2>4, <1>a DEF ProcessSlaveReady, Abort, disk
  <2> QED BY <1>2, <2>1, <2>2, <2>3, <2>4 DEF SlaveControllerStep
<1>3. CASE ProcessStep
  <2>1. CASE Start
    <3>1. pending' \in {pending, savedPending} /\ UNCHANGED savedPending BY <2>1 DEF Start, disk
    <3> QED BY <1>t, <3>1 DEF WaitInv, Waits
  <2>2. CASE Stop BY <2>2, <1>s DEF Stop
  <2>3. CASE Destroy BY <2>3, <1>a DEF Destroy
  <2>4. CASE Crash BY <2>4, <1>a DEF Crash, disk
  <2>5. ASSUME NEW s \in Slaves, CrashInLoad(s) PROVE WaitInv'
    BY <2>5, <1>u DEF CrashInLoad
  <2> QED BY <1>3, <2>1, <2>2, <2>3, <2>4, <2>5 DEF ProcessStep
<1>4. CASE AnySlaveStep
  <2>1. ASSUME NEW s \in Slaves, NEW res, AnswerAddFile(s, res) PROVE WaitInv'
    BY <2>1, <1>u DEF AnswerAddFile, disk
  <2>2. ASSUME NEW s \in Slaves, NEW id, NEW file, NotifyStateChange(s, id, file) PROVE WaitInv'
    BY <2>2, <1>u DEF NotifyStateChange
  <2> QED BY <1>4, <2>1, <2>2 DEF AnySlaveStep
<1>5. CASE UNCHANGED mvars BY <1>5, <1>u DEF mvars, disk
<1> QED BY <1>1, <1>2, <1>3, <1>4, <1>5 DEF Next

\* What a notification changes: the state of a file the controller has.
LEMMA NotifyStates ==
  ASSUME TypeOK, NEW s \in Slaves, NEW id, NEW file, NotifyStateChange(s, id, file)
  PROVE  /\ phase = "up" /\ phase' = "up"
         /\ \/ UNCHANGED <<cfiles, savedFiles>>
            \/ /\ id \in Ids /\ Holds(cfiles[s], id)
               /\ cfiles'[s][id] = file
               /\ \A t \in Slaves, x \in Ids :
                    /\ t # s \/ x # id => cfiles'[t][x] = cfiles[t][x]
                    /\ savedFiles'[t][x] = IF t = s THEN cfiles'[t][x] ELSE savedFiles[t][x]
<1>1. /\ phase = "up" /\ phase' = "up"
      /\ \/ UNCHANGED <<cfiles, savedFiles>>
         \/ id \in Ids /\ Holds(cfiles[s], id) /\ SetFile(s, id, file)
  BY DEF NotifyStateChange
<1> QED BY <1>1, SetFileStates

-----------------------------------------------------------------------------
(* No second slave gets a file.                                            *)

\* Slave controller s alone can have the file, now or after a restart, until
\* the master crashes.
Only(s, id) ==
  /\ id \in submitted
  /\ ~Holds(pending, id)
  /\ phase # "up" => ~Holds(savedPending, id)
  /\ \A t \in Slaves \ {s} :
       /\ ~Holds(cfiles[t], id)
       /\ phase # "up" => ~Holds(savedFiles[t], id)

\* An AddFile of the file is on its way to the slave, or its answer back.
Called(s, id) == \E k \in DOMAIN calls[s] : calls[s][k].id = id

\* A controller that has a file is the only one, unless the master crashed.
LEMMA HoldsOnly ==
  ASSUME PlacesInv, ~ReuseIds, ~crashed, phase = "up",
         NEW s \in Slaves, NEW id \in Ids, Holds(cfiles[s], id)
  PROVE  Only(s, id)
BY DEF PlacesInv, Given, Apart, Only

\* Storing a file of one controller leaves the others without it.
LEMMA SetFileOnly ==
  ASSUME TypeOK, NEW s \in Slaves, NEW id \in Ids, Only(s, id), phase = "up",
         NEW t \in Slaves, NEW x \in Ids, NEW f, SetFile(t, x, f),
         t = s \/ x # id,
         UNCHANGED <<phase, submitted>>, ~Holds(pending', id)
  PROVE  Only(s, id)'
<1>1. \A r \in Slaves, y \in Ids : r # t \/ y # x => cfiles'[r][y] = cfiles[r][y]
  BY SetFileStates
<1> QED BY <1>1 DEF Only, Holds

\* No step but a crash gives a file to a second slave.
LEMMA OnlyStep ==
  ASSUME TypeOK, ~ReuseIds, ~crashed', [Next]_mvars,
         NEW s \in Slaves, NEW id \in Ids, Only(s, id)
  PROVE  Only(s, id)'
<1>s. ASSUME UNCHANGED <<phase, pending, cfiles, savedPending, savedFiles, submitted>>
      PROVE  Only(s, id)'
  BY <1>s DEF Only
<1>a. ASSUME NEW why, Abort(why) PROVE FALSE BY <1>a DEF Abort
<1>1. CASE UserStep
  <2>1. ASSUME NEW x \in Ids, UserAddFile(x) PROVE Only(s, id)'
    <3>1. x # id BY <2>1 DEF UserAddFile, Only
    <3>2. pending'[id] = pending[id] BY <2>1, <3>1 DEF UserAddFile, TypeOK, FileMap
    <3> QED BY <2>1, <3>2 DEF UserAddFile, disk, Only, Holds
  <2>2. ASSUME NEW x \in Ids, UserDelFile(x) PROVE Only(s, id)'
    <3>1. pending'[id] \in {NoFile, pending[id]} BY <2>2 DEF UserDelFile, TypeOK, FileMap
    <3> QED BY <2>2, <3>1 DEF UserDelFile, disk, Only, Holds
  <2> QED BY <1>1, <2>1, <2>2 DEF UserStep
<1>2. CASE SlaveControllerStep
  <2>1. ASSUME NEW t \in Slaves, MaybeGrabMediaFile(t) PROVE Only(s, id)'
    <3>1. PICK x \in Ids :
            /\ Holds(pending, x)
            /\ pending' = [pending EXCEPT ![x] = NoFile]
            /\ SetFile(t, x, pending[x])
            /\ UNCHANGED <<phase, submitted>>
      BY <2>1, <1>a DEF MaybeGrabMediaFile, GrabMediaFile, history
    <3>2. phase = "up" BY <2>1 DEF MaybeGrabMediaFile
    <3>3. x # id BY <3>1 DEF Only
    <3>4. ~Holds(pending', id) BY <3>1, <3>3 DEF Only, Holds, TypeOK, FileMap
    <3> QED BY <3>1, <3>2, <3>3, <3>4, SetFileOnly
  <2>2. ASSUME NEW t \in Slaves, HandleAddFileResult(t) PROVE Only(s, id)'
    <3> DEFINE c == Head(calls[t])
               f == [cfiles[t][c.id] EXCEPT !.err = TRUE]
    <3>1. /\ phase = "up"
          /\ UNCHANGED <<phase, pending, savedPending, submitted>>
          /\ \/ UNCHANGED <<cfiles, savedFiles>>
             \/ Holds(cfiles[t], c.id) /\ SetFile(t, c.id, f)
      BY <2>2 DEF HandleAddFileResult, Failure, history
    <3>2. c.id \in Ids
      <4>1. calls[t] \in Seq(Call) /\ calls[t] # <<>>
        BY <2>2 DEF TypeOK, HandleAddFileResult
      <4>2. c \in Call BY <4>1
      <4> QED BY <4>2 DEF Call
    <3> HIDE DEF c, f
    <3>3. CASE UNCHANGED <<cfiles, savedFiles>> BY <3>1, <3>3, <1>s
    <3>4. CASE Holds(cfiles[t], c.id) /\ SetFile(t, c.id, f)
      <4>1. t = s \/ c.id # id BY <3>4 DEF Only
      <4>2. ~Holds(pending', id) BY <3>1 DEF Only
      <4> QED BY <3>1, <3>2, <3>4, <4>1, <4>2, SetFileOnly
    <3> QED BY <3>1, <3>3, <3>4
  <2>3. ASSUME NEW t \in Slaves, NEW x \in Ids, ProcessPending(t, x) PROVE Only(s, id)'
    BY <2>3, <1>s DEF ProcessPending, disk, history
  <2>4. ASSUME NEW t \in Slaves, NEW x \in Ids, ProcessSlaveReady(t, x) PROVE Only(s, id)'
    BY <2>4, <1>a DEF ProcessSlaveReady
  <2> QED BY <1>2, <2>1, <2>2, <2>3, <2>4 DEF SlaveControllerStep
<1>3. CASE ProcessStep
  <2>1. CASE Start
    <3>1. /\ phase = "down" /\ phase' = "up" /\ UNCHANGED submitted
          /\ \/ pending' = savedPending /\ cfiles' = savedFiles
             \/ pending' = pending /\ cfiles' = cfiles
      BY <2>1 DEF Start
    <3> QED BY <3>1 DEF Only
  <2>2. CASE Stop
    <3>1. /\ phase = "up" /\ savedFiles' = cfiles /\ savedPending' = pending
          /\ \A t \in Slaves : ~Holds(cfiles'[t], id)
          /\ UNCHANGED <<pending, submitted>>
      BY <2>2 DEF Stop, None, Holds
    <3> QED BY <3>1 DEF Only
  <2>3. CASE Destroy
    <3>1. /\ ~Holds(pending', id) /\ \A t \in Slaves : ~Holds(cfiles'[t], id)
          /\ savedFiles' = cfiles /\ savedPending' = pending
          /\ UNCHANGED submitted
      BY <2>3, LoseMemoryHolds DEF Destroy
    <3> QED BY <3>1 DEF Only
  <2>4. CASE Crash BY <2>4 DEF Crash
  <2>5. ASSUME NEW t \in Slaves, CrashInLoad(t) PROVE Only(s, id)' BY <2>5 DEF CrashInLoad
  <2> QED BY <1>3, <2>1, <2>2, <2>3, <2>4, <2>5 DEF ProcessStep
<1>4. CASE AnySlaveStep
  <2>1. ASSUME NEW t \in Slaves, NEW res, AnswerAddFile(t, res) PROVE Only(s, id)'
    BY <2>1, <1>s DEF AnswerAddFile, disk, history
  <2>2. ASSUME NEW t \in Slaves, NEW x \in Ids, NEW file, NotifyStateChange(t, x, file)
        PROVE  Only(s, id)'
    <3>1. /\ phase = "up"
          /\ UNCHANGED <<phase, pending, savedPending, submitted>>
          /\ \/ UNCHANGED <<cfiles, savedFiles>>
             \/ Holds(cfiles[t], x) /\ SetFile(t, x, file)
      BY <2>2 DEF NotifyStateChange, history
    <3>3. CASE UNCHANGED <<cfiles, savedFiles>> BY <3>1, <3>3, <1>s
    <3>4. CASE Holds(cfiles[t], x) /\ SetFile(t, x, file)
      <4>1. t = s \/ x # id BY <3>4 DEF Only
      <4>2. ~Holds(pending', id) BY <3>1 DEF Only
      <4> QED BY <3>1, <3>4, <4>1, <4>2, SetFileOnly
    <3> QED BY <3>1, <3>3, <3>4
  <2> QED BY <1>4, <2>1, <2>2 DEF AnySlaveStep
<1>5. CASE UNCHANGED mvars BY <1>5, <1>s DEF mvars, disk, history
<1> QED BY <1>1, <1>2, <1>3, <1>4, <1>5 DEF Next

\* Only what a controller has is offered to its slave.
LEMMA CalledStep ==
  ASSUME TypeOK, [Next]_mvars, NEW s \in Slaves, NEW id \in Ids, Called(s, id)'
  PROVE  Called(s, id) \/ (phase = "up" /\ Holds(cfiles[s], id))
<1>0. calls \in [Slaves -> Seq(Call)] BY DEF TypeOK
<1>s. ASSUME UNCHANGED calls PROVE Called(s, id) BY <1>s DEF Called
<1>a. ASSUME calls' = [t \in Slaves |-> <<>>] PROVE FALSE BY <1>a DEF Called
<1>1. CASE UserStep BY <1>1, <1>s DEF UserStep, UserAddFile, UserDelFile
<1>2. CASE SlaveControllerStep
  <2>1. ASSUME NEW t \in Slaves, MaybeGrabMediaFile(t) PROVE Called(s, id)
    BY <2>1, <1>s, <1>a DEF MaybeGrabMediaFile, Abort, LoseMemory
  <2>2. ASSUME NEW t \in Slaves, HandleAddFileResult(t) PROVE Called(s, id)
    <3>1. calls[t] # <<>> /\ calls' = [calls EXCEPT ![t] = Tail(@)]
      BY <2>2 DEF HandleAddFileResult
    <3>2. CASE t = s
      <4>1. calls'[s] = Tail(calls[s]) BY <1>0, <3>1, <3>2
      <4>2. PICK k \in DOMAIN Tail(calls[s]) : Tail(calls[s])[k].id = id
        BY <4>1 DEF Called
      <4>3. k + 1 \in DOMAIN calls[s] /\ calls[s][k + 1].id = id
        BY <1>0, <3>1, <3>2, <4>2
      <4> QED BY <4>3 DEF Called
    <3>3. CASE t # s
      <4>1. calls'[s] = calls[s] BY <1>0, <3>1, <3>3
      <4> QED BY <4>1 DEF Called
    <3> QED BY <3>2, <3>3
  <2>3. ASSUME NEW t \in Slaves, NEW x \in Ids, ProcessPending(t, x)
        PROVE  Called(s, id) \/ (phase = "up" /\ Holds(cfiles[s], id))
    <3> DEFINE c == [id |-> x, res |-> "sent"]
    <3>1. /\ phase = "up" /\ cfiles[t][x].st = "PENDING"
          /\ calls' = [calls EXCEPT ![t] = Append(@, c)]
      BY <2>3 DEF ProcessPending
    <3>2. Holds(cfiles[t], x) BY <3>1, NoFileStates DEF Holds, ABSENT
    <3>3. CASE t = s
      <4>1. calls'[s] = Append(calls[s], c) BY <1>0, <3>1, <3>3
      <4>2. PICK k \in DOMAIN Append(calls[s], c) : Append(calls[s], c)[k].id = id
        BY <4>1 DEF Called
      <4>3. CASE k \in DOMAIN calls[s]
        <5>1. Append(calls[s], c)[k] = calls[s][k] BY <1>0, <4>3
        <5> QED BY <4>2, <4>3, <5>1 DEF Called
      <4>4. CASE k \notin DOMAIN calls[s]
        <5>1. k = Len(calls[s]) + 1 BY <1>0, <4>2, <4>4
        <5>2. Append(calls[s], c)[k] = c BY <1>0, <5>1
        <5> QED BY <3>1, <3>2, <3>3, <4>2, <5>2
      <4> QED BY <4>3, <4>4
    <3>4. CASE t # s
      <4>1. calls'[s] = calls[s] BY <1>0, <3>1, <3>4
      <4> QED BY <4>1 DEF Called
    <3> QED BY <3>3, <3>4
  <2>4. ASSUME NEW t \in Slaves, NEW x \in Ids, ProcessSlaveReady(t, x) PROVE Called(s, id)
    BY <2>4, <1>a DEF ProcessSlaveReady, Abort, LoseMemory
  <2> QED BY <1>2, <2>1, <2>2, <2>3, <2>4 DEF SlaveControllerStep
<1>3. CASE ProcessStep
  BY <1>3, <1>s, <1>a DEF ProcessStep, Start, Stop, Destroy, Crash, LoseMemory, CrashInLoad
<1>4. CASE AnySlaveStep
  <2>1. ASSUME NEW t \in Slaves, NEW res \in Result \ {"sent"}, AnswerAddFile(t, res)
        PROVE  Called(s, id)
    <3> DEFINE k == FirstUnanswered(t)
    <3>1. calls' = [calls EXCEPT ![t][k].res = res]
      BY <2>1 DEF AnswerAddFile
    <3> HIDE DEF k
    <3>2. calls'[s] = IF s = t THEN [calls[s] EXCEPT ![k].res = res] ELSE calls[s]
      BY <1>0, <3>1
    <3>3. DOMAIN calls'[s] = DOMAIN calls[s] BY <3>2
    <3>4. ASSUME NEW j \in DOMAIN calls[s] PROVE calls'[s][j].id = calls[s][j].id
      <4>1. calls[s][j] \in Call BY <1>0, <3>4
      <4>2. calls'[s][j] = IF s = t /\ j = k THEN [calls[s][j] EXCEPT !.res = res]
                           ELSE calls[s][j]
        BY <3>2, <3>4
      <4> QED BY <4>1, <4>2 DEF Call
    <3> QED BY <3>3, <3>4 DEF Called
  <2>2. ASSUME NEW t \in Slaves, NEW x, NEW file, NotifyStateChange(t, x, file)
        PROVE  Called(s, id)
    BY <2>2, <1>s DEF NotifyStateChange
  <2> QED BY <1>4, <2>1, <2>2 DEF AnySlaveStep
<1>5. CASE UNCHANGED mvars BY <1>5, <1>s DEF mvars
<1> QED BY <1>1, <1>2, <1>3, <1>4, <1>5 DEF Next

\* A master that has crashed has crashed for good.
LEMMA CrashedStays ==
  ASSUME [Next]_mvars, crashed PROVE crashed'
BY DEF Next, mvars, history, UserStep, UserAddFile, UserDelFile, SlaveControllerStep,
       MaybeGrabMediaFile, HandleAddFileResult, ProcessPending, ProcessSlaveReady, Abort,
       ProcessStep, Start, Stop, Destroy, Crash, CrashInLoad, AnySlaveStep, AnswerAddFile,
       NotifyStateChange
=============================================================================
