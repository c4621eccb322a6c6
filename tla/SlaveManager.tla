---------------------------- MODULE SlaveManager ----------------------------
(***************************************************************************)
(* transcoder/slave: RPCSlaveManagerService and the MasterWrappers through *)
(* which it notifies its masters, for every slave of a set.                *)
(*                                                                         *)
(* One selector thread per slave: a handler is one atomic step.  The steps *)
(* that interleave are the RPCs of masters and users, the exits of the     *)
(* transcoding processes, the results of the NotifyStateChange RPCs, and   *)
(* stop, crash and restart.  The masters are an arbitrary environment      *)
(* here: see Transcoder for the composition with MasterManager.            *)
(***************************************************************************)
EXTENDS FStates, Integers, Sequences, FiniteSets

CONSTANTS
  Slaves,
  Names,        \* what AddFile is given as file_id
  Uris,         \* what it is given as master_uri
  WildcardUris, \* those whose IP is 0.0.0.0
  Parallel,     \* FLAGS_parallel_processing
  Wrappers,     \* addresses for MasterWrappers; none is used twice (a bound)
  PinGarbage,   \* what pin_count_, which no constructor sets, may start from
  W,            \* pin_count_ is a uint32: W stands for 2^32
  MaxDeleted,   \* bound: ids removed by DelFile.  (No master calls it.)
  MaxNotes,     \* bound: notifications of one file whose result is awaited
  MaxProcs,     \* bound: processes working for one file id
  MaxSlaveStarts \* bound: times a slave process is started

ASSUME SlaveAssumption ==
  /\ IsFiniteSet(Names)
  /\ WildcardUris \subseteq Uris
  /\ Parallel \in Nat \ {0}
  /\ W \in Nat \ {0} /\ PinGarbage \subseteq 0 .. W - 1
  /\ MaxDeleted \in Nat
  /\ MaxNotes \in Nat \ {0} /\ MaxProcs \in Nat \ {0}
  /\ MaxSlaveStarts \in Nat \ {0}

VARIABLES
  sup,          \* is the process up?
  mem,          \* what it has in memory, see Memory
  ssaved,       \* state keeper: the list Save() last wrote
  sremoved,     \* history: ids DelFile ever removed
  faults,       \* history: CHECKs that failed, freed objects that were used
  sstarts       \* history: how often the process was started

svars == <<sup, mem, ssaved, sremoved, faults, sstarts>>

\* A key of masters_ is a recomposed URI.  An RPC replaces a 0.0.0.0 in it by
\* the address of its peer; Load() has no such address and leaves 0.0.0.0.
Keys == Uris \X {"as given", "from transport"}
RpcKey(u)  == <<u, IF u \in WildcardUris THEN "from transport" ELSE "as given">>
LoadKey(u) == <<u, "as given">>

\* Nobody listens at 0.0.0.0.
Reachable(key) == key[1] \in WildcardUris => key[2] = "from transport"

\* A MediaFile: its state and error, and the wrapper of its master.
SlaveFile == [file : File, master : Wrappers]
SavedFile == [file : File, uri : Uris]
Absent    == [file |-> NoFile]

\* A MasterWrapper; init is what pin_count_ happened to be at first.
NoWrapper == "no wrapper"
Unused == [mem |-> "unused"]
Object == [mem : {"live", "freed"}, key : Keys, pins : 0 .. W - 1, init : PinGarbage]

\* A NotifyStateChange RPC whose result callback has not run.  Those of one
\* file keep their order; those of two files may be served in any order.
Note == [file : SlaveReports, master : Wrappers, res : {"sent", "ok", "failed"}]

Memory == [files   : [Names -> SlaveFile \cup {Absent}],   \* files_
           masters : [Keys -> Wrappers \cup {NoWrapper}],  \* masters_
           heap    : [Wrappers -> Object \cup {Unused}],
           procs   : [Names -> Nat],       \* active_processes_, per file id
           notes   : [Names -> Seq(Note)]]

Empty == [files   |-> [n \in Names |-> Absent],
          masters |-> [k \in Keys |-> NoWrapper],
          heap    |-> [w \in Wrappers |-> Unused],
          procs   |-> [n \in Names |-> 0],
          notes   |-> [n \in Names |-> <<>>]]

Init ==
  /\ sup = [s \in Slaves |-> FALSE]
  /\ mem = [s \in Slaves |-> Empty]
  /\ ssaved = [s \in Slaves |-> [n \in Names |-> Absent]]
  /\ sremoved = [s \in Slaves |-> {}]
  /\ faults = [s \in Slaves |-> {}]
  /\ sstarts = [s \in Slaves |-> 0]

-----------------------------------------------------------------------------
(* Operators on the memory of one slave process.                           *)

Has(m, n) == m.files[n] # Absent
State(m, n) == m.files[n].file.st
In(m, st) == {n \in Names : State(m, n) = st}
WrapperOf(m, n) == m.heap[m.files[n].master]

\* What Save() writes: of the wrapper, uri(), which is the URI as given.
Saved(m) == [n \in Names |-> IF Has(m, n)
                             THEN [file |-> m.files[n].file, uri |-> WrapperOf(m, n).key[1]]
                             ELSE Absent]

\* Deviations: a call is not counted; the count has no width.
Pin_Forgotten(object, calls) == object
Pin_Unbounded(object, calls) == [object EXCEPT !.pins = @ + calls]
Pin(object, calls) == [object EXCEPT !.pins = (@ + calls) % W]

\* Deviation: a call stays counted.
Unpin_Forgotten(object) == object
Unpin(object) == [object EXCEPT !.pins = @ - 1]

\* ChangeFileState of every file in the domain of 'report': set it, pin the
\* wrapper, send the notification.
ChangeFileStates(m, report) ==
  LET set == DOMAIN report
      Pinned(w) == {n \in set : m.files[n].master = w}
  IN  [m EXCEPT
         !.files = [n \in Names |-> IF n \in set THEN [@[n] EXCEPT !.file = report[n]]
                                    ELSE @[n]],
         !.heap = [w \in Wrappers |->
                     IF Pinned(w) = {} THEN @[w] ELSE Pin(@[w], Cardinality(Pinned(w)))],
         !.notes = [n \in Names |->
                      IF n \in set
                      THEN Append(@[n], [file |-> report[n], res |-> "sent",
                                         master |-> m.files[n].master])
                      ELSE @[n]]]

Processing == [st |-> "PROCESSING",  err |-> FALSE]
Ready      == [st |-> "SLAVE_READY", err |-> FALSE]
Error      == [st |-> "ERROR",       err |-> TRUE]

\* StartProcessing of a set of files, of which some processes do start.
StartProcessing(m, set, started) ==
  LET c == ChangeFileStates(m,
             [n \in set |-> IF n \in started THEN Processing ELSE Error])
  IN  [c EXCEPT !.procs = [n \in Names |-> IF n \in started THEN @[n] + 1 ELSE @[n]]]

\* Deviation: one file too many.
HasRoom_OneMore(m, set) == Cardinality(In(m, "PROCESSING")) + Cardinality(set) <= Parallel + 1
HasRoom(m, set) == Cardinality(In(m, "PROCESSING")) + Cardinality(set) <= Parallel

\* What StartProcessingMoreFiles starts: PENDING files in the order of their
\* ids (any order here), until parallel_processing are PROCESSING.
MoreFiles(m) ==
  {set \in SUBSET In(m, "PENDING") :
     /\ set = {} \/ HasRoom(m, set)
     /\ \A n \in In(m, "PENDING") \ set : ~HasRoom(m, set \cup {n})}

WithFile(m, n, w) == [m EXCEPT !.files[n] = [file |-> Pending, master |-> w]]
WithWrapper(m, key, w, pins) ==
  [m EXCEPT !.masters[key] = w,
            !.heap[w] = [mem |-> "live", key |-> key, pins |-> pins, init |-> pins]]

\* The memory after AddFile has found or made the wrapper of the master, and
\* inserted the file.
AfterAddFile(m, n, u) ==
  LET key == RpcKey(u)
  IN  IF m.masters[key] # NoWrapper
        THEN {WithFile(m, n, m.masters[key])}
        ELSE {WithFile(WithWrapper(m, key, w, pins), n, w) :
                w \in {w \in Wrappers : m.heap[w] = Unused}, pins \in PinGarbage}

-----------------------------------------------------------------------------
(* How a handler of slave s ends.                                          *)

Gone(s) ==
  /\ sup' = [sup EXCEPT ![s] = FALSE]
  /\ mem' = [mem EXCEPT ![s] = Empty]

\* Deviation: nothing is saved.
Return_Unsaved(s, m, changed) ==
  /\ mem' = [mem EXCEPT ![s] = m]
  /\ UNCHANGED <<sup, ssaved, sremoved, faults, sstarts>>

\* Its last word was Save(), if it changed the state of a file.
Return(s, m, changed) ==
  /\ mem' = [mem EXCEPT ![s] = m]
  /\ ssaved' = [ssaved EXCEPT ![s] = IF changed THEN Saved(m) ELSE @]
  /\ UNCHANGED <<sup, sremoved, faults, sstarts>>

Fault(s, why) ==
  /\ Gone(s)
  /\ faults' = [faults EXCEPT ![s] = @ \cup {why}]
  /\ UNCHANGED <<ssaved, sremoved, sstarts>>

Freed(m, n) == Has(m, n) /\ WrapperOf(m, n).mem = "freed"

\* ChangeFileState calls RPCWrapper() of the file's master, where a freed
\* object has left NULL for its CHECK_NOT_NULL; its Save() reads uri() of the
\* masters of all files, and may get away with a freed one.
ChangeAndReturn(s, m, touched) ==
  \/ /\ \A n \in touched : ~Freed(m, n)
     /\ Return(s, m, touched # {})
  \/ /\ touched # {}
     /\ \E n \in Names : Freed(m, n)
     /\ Fault(s, "use after free")

-----------------------------------------------------------------------------
(* The RPCs of ServiceInvokerSlaveManager.  (GetFileState and ListFiles    *)
(* read only; AddFile of an id that is there returns an error, no more.)   *)

MayNotify(s, set) == \A n \in set : Len(mem[s].notes[n]) < MaxNotes

RpcAddFile(s, n, u) ==
  /\ sup[s]
  /\ ~Has(mem[s], n)
  /\ \E m \in AfterAddFile(mem[s], n, u) : \E more \in MoreFiles(m) :
       /\ MayNotify(s, more)
       /\ \E started \in SUBSET more :
            ChangeAndReturn(s, StartProcessing(m, more, started), more)

\* DelFile removes the file and its output directory; it neither saves nor
\* kills the process that writes there.
RpcDelFile(s, n) ==
  /\ Cardinality(sremoved[s] \cup {n}) <= MaxDeleted
  /\ sup[s]
  /\ Has(mem[s], n)
  /\ mem[s].procs[n] < MaxProcs
  /\ mem' = [mem EXCEPT ![s].files[n] = Absent]
  /\ sremoved' = [sremoved EXCEPT ![s] = @ \cup {n}]
  /\ UNCHANGED <<sup, ssaved, faults, sstarts>>

-----------------------------------------------------------------------------
(* Callbacks.                                                              *)

\* Deviation: the process stays in active_processes_.
Reaped_Kept(m, n) == m
Reaped(m, n) == [m EXCEPT !.procs[n] = @ - 1]

\* A transcoding process exits; the file may be gone, or another of that id.
ProcessingCompleted(s, n, report) ==
  /\ sup[s]
  /\ mem[s].procs[n] > 0
  /\ MayNotify(s, {n})
  /\ LET m == Reaped(mem[s], n) IN
       IF Has(m, n)
         THEN ChangeAndReturn(s, ChangeFileStates(m, [x \in {n} |-> report]), {n})
         ELSE Return(s, m, FALSE)

\* Unpin the wrapper and, as nothing ever enters its files_, delete it when
\* the count is 0; it has to be in masters_ under uri().
HandleNotifyStateChangeResult(s, n) ==
  /\ sup[s]
  /\ mem[s].notes[n] # <<>>
  /\ LET note == Head(mem[s].notes[n])
         w == note.master
         object == mem[s].heap[w]
         key == LoadKey(object.key[1])
         m == [mem[s] EXCEPT !.notes[n] = Tail(@), !.heap[w] = Unpin(@)]
     IN  /\ note.res # "sent"
         /\ \/ /\ object.mem = "freed"
               /\ Fault(s, "use after free")
            \/ /\ object.mem = "live" /\ object.pins = 0
               /\ Fault(s, "unpin below 1")
            \/ /\ object.mem = "live" /\ object.pins > 1
               /\ Return(s, m, FALSE)
            \/ /\ object.mem = "live" /\ object.pins = 1
               /\ mem[s].masters[key] = NoWrapper
               /\ Fault(s, "erased master not found")
            \/ /\ object.mem = "live" /\ object.pins = 1
               /\ mem[s].masters[key] # NoWrapper
               /\ Return(s, [m EXCEPT !.masters[key] = NoWrapper,
                                      !.heap[w].mem = "freed"], FALSE)

-----------------------------------------------------------------------------
(* Start, stop, crash.                                                     *)

\* Deviations: work on ready files is resumed, too; no work is resumed.
Resumed_Ready(saved) == {n \in Names : saved[n].file.st \in {"PROCESSING", "SLAVE_READY"}}
Resumed_None(saved) == {}
Resumed(saved) == {n \in Names : saved[n].file.st = "PROCESSING"}

Known(saved) == {n \in Names : saved[n] # Absent}
UrisOf(saved) == {saved[n].uri : n \in Known(saved)}

\* The memory with every saved file, and a wrapper a[u] for every master's URI,
\* whose pin_count_ happens to be pins[u].
Loaded(saved, a, pins) ==
  LET uris == UrisOf(saved)
      At(w) == CHOOSE u \in uris : a[u] = w
  IN  [Empty EXCEPT
         !.files = [n \in Names |-> IF n \in Known(saved)
                      THEN [file |-> saved[n].file, master |-> a[saved[n].uri]]
                      ELSE Absent],
         !.masters = [k \in Keys |-> IF \E u \in uris : k = LoadKey(u)
                                     THEN a[k[1]] ELSE NoWrapper],
         !.heap = [w \in Wrappers |-> IF \E u \in uris : a[u] = w
                     THEN [mem |-> "live", key |-> LoadKey(At(w)),
                           pins |-> pins[At(w)], init |-> pins[At(w)]]
                     ELSE Unused]]

\* Load(): every saved file again, with a wrapper for every master; then the
\* files that were PROCESSING are processed from the start.
Start(s) ==
  /\ ~sup[s]
  /\ sstarts[s] < MaxSlaveStarts
  /\ sup' = [sup EXCEPT ![s] = TRUE]
  /\ sstarts' = [sstarts EXCEPT ![s] = @ + 1]
  /\ LET uris == UrisOf(ssaved[s])
         resumed == Resumed(ssaved[s])
     IN  \E a \in [uris -> Wrappers], pins \in [uris -> PinGarbage] :
           /\ \A u, v \in uris : a[u] = a[v] => u = v
           /\ \E started \in SUBSET resumed :
                LET m == StartProcessing(Loaded(ssaved[s], a, pins), resumed, started)
                IN  /\ mem' = [mem EXCEPT ![s] = m]
                    /\ ssaved' = [ssaved EXCEPT ![s] = IF resumed = {} THEN @ ELSE Saved(m)]
  /\ UNCHANGED <<sremoved, faults>>

\* Stop(): the processes are killed, their files stay PROCESSING; Save().
Stop(s) ==
  /\ sup[s]
  /\ \/ /\ Gone(s)
        /\ ssaved' = [ssaved EXCEPT ![s] = Saved(mem[s])]
        /\ UNCHANGED <<sremoved, faults, sstarts>>
     \/ /\ \E n \in Names : Freed(mem[s], n)
        /\ Fault(s, "use after free")

\* A crash; the processes it leaves behind report to nobody.
Crash(s) ==
  /\ sup[s]
  /\ Gone(s)
  /\ UNCHANGED <<ssaved, sremoved, faults, sstarts>>

-----------------------------------------------------------------------------
(* The environment: a master, or the network, answers a notification.      *)

Unanswered(s, n) == {k \in DOMAIN mem[s].notes[n] : mem[s].notes[n][k].res = "sent"}
FirstUnanswered(s, n) ==
  CHOOSE k \in Unanswered(s, n) : \A j \in Unanswered(s, n) : k <= j

\* The notification that is served next, and whether it can reach its master.
NextNote(s, n) == mem[s].notes[n][FirstUnanswered(s, n)]
CanReach(s, n) == Reachable(mem[s].heap[NextNote(s, n).master].key)

AnswerNote(s, n, res) ==
  /\ Unanswered(s, n) # {}
  /\ res = "ok" => CanReach(s, n)
  /\ mem' = [mem EXCEPT ![s].notes[n][FirstUnanswered(s, n)].res = res]
  /\ UNCHANGED <<sup, ssaved, sremoved, faults, sstarts>>

RpcStep(s) ==
  \E n \in Names : RpcDelFile(s, n) \/ \E u \in Uris : RpcAddFile(s, n, u)

CallbackStep(s) ==
  \E n \in Names :
    \/ \E report \in {Ready, Error} : ProcessingCompleted(s, n, report)
    \/ HandleNotifyStateChangeResult(s, n)

ProcessStep(s) == Start(s) \/ Stop(s) \/ Crash(s)

AnyMasterStep(s) == \E n \in Names, res \in {"ok", "failed"} : AnswerNote(s, n, res)

Next ==
  \E s \in Slaves : RpcStep(s) \/ CallbackStep(s) \/ ProcessStep(s) \/ AnyMasterStep(s)

Spec == Init /\ [][Next]_svars

-----------------------------------------------------------------------------
TypeOK ==
  /\ sup \in [Slaves -> BOOLEAN]
  /\ mem \in [Slaves -> Memory]
  /\ ssaved \in [Slaves -> [Names -> SavedFile \cup {Absent}]]
  /\ sremoved \in [Slaves -> SUBSET Names]
  /\ faults \in [Slaves -> SUBSET {"use after free", "unpin below 1",
                                   "erased master not found"}]
  /\ sstarts \in [Slaves -> Nat]

\* At most parallel_processing files are PROCESSING, whatever is added,
\* deleted, completed, or resumed by a restart.
ParallelLimit ==
  \A s \in Slaves : Cardinality(In(mem[s], "PROCESSING")) <= Parallel

\* An id that was never deleted has one process while its file is PROCESSING,
\* and none before or after: no stale exit and no second transcoding.
OneProcessEach ==
  \A s \in Slaves : \A n \in Names \ sremoved[s] :
    mem[s].procs[n] = IF State(mem[s], n) = "PROCESSING" THEN 1 ELSE 0

\* Every file that is beyond PENDING is on disk as it is in memory.
WorkIsDurable ==
  \A s \in Slaves : \A n \in Names :
    (Has(mem[s], n) /\ State(mem[s], n) # "PENDING")
      => ssaved[s][n] = Saved(mem[s])[n]

\* The result of a transcoding is final: a file that is SLAVE_READY on disk
\* stays so through crashes and restarts, until a user deletes it.
ReadyIsFinal ==
  [][\A s \in Slaves : \A n \in Names \ sremoved'[s] :
       ssaved[s][n].file.st = "SLAVE_READY" => ssaved'[s][n] = ssaved[s][n]]_svars

\* "Counts active RPC calls through RPCWrapper" (master_wrapper.h:44): what
\* pin_count_ is above its initial value is the number of calls in progress.
PinsCountCalls ==
  \A s \in Slaves : \A w \in Wrappers :
    LET m == mem[s]
        Calls(n) == {k \in DOMAIN m.notes[n] : m.notes[n][k].master = w}
        active == UNION {{n} \X Calls(n) : n \in Names}
    IN  m.heap[w] # Unused =>
          m.heap[w].pins = (m.heap[w].init + Cardinality(active)) % W

\* Every file and every call in progress has a wrapper that is not freed, and
\* no CHECK fails.  This needs luck: that every pin_count_ starts above 0 and
\* below the point where it wraps around.
LuckyPins(s) ==
  \A w \in Wrappers :
    mem[s].heap[w] # Unused =>
      mem[s].heap[w].init \in 1 .. W - 1 - MaxNotes * Cardinality(Names)
MastersLive ==
  /\ [](\A s \in Slaves : LuckyPins(s) =>
          \A n \in Names :
            /\ ~Freed(mem[s], n)
            /\ \A k \in DOMAIN mem[s].notes[n] :
                 mem[s].heap[mem[s].notes[n][k].master].mem = "live")
  /\ [][\A s \in Slaves : LuckyPins(s) => faults'[s] = faults[s]]_svars

\* "files referenced by this master" (master_wrapper.h:73): a wrapper is not
\* deleted while files refer to it.
NoUseAfterFree == \A s \in Slaves : "use after free" \notin faults[s]

\* "CHECK_EQ(result, 1)" (rpc_slave_manager_service.cc:392): a master that is
\* erased is in masters_.
ErasedMasterFound == \A s \in Slaves : "erased master not found" \notin faults[s]

\* "the file is pending on Slave (the slave is busy)" (manager.rpc:15).
PendingMeansBusy ==
  \A s \in Slaves :
    In(mem[s], "PENDING") # {} => Cardinality(In(mem[s], "PROCESSING")) >= Parallel

\* "The number of media files that can be processed in parallel." (slave.cc:63)
ProcessesWithinLimit ==
  \A s \in Slaves : \A X \in SUBSET Names :
    (\A n \in X : mem[s].procs[n] > 0) => Cardinality(X) <= Parallel
=============================================================================
