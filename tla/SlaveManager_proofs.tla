------------------------- MODULE SlaveManager_proofs -------------------------
(***************************************************************************)
(* Proofs about SlaveManager: the processes of a slave, what it has on     *)
(* disk, and what the pin counts of its masters count; for any number of   *)
(* files, masters and processes in parallel, and for any first value of a  *)
(* pin count.                                                              *)
(***************************************************************************)
EXTENDS SlaveManager, SequenceTheorems, FiniteSetTheorems, TLAPS

-----------------------------------------------------------------------------
(* What is in a memory.                                                    *)

InUse(m, w) == w \in Wrappers /\ m.heap[w] # Unused

\* Files, masters_ and calls refer to objects that were made.
MemoryInv(m) ==
  /\ m \in Memory
  /\ \A n \in Names : Has(m, n) => InUse(m, m.files[n].master)
  /\ \A k \in Keys : m.masters[k] # NoWrapper => InUse(m, m.masters[k])
  /\ \A n \in Names : \A k \in DOMAIN m.notes[n] : InUse(m, m.notes[n][k].master)

\* A file is there or absent, and what is absent is in no state.
LEMMA FileCases ==
  ASSUME NEW m \in Memory, NEW n \in Names
  PROVE  /\ Has(m, n) => m.files[n] \in SlaveFile
         /\ ~Has(m, n) => State(m, n) = ABSENT
         /\ State(m, n) # ABSENT => Has(m, n)
         /\ State(m, n) \in FState => Has(m, n)
         /\ Has(m, n) <=> State(m, n) # ABSENT
<1>1. m.files[n] \in SlaveFile \cup {Absent} BY DEF Memory
<1>2. \A f \in SlaveFile : f.file.st \in FState
  BY DEF SlaveFile, File
<1>3. ABSENT \notin FState BY DEF FState, SlaveStates, MasterStates, ABSENT
<1>4. Absent.file.st = ABSENT BY DEF Absent, NoFile
<1> QED BY <1>1, <1>2, <1>3, <1>4 DEF Has, State

\* A wrapper is an object or was not made.
LEMMA HeapCases ==
  ASSUME NEW m \in Memory, NEW w \in Wrappers
  PROVE  /\ InUse(m, w) <=> m.heap[w] \in Object
         /\ ~InUse(m, w) => m.heap[w].mem = "unused"
<1>1. m.heap[w] \in Object \cup {Unused} BY DEF Memory
<1>2. \A o \in Object : o.mem # "unused" BY DEF Object
<1>3. Unused.mem = "unused" BY DEF Unused
<1> QED BY <1>1, <1>2, <1>3 DEF InUse

\* The empty memory.
LEMMA EmptyMemory == MemoryInv(Empty)
<1>1. Empty \in Memory
  <2>1. [n \in Names |-> <<>>] \in [Names -> Seq(Note)]
    <3>1. <<>> \in Seq(Note) OBVIOUS
    <3> QED BY <3>1
  <2> QED BY <2>1 DEF Empty, Memory
<1>2. \A n \in Names : ~Has(Empty, n) /\ DOMAIN Empty.notes[n] = {}
  BY DEF Empty, Has
<1>3. \A k \in Keys : Empty.masters[k] = NoWrapper BY DEF Empty
<1> QED BY <1>1, <1>2, <1>3 DEF MemoryInv

\* What is reported of a file is a state of files.
LEMMA ReportsAreFiles ==
  /\ SlaveReports \subseteq File /\ Pending \in File
  /\ Processing \in SlaveReports /\ Ready \in SlaveReports /\ Error \in SlaveReports
BY DEF SlaveReports, File, FState, SlaveStates, Pending, Processing, Ready, Error

-----------------------------------------------------------------------------
(* ChangeFileState and StartProcessing.                                    *)

Pinned(m, set, w) == {n \in set : m.files[n].master = w}

ChangedFiles(m, set, report) ==
  [n \in Names |-> IF n \in set THEN [m.files[n] EXCEPT !.file = report[n]] ELSE m.files[n]]
ChangedHeap(m, set) ==
  [w \in Wrappers |-> IF Pinned(m, set, w) = {} THEN m.heap[w]
                      ELSE Pin(m.heap[w], Cardinality(Pinned(m, set, w)))]
ChangedNotes(m, set, report) ==
  [n \in Names |-> IF n \in set
                   THEN Append(m.notes[n], [file |-> report[n], res |-> "sent",
                                            master |-> m.files[n].master])
                   ELSE m.notes[n]]

\* What ChangeFileState changes.
LEMMA ChangeFields ==
  ASSUME NEW m \in Memory, NEW set \in SUBSET Names, NEW report \in [set -> SlaveReports]
  PROVE  ChangeFileStates(m, report)
           = [files |-> ChangedFiles(m, set, report), masters |-> m.masters,
              heap |-> ChangedHeap(m, set), procs |-> m.procs,
              notes |-> ChangedNotes(m, set, report)]
<1>1. DOMAIN report = set OBVIOUS
<1>2. ChangeFileStates(m, report)
        = [m EXCEPT !.files = ChangedFiles(m, set, report), !.heap = ChangedHeap(m, set),
                    !.notes = ChangedNotes(m, set, report)]
  BY <1>1 DEF ChangeFileStates, Pinned, ChangedFiles, ChangedHeap, ChangedNotes
<1> QED BY <1>2 DEF Memory

\* Pinning keeps an object an object, with its key and its first count.
LEMMA PinKeeps ==
  ASSUME NEW o \in Object, NEW calls \in Nat
  PROVE  /\ Pin(o, calls) \in Object
         /\ Pin(o, calls).key = o.key /\ Pin(o, calls).init = o.init
         /\ Pin(o, calls).mem = o.mem /\ Pin(o, calls).pins = (o.pins + calls) % W
<1>1. W \in Nat \ {0} BY SlaveAssumption
<1>2. o.pins + calls \in Nat BY <1>1 DEF Object
<1>3. (o.pins + calls) % W \in 0 .. W - 1 BY <1>1, <1>2
<1> QED BY <1>3 DEF Pin, Object

\* Names are finitely many, and so are the files of a wrapper.
LEMMA PinnedFinite ==
  ASSUME NEW m, NEW set \in SUBSET Names, NEW w
  PROVE  IsFiniteSet(set) /\ IsFiniteSet(Pinned(m, set, w))
         /\ Cardinality(Pinned(m, set, w)) \in Nat
<1>1. IsFiniteSet(set) BY SlaveAssumption, FS_Subset
<1>2. IsFiniteSet(Pinned(m, set, w)) BY <1>1, FS_Subset DEF Pinned
<1> QED BY <1>1, <1>2, FS_CardinalityType

\* What changing the states of files does to each object.
LEMMA ChangedObject ==
  ASSUME NEW m, MemoryInv(m), NEW set \in SUBSET Names, \A n \in set : Has(m, n),
         NEW w \in Wrappers
  PROVE  LET o == ChangedHeap(m, set)[w]
         IN  /\ ~InUse(m, w) => o = Unused
             /\ InUse(m, w) => /\ o \in Object
                               /\ o.key = m.heap[w].key /\ o.init = m.heap[w].init
                               /\ o.mem = m.heap[w].mem
<1>1. m \in Memory BY DEF MemoryInv
<1>2. CASE ~InUse(m, w)
  <2>1. Pinned(m, set, w) = {} BY <1>2 DEF Pinned, MemoryInv
  <2> QED BY <1>2, <2>1 DEF ChangedHeap, InUse
<1>3. CASE InUse(m, w)
  <2>1. m.heap[w] \in Object BY <1>1, <1>3, HeapCases
  <2> QED BY <1>3, <2>1, PinKeeps, PinnedFinite DEF ChangedHeap
<1> QED BY <1>2, <1>3

\* A memory stays one when files that are there change their states.
LEMMA ChangeMemory ==
  ASSUME NEW m, MemoryInv(m), NEW set \in SUBSET Names, NEW report \in [set -> SlaveReports],
         \A n \in set : Has(m, n)
  PROVE  MemoryInv(ChangeFileStates(m, report))
<1> DEFINE c == ChangeFileStates(m, report)
<1>1. m \in Memory BY DEF MemoryInv
<1>2. /\ c.files = ChangedFiles(m, set, report) /\ c.masters = m.masters
      /\ c.heap = ChangedHeap(m, set) /\ c.procs = m.procs
      /\ c.notes = ChangedNotes(m, set, report)
      /\ c = [files |-> c.files, masters |-> c.masters, heap |-> c.heap,
              procs |-> c.procs, notes |-> c.notes]
  BY <1>1, ChangeFields
<1> HIDE DEF c
<1>3. \A w \in Wrappers : c.heap[w] \in Object \cup {Unused} /\ (InUse(m, w) => InUse(c, w))
  <2> TAKE w \in Wrappers
  <2>1. c.heap[w] = ChangedHeap(m, set)[w] BY <1>2
  <2>2. CASE ~InUse(m, w) BY <2>1, <2>2, ChangedObject
  <2>3. CASE InUse(m, w)
    <3>1. c.heap[w] \in Object BY <2>1, <2>3, ChangedObject
    <3>2. \A o \in Object : o # Unused BY DEF Object, Unused
    <3> QED BY <3>1, <3>2 DEF InUse
  <2> QED BY <2>2, <2>3
<1>4. ASSUME NEW n \in Names
      PROVE  /\ c.files[n] \in SlaveFile \cup {Absent}
             /\ Has(c, n) <=> Has(m, n)
             /\ Has(c, n) => c.files[n].master = m.files[n].master
  <2>1. CASE n \in set
    <3>1. m.files[n] \in SlaveFile BY <1>1, <2>1, FileCases
    <3>2. report[n] \in File BY <2>1, ReportsAreFiles
    <3>3. c.files[n] = [m.files[n] EXCEPT !.file = report[n]] BY <1>2, <2>1 DEF ChangedFiles
    <3>4. c.files[n] \in SlaveFile /\ c.files[n].master = m.files[n].master
      BY <3>1, <3>2, <3>3 DEF SlaveFile
    <3>5. Absent \notin SlaveFile
      BY DEF Absent, SlaveFile, File, NoFile, FState, SlaveStates, MasterStates, ABSENT
    <3> QED BY <2>1, <3>4, <3>5 DEF Has
  <2>2. CASE n \notin set
    <3>1. c.files[n] = m.files[n] BY <1>2, <2>2 DEF ChangedFiles
    <3> QED BY <1>1, <3>1 DEF Memory, Has
  <2> QED BY <2>1, <2>2
<1>5. ASSUME NEW n \in Names
      PROVE  /\ c.notes[n] \in Seq(Note)
             /\ \A k \in DOMAIN c.notes[n] : InUse(m, c.notes[n][k].master)
  <2>1. m.notes[n] \in Seq(Note) /\ \A k \in DOMAIN m.notes[n] : InUse(m, m.notes[n][k].master)
    BY <1>1 DEF Memory, MemoryInv
  <2>2. CASE n \in set
    <3> DEFINE note == [file |-> report[n], res |-> "sent", master |-> m.files[n].master]
    <3>1. note \in Note /\ InUse(m, note.master)
      <4>1. InUse(m, m.files[n].master) BY <2>2 DEF MemoryInv
      <4> QED BY <2>2, <4>1 DEF Note, InUse
    <3>2. c.notes[n] = Append(m.notes[n], note) BY <1>2, <2>2 DEF ChangedNotes
    <3> HIDE DEF note
    <3> QED BY <2>1, <3>1, <3>2
  <2>3. CASE n \notin set BY <1>2, <2>1, <2>3 DEF ChangedNotes
  <2> QED BY <2>2, <2>3
<1>6. c \in Memory
  <2>1. c.files \in [Names -> SlaveFile \cup {Absent}] BY <1>2, <1>4 DEF ChangedFiles
  <2>2. c.heap \in [Wrappers -> Object \cup {Unused}] BY <1>2, <1>3 DEF ChangedHeap
  <2>3. c.notes \in [Names -> Seq(Note)] BY <1>2, <1>5 DEF ChangedNotes
  <2>4. c.masters \in [Keys -> Wrappers \cup {NoWrapper}] /\ c.procs \in [Names -> Nat]
    BY <1>1, <1>2 DEF Memory
  <2> QED BY <1>2, <2>1, <2>2, <2>3, <2>4 DEF Memory
<1>7. \A w : InUse(m, w) => InUse(c, w) BY <1>3 DEF InUse
<1> QED BY <1>2, <1>4, <1>5, <1>6, <1>7 DEF MemoryInv, c

Outcome(set, started) == [n \in set |-> IF n \in started THEN Processing ELSE Error]

\* StartProcessing reports on each file, and counts the processes.
LEMMA StartFields ==
  ASSUME NEW m \in Memory, NEW set \in SUBSET Names, NEW started \in SUBSET set
  PROVE  /\ Outcome(set, started) \in [set -> SlaveReports]
         /\ StartProcessing(m, set, started)
              = [files |-> ChangedFiles(m, set, Outcome(set, started)), masters |-> m.masters,
                 heap |-> ChangedHeap(m, set),
                 procs |-> [n \in Names |-> IF n \in started THEN m.procs[n] + 1 ELSE m.procs[n]],
                 notes |-> ChangedNotes(m, set, Outcome(set, started))]
<1>1. Outcome(set, started) \in [set -> SlaveReports] BY ReportsAreFiles DEF Outcome
<1>2. StartProcessing(m, set, started)
        = [ChangeFileStates(m, Outcome(set, started)) EXCEPT
             !.procs = [n \in Names |-> IF n \in started THEN @[n] + 1 ELSE @[n]]]
  BY DEF StartProcessing, Outcome
<1>3. ChangeFileStates(m, Outcome(set, started))
        = [files |-> ChangedFiles(m, set, Outcome(set, started)), masters |-> m.masters,
           heap |-> ChangedHeap(m, set), procs |-> m.procs,
           notes |-> ChangedNotes(m, set, Outcome(set, started))]
  BY <1>1, ChangeFields
<1> QED BY <1>1, <1>2, <1>3

\* StartProcessing keeps the references right.
LEMMA StartMemory ==
  ASSUME NEW m, MemoryInv(m), NEW set \in SUBSET Names, NEW started \in SUBSET set,
         \A n \in set : Has(m, n)
  PROVE  MemoryInv(StartProcessing(m, set, started))
<1> DEFINE report == Outcome(set, started)
           c == ChangeFileStates(m, report)
           p == StartProcessing(m, set, started)
<1>1. m \in Memory /\ report \in [set -> SlaveReports] BY StartFields DEF MemoryInv
<1>2. MemoryInv(c) BY <1>1, ChangeMemory
<1>3. p = [c EXCEPT !.procs = [n \in Names |-> IF n \in started THEN @[n] + 1 ELSE @[n]]]
  BY DEF StartProcessing, Outcome
<1> HIDE DEF c, p
<1>4. p \in Memory
  <2>1. [n \in Names |-> IF n \in started THEN c.procs[n] + 1 ELSE c.procs[n]] \in [Names -> Nat]
    BY <1>2 DEF MemoryInv, Memory
  <2> QED BY <1>2, <1>3, <2>1 DEF MemoryInv, Memory
<1>5. p.files = c.files /\ p.masters = c.masters /\ p.heap = c.heap /\ p.notes = c.notes
  BY <1>2, <1>3 DEF MemoryInv, Memory
<1> QED BY <1>2, <1>4, <1>5 DEF MemoryInv, InUse, Has, p

-----------------------------------------------------------------------------
(* AddFile and its master.                                                 *)

FilesWith(m, n, w) == [m.files EXCEPT ![n] = [file |-> Pending, master |-> w]]

\* The memory has one file more, and perhaps one wrapper more.
LEMMA AddedMemory ==
  ASSUME NEW m0, MemoryInv(m0), NEW n \in Names, NEW u \in Uris, NEW m \in AfterAddFile(m0, n, u)
  PROVE  /\ MemoryInv(m)
         /\ m.procs = m0.procs /\ m.notes = m0.notes
         /\ \E w \in Wrappers : InUse(m, w) /\ m.files = FilesWith(m0, n, w)
         /\ \A w \in Wrappers :
              \/ m.heap[w] = m0.heap[w]
              \/ ~InUse(m0, w) /\ InUse(m, w) /\ m.heap[w].mem = "live" /\ m.heap[w].pins = m.heap[w].init
<1> DEFINE key == RpcKey(u)
           file(w) == [file |-> Pending, master |-> w]
<1>1. key \in Keys BY DEF RpcKey, Keys
<1>2. m0 \in Memory BY DEF MemoryInv
<1>3. PICK w \in Wrappers :
        /\ m.files = [m0.files EXCEPT ![n] = file(w)]
        /\ m.procs = m0.procs /\ m.notes = m0.notes
        /\ m = [files |-> m.files, masters |-> m.masters, heap |-> m.heap,
                procs |-> m.procs, notes |-> m.notes]
        /\ \/ m.heap = m0.heap /\ m.masters = m0.masters /\ InUse(m0, w)
           \/ \E pins \in PinGarbage :
                /\ m0.heap[w] = Unused
                /\ m.masters = [m0.masters EXCEPT ![key] = w]
                /\ m.heap = [m0.heap EXCEPT ![w] = [mem |-> "live", key |-> key,
                                                    pins |-> pins, init |-> pins]]
  <2>1. CASE m0.masters[key] # NoWrapper
    <3>1. m = WithFile(m0, n, m0.masters[key])
      BY <2>1 DEF AfterAddFile
    <3>2. InUse(m0, m0.masters[key]) /\ m0.masters[key] \in Wrappers
      BY <1>1, <2>1 DEF MemoryInv, InUse
    <3> QED BY <1>2, <3>1, <3>2 DEF Memory, WithFile
  <2>2. CASE m0.masters[key] = NoWrapper
    <3>1. PICK w \in {w \in Wrappers : m0.heap[w] = Unused}, pins \in PinGarbage :
            m = WithFile(WithWrapper(m0, key, w, pins), n, w)
      BY <2>2 DEF AfterAddFile
    <3>2. m = [[m0 EXCEPT !.masters[key] = w,
                          !.heap[w] = [mem |-> "live", key |-> key,
                                       pins |-> pins, init |-> pins]]
                 EXCEPT !.files[n] = file(w)]
      BY <3>1 DEF WithFile, WithWrapper
    <3> QED BY <1>2, <3>1, <3>2 DEF Memory
  <2> QED BY <2>1, <2>2
<1>4. \A v \in Wrappers :
        /\ m.heap[v] \in Object \cup {Unused}
        /\ \/ m.heap[v] = m0.heap[v]
           \/ ~InUse(m0, v) /\ InUse(m, v) /\ m.heap[v].mem = "live" /\ m.heap[v].pins = m.heap[v].init
  <2>1. CASE m.heap = m0.heap BY <1>2, <2>1 DEF Memory
  <2>2. ASSUME NEW pins \in PinGarbage, m0.heap[w] = Unused,
               m.heap = [m0.heap EXCEPT ![w] = [mem |-> "live", key |-> key,
                                                pins |-> pins, init |-> pins]]
        PROVE  \A v \in Wrappers :
                 /\ m.heap[v] \in Object \cup {Unused}
                 /\ \/ m.heap[v] = m0.heap[v]
                    \/ ~InUse(m0, v) /\ InUse(m, v) /\ m.heap[v].mem = "live"
                       /\ m.heap[v].pins = m.heap[v].init
    <3> DEFINE o == [mem |-> "live", key |-> key, pins |-> pins, init |-> pins]
    <3>1. o \in Object BY <1>1, SlaveAssumption DEF Object
    <3>2. o # Unused /\ o.mem = "live" /\ o.pins = o.init BY <3>1, Zenon DEF Unused
    <3> HIDE DEF o
    <3>3. \A v \in Wrappers : m.heap[v] = IF v = w THEN o ELSE m0.heap[v]
      BY <1>2, <2>2 DEF Memory, o
    <3> QED BY <1>2, <2>2, <3>1, <3>2, <3>3 DEF Memory, InUse
  <2> QED BY <1>3, <2>1, <2>2
<1>5. \A v : InUse(m0, v) => InUse(m, v) BY <1>4 DEF InUse
<1>6. InUse(m, w)
  BY <1>2, <1>3, <1>5 DEF InUse, Memory, Unused
<1>7. m \in Memory
  <2>1. file(w) \in SlaveFile BY ReportsAreFiles DEF SlaveFile
  <2>2. m.files \in [Names -> SlaveFile \cup {Absent}] BY <1>2, <1>3, <2>1 DEF Memory
  <2>3. m.heap \in [Wrappers -> Object \cup {Unused}] BY <1>2, <1>3, <1>4 DEF Memory
  <2>4. m.masters \in [Keys -> Wrappers \cup {NoWrapper}] BY <1>1, <1>2, <1>3 DEF Memory
  <2> QED BY <1>2, <1>3, <2>2, <2>3, <2>4 DEF Memory
<1>8. \A k \in Names : Has(m, k) => InUse(m, m.files[k].master)
  BY <1>2, <1>3, <1>5, <1>6 DEF MemoryInv, Has, Memory
<1>9. \A k \in Keys : m.masters[k] # NoWrapper => InUse(m, m.masters[k])
  BY <1>1, <1>2, <1>3, <1>5, <1>6 DEF MemoryInv, Memory
<1>10. \A x \in Names : \A k \in DOMAIN m.notes[x] : InUse(m, m.notes[x][k].master)
  BY <1>3, <1>5 DEF MemoryInv
<1> QED BY <1>3, <1>4, <1>6, <1>7, <1>8, <1>9, <1>10 DEF MemoryInv, FilesWith

-----------------------------------------------------------------------------
(* What Save() writes.                                                     *)

SavedFiles == [Names -> SavedFile \cup {Absent}]

\* What is saved of a memory: its files, with the URIs of their masters.
LEMMA SavedFacts ==
  ASSUME NEW m, MemoryInv(m)
  PROVE  /\ Saved(m) \in SavedFiles
         /\ \A n \in Names : /\ Saved(m)[n].file.st = State(m, n)
                             /\ Saved(m)[n] = Absent <=> ~Has(m, n)
         /\ Resumed(Saved(m)) = In(m, "PROCESSING")
<1>1. m \in Memory BY DEF MemoryInv
<1>2. ASSUME NEW n \in Names
      PROVE  /\ Saved(m)[n] \in SavedFile \cup {Absent}
             /\ Saved(m)[n].file.st = State(m, n)
             /\ Saved(m)[n] = Absent <=> ~Has(m, n)
  <2>1. CASE Has(m, n)
    <3>1. m.files[n] \in SlaveFile BY <1>1, <2>1, FileCases
    <3>2. m.heap[m.files[n].master] \in Object
      BY <1>1, <2>1, HeapCases DEF MemoryInv, InUse
    <3>3. WrapperOf(m, n).key[1] \in Uris BY <3>2 DEF WrapperOf, Object, Keys
    <3>4. Saved(m)[n] = [file |-> m.files[n].file, uri |-> WrapperOf(m, n).key[1]]
      BY <2>1 DEF Saved
    <3>5. Saved(m)[n] \in SavedFile BY <3>1, <3>3, <3>4 DEF SlaveFile, SavedFile
    <3>6. Saved(m)[n].file.st = State(m, n) /\ State(m, n) # ABSENT
      BY <1>1, <2>1, <3>4, FileCases DEF State
    <3>7. Absent.file.st = ABSENT BY DEF Absent, NoFile
    <3> QED BY <2>1, <3>5, <3>6, <3>7
  <2>2. CASE ~Has(m, n)
    <3>1. Saved(m)[n] = Absent BY <2>2 DEF Saved
    <3> QED BY <2>2, <3>1 DEF Has, State
  <2> QED BY <2>1, <2>2
<1>3. Saved(m) \in SavedFiles BY <1>2 DEF Saved, SavedFiles
<1>4. Resumed(Saved(m)) = In(m, "PROCESSING") BY <1>2 DEF Resumed, In
<1> QED BY <1>2, <1>3, <1>4

\* A file is saved as before while it and the key of its wrapper stay.
LEMMA SavedSame ==
  ASSUME NEW m, NEW p, NEW n \in Names, p.files[n] = m.files[n],
         Has(m, n) => p.heap[m.files[n].master].key = m.heap[m.files[n].master].key
  PROVE  Saved(p)[n] = Saved(m)[n] /\ State(p, n) = State(m, n) /\ Has(p, n) = Has(m, n)
BY DEF Saved, Has, State, WrapperOf

\* What ChangeFileState does to a file, and that it leaves the others alone.
LEMMA ChangeEffect ==
  ASSUME NEW m, MemoryInv(m), NEW set \in SUBSET Names, NEW report \in [set -> SlaveReports],
         \A n \in set : Has(m, n)
  PROVE  LET c == ChangeFileStates(m, report)
         IN  /\ \A n \in set : State(c, n) = report[n].st
             /\ \A n \in Names \ set : State(c, n) = State(m, n) /\ Saved(c)[n] = Saved(m)[n]
             /\ \A n \in Names : Has(c, n) <=> Has(m, n)
             /\ c.procs = m.procs
<1> DEFINE c == ChangeFileStates(m, report)
<1>1. m \in Memory BY DEF MemoryInv
<1>2. /\ c.files = ChangedFiles(m, set, report) /\ c.heap = ChangedHeap(m, set)
      /\ c.procs = m.procs
  BY <1>1, ChangeFields
<1> HIDE DEF c
<1>3. ASSUME NEW n \in set PROVE State(c, n) = report[n].st /\ Has(c, n)
  <2>1. m.files[n] \in SlaveFile BY <1>1, FileCases
  <2>2. c.files[n] = [m.files[n] EXCEPT !.file = report[n]] BY <1>2 DEF ChangedFiles
  <2>3. c.files[n].file = report[n] BY <2>1, <2>2 DEF SlaveFile
  <2>4. report[n].st # ABSENT BY DEF SlaveReports, ABSENT
  <2> QED BY <2>3, <2>4 DEF State, Has, Absent, NoFile
<1>4. ASSUME NEW n \in Names \ set
      PROVE  State(c, n) = State(m, n) /\ Saved(c)[n] = Saved(m)[n] /\ Has(c, n) = Has(m, n)
  <2>1. c.files[n] = m.files[n] BY <1>2 DEF ChangedFiles
  <2>2. Has(m, n) => c.heap[m.files[n].master].key = m.heap[m.files[n].master].key
    BY <1>2, ChangedObject DEF MemoryInv, InUse
  <2> QED BY <2>1, <2>2, SavedSame
<1> QED BY <1>2, <1>3, <1>4 DEF c

StateAfter(m, set, started, n) ==
  IF n \in started THEN "PROCESSING" ELSE IF n \in set THEN "ERROR" ELSE State(m, n)
ProcsAfter(m, started, n) == IF n \in started THEN m.procs[n] + 1 ELSE m.procs[n]

\* What StartProcessing does.
LEMMA StartEffect ==
  ASSUME NEW m, MemoryInv(m), NEW set \in SUBSET Names, NEW started \in SUBSET set,
         \A n \in set : Has(m, n)
  PROVE  LET p == StartProcessing(m, set, started)
         IN  /\ \A n \in Names : State(p, n) = StateAfter(m, set, started, n)
             /\ \A n \in Names \ set : Saved(p)[n] = Saved(m)[n]
             /\ \A n \in Names : Has(p, n) <=> Has(m, n)
             /\ \A n \in Names : p.procs[n] = ProcsAfter(m, started, n)
<1> DEFINE report == Outcome(set, started)
           c == ChangeFileStates(m, report)
           p == StartProcessing(m, set, started)
<1>1. m \in Memory /\ report \in [set -> SlaveReports] BY StartFields DEF MemoryInv
<1>2. /\ p.files = c.files /\ p.heap = c.heap
      /\ \A n \in Names : p.procs[n] = ProcsAfter(m, started, n)
  BY <1>1, StartFields, ChangeFields DEF ProcsAfter
<1>3. /\ \A n \in set : State(c, n) = report[n].st
      /\ \A n \in Names \ set : State(c, n) = State(m, n) /\ Saved(c)[n] = Saved(m)[n]
      /\ \A n \in Names : Has(c, n) <=> Has(m, n)
  BY <1>1, ChangeEffect
<1>4. \A n \in set : report[n].st = IF n \in started THEN "PROCESSING" ELSE "ERROR"
  BY DEF Outcome, Processing, Error
<1> HIDE DEF report, c, p
<1>5. \A n \in Names : Saved(p)[n] = Saved(c)[n] /\ State(p, n) = State(c, n) /\ Has(p, n) = Has(c, n)
  BY <1>2, SavedSame
<1> QED BY <1>2, <1>3, <1>4, <1>5 DEF p, StateAfter

-----------------------------------------------------------------------------
(* Load() and AddFile.                                                     *)

\* Load makes the memory whose files are those that were saved.
LEMMA LoadedMemory ==
  ASSUME NEW saved \in SavedFiles,
         NEW a \in [UrisOf(saved) -> Wrappers], NEW pins \in [UrisOf(saved) -> PinGarbage],
         \A u, v \in UrisOf(saved) : a[u] = a[v] => u = v
  PROVE  LET m == Loaded(saved, a, pins)
         IN  /\ MemoryInv(m) /\ Saved(m) = saved
             /\ m.procs = Empty.procs /\ m.notes = Empty.notes
             /\ \A w \in Wrappers : InUse(m, w) => m.heap[w].mem = "live" /\ m.heap[w].pins = m.heap[w].init
<1> DEFINE m == Loaded(saved, a, pins)
           uris == UrisOf(saved)
           object(u) == [mem |-> "live", key |-> LoadKey(u), pins |-> pins[u], init |-> pins[u]]
           Of(w) == \E u \in uris : a[u] = w
           file(n) == [file |-> saved[n].file, master |-> a[saved[n].uri]]
<1>1. /\ m.files = [n \in Names |-> IF n \in Known(saved) THEN file(n) ELSE Absent]
      /\ m.masters = [k \in Keys |-> IF \E u \in uris : k = LoadKey(u) THEN a[k[1]] ELSE NoWrapper]
      /\ m.heap = [w \in Wrappers |-> IF Of(w) THEN object(CHOOSE u \in uris : a[u] = w) ELSE Unused]
      /\ m.procs = Empty.procs /\ m.notes = Empty.notes
      /\ m = [files |-> m.files, masters |-> m.masters, heap |-> m.heap,
              procs |-> m.procs, notes |-> m.notes]
  <2> DEFINE files == [n \in Names |-> IF n \in Known(saved) THEN file(n) ELSE Absent]
             masters == [k \in Keys |-> IF \E u \in uris : k = LoadKey(u) THEN a[k[1]] ELSE NoWrapper]
             heap == [w \in Wrappers |-> IF Of(w) THEN object(CHOOSE u \in uris : a[u] = w) ELSE Unused]
  <2>1. m = [Empty EXCEPT !.files = files, !.masters = masters, !.heap = heap] BY DEF Loaded
  <2> HIDE DEF files, masters, heap, m
  <2>2. /\ m.files = files /\ m.masters = masters /\ m.heap = heap
        /\ m.procs = Empty.procs /\ m.notes = Empty.notes
        /\ m = [files |-> m.files, masters |-> m.masters, heap |-> m.heap,
                procs |-> m.procs, notes |-> m.notes]
    BY <2>1 DEF Empty
  <2> QED BY <2>2 DEF files, masters, heap
<1> HIDE DEF m
<1>2. /\ \A n \in Names : n \in Known(saved) <=> saved[n] # Absent
      /\ \A n \in Known(saved) : n \in Names /\ saved[n] \in SavedFile /\ saved[n].uri \in uris
  BY DEF Known, UrisOf, SavedFiles
<1>3. uris \subseteq Uris BY <1>2 DEF UrisOf, SavedFile
<1>4. \A u \in uris : object(u) \in Object /\ object(u) # Unused
  <2> TAKE u \in uris
  <2>1. LoadKey(u) \in Keys BY <1>3 DEF LoadKey, Keys
  <2>2. object(u) \in Object BY <2>1, SlaveAssumption DEF Object
  <2>3. \A o \in Object : o # Unused BY DEF Object, Unused
  <2> QED BY <2>2, <2>3
<1> HIDE DEF object
<1>5. \A u \in uris : a[u] \in Wrappers /\ m.heap[a[u]] = object(u) /\ InUse(m, a[u])
  <2> TAKE u \in uris
  <2>1. a[u] \in Wrappers /\ Of(a[u]) OBVIOUS
  <2>2. (CHOOSE v \in uris : a[v] = a[u]) = u OBVIOUS
  <2>3. m.heap[a[u]] = object(u) BY <1>1, <2>1, <2>2
  <2> QED BY <1>4, <2>1, <2>3 DEF InUse
<1>6. ASSUME NEW w \in Wrappers
      PROVE  \/ m.heap[w] = Unused
             \/ \E u \in uris : w = a[u] /\ m.heap[w] = object(u)
  <2>1. CASE ~Of(w) BY <1>1, <2>1
  <2>2. CASE Of(w) BY <1>5, <2>2
  <2> QED BY <2>1, <2>2
<1>7. ASSUME NEW n \in Names
      PROVE  /\ m.files[n] \in SlaveFile \cup {Absent}
             /\ Has(m, n) => InUse(m, m.files[n].master)
             /\ Saved(m)[n] = saved[n]
  <2>1. CASE n \in Known(saved)
    <3>1. m.files[n] = file(n) BY <1>1, <2>1
    <3>2. saved[n] \in SavedFile /\ saved[n].uri \in uris BY <1>2, <2>1
    <3>3. file(n) \in SlaveFile BY <1>5, <3>2 DEF SlaveFile, SavedFile
    <3>4. Has(m, n)
      BY <3>1, <3>3 DEF Has, Absent, SlaveFile, File, NoFile, FState, SlaveStates, MasterStates, ABSENT
    <3>5. InUse(m, m.files[n].master) /\ WrapperOf(m, n) = object(saved[n].uri)
      BY <1>5, <3>1, <3>2 DEF WrapperOf
    <3>6. WrapperOf(m, n).key[1] = saved[n].uri
      <4>1. \A u \in uris : object(u).key = LoadKey(u) BY DEF object
      <4>2. \A u \in uris : LoadKey(u)[1] = u BY DEF LoadKey
      <4> QED BY <3>2, <3>5, <4>1, <4>2
    <3>7. Saved(m)[n] = [file |-> saved[n].file, uri |-> saved[n].uri]
      BY <3>1, <3>4, <3>6 DEF Saved
    <3>8. Saved(m)[n] = saved[n] BY <3>2, <3>7 DEF SavedFile
    <3> QED BY <3>1, <3>3, <3>5, <3>8
  <2>2. CASE n \notin Known(saved)
    <3>1. m.files[n] = Absent /\ saved[n] = Absent BY <1>1, <1>2, <2>2
    <3> QED BY <3>1 DEF Has, Saved
  <2> QED BY <2>1, <2>2
<1>8. ASSUME NEW k \in Keys
      PROVE  /\ m.masters[k] \in Wrappers \cup {NoWrapper}
             /\ m.masters[k] # NoWrapper => InUse(m, m.masters[k])
  <2>1. CASE \E u \in uris : k = LoadKey(u)
    <3>1. PICK u \in uris : k = LoadKey(u) BY <2>1
    <3>2. m.masters[k] = a[u] BY <1>1, <2>1, <3>1 DEF LoadKey
    <3> QED BY <1>5, <3>2
  <2>2. CASE ~\E u \in uris : k = LoadKey(u) BY <1>1, <2>2
  <2> QED BY <2>1, <2>2
<1>9. m \in Memory
  <2>1. m.files \in [Names -> SlaveFile \cup {Absent}] BY <1>1, <1>7
  <2>2. m.masters \in [Keys -> Wrappers \cup {NoWrapper}] BY <1>1, <1>8
  <2>3. m.heap \in [Wrappers -> Object \cup {Unused}] BY <1>1, <1>4, <1>6
  <2>4. m.procs \in [Names -> Nat] /\ m.notes \in [Names -> Seq(Note)]
    BY <1>1, EmptyMemory DEF MemoryInv, Memory
  <2> QED BY <1>1, <2>1, <2>2, <2>3, <2>4 DEF Memory
<1>10. \A n \in Names : DOMAIN m.notes[n] = {} BY <1>1 DEF Empty
<1>11. MemoryInv(m) BY <1>7, <1>8, <1>9, <1>10 DEF MemoryInv
<1>12. Saved(m) = saved
  <2>1. Saved(m) \in SavedFiles BY <1>11, SavedFacts
  <2> QED BY <1>7, <2>1 DEF SavedFiles
<1>13. \A w \in Wrappers : InUse(m, w) => m.heap[w].mem = "live" /\ m.heap[w].pins = m.heap[w].init
  <2>1. \A u \in uris : object(u).mem = "live" /\ object(u).pins = object(u).init BY DEF object
  <2> QED BY <1>6, <2>1 DEF InUse
<1> QED BY <1>1, <1>11, <1>12, <1>13 DEF m

\* AddFile adds a file that is PENDING and changes no other one.
LEMMA AddedEffect ==
  ASSUME NEW m0, MemoryInv(m0), NEW n \in Names, NEW u \in Uris, NEW m \in AfterAddFile(m0, n, u)
  PROVE  /\ State(m, n) = "PENDING"
         /\ \A k \in Names \ {n} : State(m, k) = State(m0, k) /\ Saved(m)[k] = Saved(m0)[k]
<1>1. PICK w \in Wrappers : InUse(m, w) /\ m.files = FilesWith(m0, n, w)
  BY AddedMemory
<1>2. m0 \in Memory BY DEF MemoryInv
<1>3. State(m, n) = "PENDING" BY <1>1, <1>2 DEF FilesWith, State, Memory, Pending
<1>4. ASSUME NEW k \in Names \ {n}
      PROVE  State(m, k) = State(m0, k) /\ Saved(m)[k] = Saved(m0)[k]
  <2>1. m.files[k] = m0.files[k] BY <1>1, <1>2 DEF FilesWith, Memory
  <2>2. Has(m0, k) => m.heap[m0.files[k].master] = m0.heap[m0.files[k].master]
    BY AddedMemory DEF MemoryInv, InUse
  <2> QED BY <2>1, <2>2, SavedSame
<1> QED BY <1>3, <1>4

-----------------------------------------------------------------------------
(* The work of one slave: what is in memory, and what is on disk.          *)

OneProcess(m, removed) ==
  \A n \in Names \ removed :
    m.procs[n] = IF State(m, n) = "PROCESSING" THEN 1 ELSE 0

Durable(m, saved) ==
  \A n \in Names : (Has(m, n) /\ State(m, n) # "PENDING") => saved[n] = Saved(m)[n]

\* What is ready on disk is so in memory.
ReadyHeld(m, saved, removed) ==
  \A n \in Names \ removed : saved[n].file.st = "SLAVE_READY" => Saved(m)[n] = saved[n]

\* The inductive invariant.  A process that is down has nothing in memory; what
\* it will resume is within the limit; and what is ready is in memory while it
\* runs, or Save() would lose it.
WorkOK(up, m, saved, removed) ==
  /\ MemoryInv(m)
  /\ saved \in SavedFiles
  /\ removed \in SUBSET Names
  /\ ~up => m = Empty
  /\ Cardinality(In(m, "PROCESSING")) <= Parallel
  /\ Cardinality(Resumed(saved)) <= Parallel
  /\ OneProcess(m, removed)
  /\ Durable(m, saved)
  /\ up => ReadyHeld(m, saved, removed)

\* What is on disk after a handler that changes the states of a set of files.
SavedAfter(saved, set, p) == IF set # {} THEN Saved(p) ELSE saved

\* What was ready on disk stays as it was.
Kept(saved, next, removed) ==
  \A n \in Names \ removed : saved[n].file.st = "SLAVE_READY" => next[n] = saved[n]

\* Counting sets of files.
LEMMA Counts ==
  ASSUME NEW A \in SUBSET Names, NEW B \in SUBSET Names
  PROVE  /\ Cardinality(A) \in Nat /\ Cardinality(A \cup B) \in Nat
         /\ Cardinality(A \cup B) <= Cardinality(A) + Cardinality(B)
         /\ A \subseteq B => Cardinality(A) <= Cardinality(B)
<1>1. IsFiniteSet(A) /\ IsFiniteSet(B) BY SlaveAssumption, FS_Subset
<1>2. IsFiniteSet(A \cup B) /\ IsFiniteSet(A \cap B) BY <1>1, FS_Union, FS_Intersection
<1>3. /\ Cardinality(A) \in Nat /\ Cardinality(B) \in Nat
      /\ Cardinality(A \cup B) \in Nat /\ Cardinality(A \cap B) \in Nat
  BY <1>1, <1>2, FS_CardinalityType
<1>4. Cardinality(A \cup B) = Cardinality(A) + Cardinality(B) - Cardinality(A \cap B)
  BY <1>1, FS_Union
<1>5. A \subseteq B => Cardinality(A) <= Cardinality(B) BY <1>1, FS_Subset
<1> QED BY <1>3, <1>4, <1>5

\* After Save(), disk and memory agree.
LEMMA SavingWork ==
  ASSUME NEW m, MemoryInv(m), NEW removed \in SUBSET Names, OneProcess(m, removed),
         Cardinality(In(m, "PROCESSING")) <= Parallel
  PROVE  WorkOK(TRUE, m, Saved(m), removed)
BY SavedFacts DEF WorkOK, Durable, ReadyHeld

\* A process that ends leaves what is on disk.
LEMMA EmptyWork ==
  ASSUME NEW saved \in SavedFiles, NEW removed \in SUBSET Names,
         Cardinality(Resumed(saved)) <= Parallel
  PROVE  WorkOK(FALSE, Empty, saved, removed)
<1>1. \A n \in Names : ~Has(Empty, n) /\ State(Empty, n) = ABSENT /\ Empty.procs[n] = 0
  BY DEF Empty, Has, State, Absent, NoFile
<1>2. In(Empty, "PROCESSING") = {} BY <1>1 DEF In, ABSENT
<1>3. Cardinality(In(Empty, "PROCESSING")) <= Parallel BY <1>2, FS_EmptySet, SlaveAssumption
<1>4. OneProcess(Empty, removed) BY <1>1 DEF OneProcess, ABSENT
<1>5. Durable(Empty, saved) BY <1>1 DEF Durable
<1> QED BY <1>3, <1>4, <1>5, EmptyMemory DEF WorkOK

\* A handler that leaves the files, their processes and the keys alone.
LEMMA SameWork ==
  ASSUME NEW m, NEW saved, NEW removed, WorkOK(TRUE, m, saved, removed),
         NEW p, MemoryInv(p), p.files = m.files, p.procs = m.procs,
         \A w \in Wrappers : InUse(m, w) => p.heap[w].key = m.heap[w].key
  PROVE  WorkOK(TRUE, p, saved, removed)
<1>1. \A n \in Names : Saved(p)[n] = Saved(m)[n] /\ State(p, n) = State(m, n) /\ Has(p, n) = Has(m, n)
  <2> TAKE n \in Names
  <2>1. Has(m, n) => p.heap[m.files[n].master].key = m.heap[m.files[n].master].key
    BY DEF WorkOK, MemoryInv, InUse
  <2> QED BY <2>1, SavedSame
<1>2. In(p, "PROCESSING") = In(m, "PROCESSING") BY <1>1 DEF In
<1>3. OneProcess(p, removed) BY <1>1 DEF WorkOK, OneProcess
<1>4. Durable(p, saved) BY <1>1 DEF WorkOK, Durable
<1>5. ReadyHeld(p, saved, removed) BY <1>1 DEF WorkOK, ReadyHeld
<1> QED BY <1>2, <1>3, <1>4, <1>5 DEF WorkOK

\* AddFile, and the files that it starts.
LEMMA AddWork ==
  ASSUME NEW m0, NEW saved, NEW removed, WorkOK(TRUE, m0, saved, removed),
         NEW n \in Names, ~Has(m0, n), NEW u \in Uris, NEW m \in AfterAddFile(m0, n, u),
         NEW more \in MoreFiles(m), NEW started \in SUBSET more
  PROVE  LET p == StartProcessing(m, more, started)
             next == SavedAfter(saved, more, p)
         IN  WorkOK(TRUE, p, next, removed) /\ Kept(saved, next, removed)
<1> DEFINE p == StartProcessing(m, more, started)
<1>1. /\ MemoryInv(m0) /\ m0 \in Memory /\ saved \in SavedFiles /\ removed \in SUBSET Names
      /\ OneProcess(m0, removed) /\ Durable(m0, saved) /\ ReadyHeld(m0, saved, removed)
      /\ Cardinality(In(m0, "PROCESSING")) <= Parallel
      /\ Cardinality(Resumed(saved)) <= Parallel
  BY DEF WorkOK, MemoryInv
<1>2. MemoryInv(m) /\ m \in Memory /\ m.procs = m0.procs BY <1>1, AddedMemory DEF MemoryInv
<1>3. /\ State(m, n) = "PENDING"
      /\ \A k \in Names \ {n} : State(m, k) = State(m0, k) /\ Saved(m)[k] = Saved(m0)[k]
  BY <1>1, AddedEffect
<1>4. State(m0, n) = ABSENT BY <1>1, FileCases
<1>5. /\ more \in SUBSET Names
      /\ \A k \in more : State(m, k) = "PENDING"
      /\ more = {} \/ Cardinality(In(m, "PROCESSING")) + Cardinality(more) <= Parallel
  BY DEF MoreFiles, HasRoom, In
<1>6. \A k \in more : Has(m, k) BY <1>2, <1>5, FileCases DEF FState, SlaveStates
<1>7. In(m, "PROCESSING") = In(m0, "PROCESSING") BY <1>3, <1>4 DEF In, ABSENT
<1>8. /\ \A k \in Names : State(p, k) = StateAfter(m, more, started, k)
      /\ \A k \in Names \ more : Saved(p)[k] = Saved(m)[k]
      /\ \A k \in Names : p.procs[k] = ProcsAfter(m, started, k)
  BY <1>2, <1>5, <1>6, StartEffect
<1>9. MemoryInv(p) BY <1>2, <1>5, <1>6, StartMemory
<1> HIDE DEF p
<1>10. Cardinality(In(p, "PROCESSING")) <= Parallel
  <2>1. In(p, "PROCESSING") = In(m, "PROCESSING") \cup started BY <1>5, <1>8 DEF In, StateAfter
  <2>2. In(m, "PROCESSING") \in SUBSET Names /\ started \in SUBSET Names BY <1>5 DEF In
  <2>3. CASE more = {}
    <3>1. In(p, "PROCESSING") = In(m0, "PROCESSING") BY <1>7, <2>1, <2>3
    <3> QED BY <1>1, <3>1
  <2>4. CASE Cardinality(In(m, "PROCESSING")) + Cardinality(more) <= Parallel
    <3>1. Cardinality(started) <= Cardinality(more) BY <1>5, <2>2, Counts
    <3>2. /\ Cardinality(In(p, "PROCESSING")) <= Cardinality(In(m, "PROCESSING")) + Cardinality(started)
          /\ Cardinality(In(p, "PROCESSING")) \in Nat /\ Cardinality(In(m, "PROCESSING")) \in Nat
          /\ Cardinality(started) \in Nat /\ Cardinality(more) \in Nat
      BY <1>5, <2>1, <2>2, Counts
    <3> QED BY <2>4, <3>1, <3>2, SlaveAssumption
  <2> QED BY <1>5, <2>3, <2>4
<1>11. OneProcess(p, removed)
  <2> SUFFICES ASSUME NEW k \in Names \ removed
               PROVE  p.procs[k] = IF State(p, k) = "PROCESSING" THEN 1 ELSE 0
    BY DEF OneProcess
  <2>1. m.procs[k] = IF State(m, k) = "PROCESSING" THEN 1 ELSE 0
    BY <1>1, <1>2, <1>3, <1>4 DEF OneProcess, ABSENT
  <2> QED BY <1>5, <1>8, <2>1 DEF StateAfter, ProcsAfter
<1>12. ASSUME NEW k \in Names \ removed, saved[k].file.st = "SLAVE_READY"
       PROVE  Saved(p)[k] = saved[k]
  <2>1. Saved(m0)[k] = saved[k] BY <1>1, <1>12 DEF ReadyHeld
  <2>2. State(m0, k) = "SLAVE_READY" BY <1>1, <1>12, <2>1, SavedFacts
  <2>3. k # n BY <1>4, <2>2 DEF ABSENT
  <2>4. k \notin more BY <1>3, <1>5, <2>2, <2>3
  <2> QED BY <1>3, <1>8, <2>1, <2>3, <2>4
<1>13. CASE more # {}
  <2>1. WorkOK(TRUE, p, Saved(p), removed) BY <1>1, <1>9, <1>10, <1>11, SavingWork
  <2> QED BY <1>12, <1>13, <2>1 DEF Kept, SavedAfter, p
<1>14. CASE more = {}
  <2>1. Durable(p, saved)
    <3> SUFFICES ASSUME NEW k \in Names, Has(p, k), State(p, k) # "PENDING"
                 PROVE  saved[k] = Saved(p)[k]
      BY DEF Durable
    <3>1. State(p, k) = State(m, k) /\ Saved(p)[k] = Saved(m)[k] BY <1>8, <1>14 DEF StateAfter
    <3>2. k # n BY <1>3, <3>1
    <3>3. State(m0, k) = State(p, k) /\ Saved(m0)[k] = Saved(p)[k] BY <1>3, <3>1, <3>2
    <3>4. Has(m0, k)
      <4>1. p \in Memory BY <1>9 DEF MemoryInv
      <4> QED BY <1>1, <3>3, <4>1, FileCases
    <3> QED BY <1>1, <3>3, <3>4 DEF Durable
  <2>2. ReadyHeld(p, saved, removed) BY <1>12 DEF ReadyHeld
  <2>3. WorkOK(TRUE, p, saved, removed) BY <1>1, <1>9, <1>10, <1>11, <2>1, <2>2 DEF WorkOK
  <2> QED BY <1>14, <2>3 DEF Kept, SavedAfter, p
<1> QED BY <1>13, <1>14

\* DelFile.
LEMMA DelWork ==
  ASSUME NEW m, NEW saved, NEW removed, WorkOK(TRUE, m, saved, removed), NEW n \in Names
  PROVE  WorkOK(TRUE, [m EXCEPT !.files[n] = Absent], saved, removed \cup {n})
<1> DEFINE p == [m EXCEPT !.files[n] = Absent]
<1>1. /\ MemoryInv(m) /\ m \in Memory /\ saved \in SavedFiles /\ removed \in SUBSET Names
      /\ OneProcess(m, removed) /\ Durable(m, saved) /\ ReadyHeld(m, saved, removed)
      /\ Cardinality(In(m, "PROCESSING")) <= Parallel
      /\ Cardinality(Resumed(saved)) <= Parallel
  BY DEF WorkOK, MemoryInv
<1>2. /\ p \in Memory
      /\ p.masters = m.masters /\ p.heap = m.heap /\ p.procs = m.procs /\ p.notes = m.notes
      /\ p.files[n] = Absent /\ \A k \in Names \ {n} : p.files[k] = m.files[k]
  BY <1>1 DEF Memory
<1> HIDE DEF p
<1>3. \A k \in Names \ {n} : Saved(p)[k] = Saved(m)[k] /\ State(p, k) = State(m, k) /\ Has(p, k) = Has(m, k)
  BY <1>2, SavedSame
<1>4. ~Has(p, n) /\ State(p, n) = ABSENT BY <1>2 DEF Has, State, Absent, NoFile
<1>5. MemoryInv(p) BY <1>1, <1>2, <1>3, <1>4 DEF MemoryInv, InUse
<1>6. Cardinality(In(p, "PROCESSING")) <= Parallel
  <2>1. /\ In(p, "PROCESSING") \subseteq In(m, "PROCESSING")
        /\ In(m, "PROCESSING") \in SUBSET Names /\ In(p, "PROCESSING") \in SUBSET Names
    BY <1>3, <1>4 DEF In, ABSENT
  <2>2. /\ Cardinality(In(p, "PROCESSING")) <= Cardinality(In(m, "PROCESSING"))
        /\ Cardinality(In(p, "PROCESSING")) \in Nat /\ Cardinality(In(m, "PROCESSING")) \in Nat
    BY <2>1, Counts
  <2> QED BY <1>1, <2>2, SlaveAssumption
<1>7. OneProcess(p, removed \cup {n}) BY <1>1, <1>2, <1>3 DEF OneProcess
<1>8. Durable(p, saved) BY <1>1, <1>3, <1>4 DEF Durable
<1>9. ReadyHeld(p, saved, removed \cup {n}) BY <1>1, <1>3 DEF ReadyHeld
<1> QED BY <1>1, <1>5, <1>6, <1>7, <1>8, <1>9 DEF WorkOK, p

\* The memory after the exit of a process of a file.
LEMMA ReapedMemory ==
  ASSUME NEW m, MemoryInv(m), NEW n \in Names, m.procs[n] > 0
  PROVE  LET p == Reaped(m, n)
         IN  /\ MemoryInv(p) /\ p.files = m.files /\ p.heap = m.heap /\ p.notes = m.notes
             /\ p.procs = [m.procs EXCEPT ![n] = @ - 1]
             /\ \A k \in Names : Has(p, k) = Has(m, k) /\ State(p, k) = State(m, k)
                                 /\ Saved(p)[k] = Saved(m)[k]
<1> DEFINE p == Reaped(m, n)
<1>1. m \in Memory BY DEF MemoryInv
<1>2. m.procs \in [Names -> Nat] BY <1>1 DEF Memory
<1>3. m.procs[n] - 1 \in Nat BY <1>2
<1>4. [m.procs EXCEPT ![n] = @ - 1] \in [Names -> Nat] BY <1>2, <1>3
<1>5. p = [m EXCEPT !.procs = [m.procs EXCEPT ![n] = @ - 1]] BY <1>1 DEF Reaped, Memory
<1>6. /\ p \in Memory /\ p.procs = [m.procs EXCEPT ![n] = @ - 1]
      /\ p.files = m.files /\ p.masters = m.masters /\ p.heap = m.heap /\ p.notes = m.notes
  BY <1>1, <1>4, <1>5 DEF Memory
<1> HIDE DEF p
<1>7. \A k \in Names : Has(p, k) = Has(m, k) /\ State(p, k) = State(m, k)
                       /\ Saved(p)[k] = Saved(m)[k]
  BY <1>6, SavedSame
<1>8. MemoryInv(p) BY <1>6, <1>7 DEF MemoryInv, InUse
<1> QED BY <1>6, <1>7, <1>8 DEF p

\* ProcessingCompleted, of a file that is there or is not.
LEMMA CompletedWork ==
  ASSUME NEW m0, NEW saved, NEW removed, WorkOK(TRUE, m0, saved, removed),
         NEW n \in Names, m0.procs[n] > 0, NEW report \in {Ready, Error}
  PROVE  LET m == Reaped(m0, n)
             p == ChangeFileStates(m, [x \in {n} |-> report])
         IN  /\ Has(m, n) => WorkOK(TRUE, p, Saved(p), removed) /\ Kept(saved, Saved(p), removed)
             /\ ~Has(m, n) => WorkOK(TRUE, m, saved, removed)
<1> DEFINE m == Reaped(m0, n)
           reports == [x \in {n} |-> report]
           p == ChangeFileStates(m, reports)
<1>1. /\ MemoryInv(m0) /\ m0 \in Memory /\ saved \in SavedFiles /\ removed \in SUBSET Names
      /\ OneProcess(m0, removed) /\ Durable(m0, saved) /\ ReadyHeld(m0, saved, removed)
      /\ Cardinality(In(m0, "PROCESSING")) <= Parallel
      /\ Cardinality(Resumed(saved)) <= Parallel
  BY DEF WorkOK, MemoryInv
<1>2. /\ MemoryInv(m) /\ m.procs = [m0.procs EXCEPT ![n] = @ - 1]
      /\ \A k \in Names : Has(m, k) = Has(m0, k) /\ State(m, k) = State(m0, k)
                          /\ Saved(m)[k] = Saved(m0)[k]
  BY <1>1, ReapedMemory
<1>3. m0.procs \in [Names -> Nat] BY <1>1 DEF Memory
<1>4. n \notin removed => State(m0, n) = "PROCESSING" /\ m0.procs[n] = 1
  BY <1>1 DEF OneProcess
<1> HIDE DEF m
<1>5. ASSUME ~Has(m, n) PROVE WorkOK(TRUE, m, saved, removed)
  <2>1. State(m0, n) = ABSENT BY <1>1, <1>2, <1>5, FileCases
  <2>2. n \in removed BY <1>4, <2>1 DEF ABSENT
  <2>3. OneProcess(m, removed) BY <1>1, <1>2, <1>3, <2>2 DEF OneProcess
  <2>4. In(m, "PROCESSING") = In(m0, "PROCESSING") BY <1>2 DEF In
  <2>5. Durable(m, saved) /\ ReadyHeld(m, saved, removed) BY <1>1, <1>2 DEF Durable, ReadyHeld
  <2> QED BY <1>1, <1>2, <2>3, <2>4, <2>5 DEF WorkOK
<1>6. ASSUME Has(m, n)
      PROVE  WorkOK(TRUE, p, Saved(p), removed) /\ Kept(saved, Saved(p), removed)
  <2>1. reports \in [{n} -> SlaveReports] /\ reports[n] = report BY ReportsAreFiles
  <2>2. \A k \in {n} : Has(m, k) BY <1>6
  <2>3. /\ \A k \in {n} : State(p, k) = reports[k].st
        /\ \A k \in Names \ {n} : State(p, k) = State(m, k) /\ Saved(p)[k] = Saved(m)[k]
        /\ p.procs = m.procs
    BY <1>2, <2>1, <2>2, ChangeEffect
  <2>4. MemoryInv(p) BY <1>2, <2>1, <2>2, ChangeMemory
  <2> HIDE DEF p, reports
  <2>5. State(p, n) # "PROCESSING" BY <2>1, <2>3 DEF Ready, Error
  <2>6. Cardinality(In(p, "PROCESSING")) <= Parallel
    <3>1. /\ In(p, "PROCESSING") \subseteq In(m0, "PROCESSING")
          /\ In(m0, "PROCESSING") \in SUBSET Names /\ In(p, "PROCESSING") \in SUBSET Names
      BY <1>2, <2>3, <2>5 DEF In
    <3>2. /\ Cardinality(In(p, "PROCESSING")) <= Cardinality(In(m0, "PROCESSING"))
          /\ Cardinality(In(p, "PROCESSING")) \in Nat /\ Cardinality(In(m0, "PROCESSING")) \in Nat
      BY <3>1, Counts
    <3> QED BY <1>1, <3>2, SlaveAssumption
  <2>7. OneProcess(p, removed)
    BY <1>1, <1>2, <1>3, <1>4, <2>3, <2>5 DEF OneProcess
  <2>8. Kept(saved, Saved(p), removed)
    <3> SUFFICES ASSUME NEW k \in Names \ removed, saved[k].file.st = "SLAVE_READY"
                 PROVE  Saved(p)[k] = saved[k]
      BY DEF Kept
    <3>1. Saved(m0)[k] = saved[k] BY <1>1 DEF ReadyHeld
    <3>2. State(m0, k) = "SLAVE_READY" BY <1>1, <3>1, SavedFacts
    <3>3. k # n BY <1>4, <3>2
    <3> QED BY <1>2, <2>3, <3>1, <3>3
  <2> QED BY <1>1, <2>4, <2>6, <2>7, <2>8, SavingWork
<1> QED BY <1>5, <1>6 DEF m

\* The memory once the result of a notification is handled: one call less.
Served(m, n, w) == [m EXCEPT !.notes[n] = Tail(@), !.heap[w] = Unpin(@)]

\* So does the end of a call; it takes off one note and one pin.
LEMMA ServedMemory ==
  ASSUME NEW m, MemoryInv(m), NEW n \in Names, m.notes[n] # <<>>,
         NEW w, w = Head(m.notes[n]).master, m.heap[w].mem = "live", m.heap[w].pins > 0
  PROVE  LET p == Served(m, n, w)
         IN  /\ MemoryInv(p) /\ InUse(m, w) /\ p.files = m.files /\ p.procs = m.procs
             /\ p.masters = m.masters
             /\ p.notes[n] = Tail(m.notes[n])
             /\ \A x \in Names \ {n} : p.notes[x] = m.notes[x]
             /\ p.heap[w] = Unpin(m.heap[w])
             /\ \A v \in Wrappers \ {w} : p.heap[v] = m.heap[v]
             /\ Unpin(m.heap[w]) \in Object
             /\ Unpin(m.heap[w]).key = m.heap[w].key /\ Unpin(m.heap[w]).init = m.heap[w].init
             /\ Unpin(m.heap[w]).mem = "live"
             /\ Unpin(m.heap[w]).pins = m.heap[w].pins - 1
<1> DEFINE p == Served(m, n, w)
           o == Unpin(m.heap[w])
           tail == Tail(m.notes[n])
<1>1. m \in Memory /\ m.notes[n] \in Seq(Note) BY DEF MemoryInv, Memory
<1>2. /\ m.notes[n][1] = Head(m.notes[n]) /\ 1 \in DOMAIN m.notes[n]
      /\ tail \in Seq(Note)
      /\ \A k \in DOMAIN tail : tail[k] = m.notes[n][k + 1] /\ k + 1 \in DOMAIN m.notes[n]
  BY <1>1
<1>3. InUse(m, w) BY <1>2 DEF MemoryInv
<1>4. m.heap[w] \in Object /\ w \in Wrappers BY <1>1, <1>3, HeapCases DEF InUse
<1>5. o \in Object /\ o.key = m.heap[w].key /\ o.init = m.heap[w].init /\ o.mem = "live"
      /\ o.pins = m.heap[w].pins - 1
  <2>1. W \in Nat \ {0} BY SlaveAssumption
  <2>2. m.heap[w].pins \in 0 .. W - 1 BY <1>4 DEF Object
  <2>3. m.heap[w].pins - 1 \in 0 .. W - 1 BY <2>1, <2>2
  <2>4. o = [m.heap[w] EXCEPT !.pins = m.heap[w].pins - 1] BY <1>4 DEF Unpin, Object
  <2> QED BY <1>4, <2>3, <2>4 DEF Object
<1>6. p = [m EXCEPT !.notes = [m.notes EXCEPT ![n] = tail], !.heap = [m.heap EXCEPT ![w] = o]]
  BY <1>1 DEF Served, Memory
<1> HIDE DEF o, p, tail
<1>7. /\ p.files = m.files /\ p.masters = m.masters /\ p.procs = m.procs
      /\ p.notes = [m.notes EXCEPT ![n] = tail]
      /\ p.heap = [m.heap EXCEPT ![w] = o]
      /\ p = [files |-> p.files, masters |-> p.masters, heap |-> p.heap,
              procs |-> p.procs, notes |-> p.notes]
  BY <1>1, <1>6 DEF Memory
<1>8. o # Unused BY <1>5 DEF Object, Unused
<1>9. \A v : InUse(m, v) => InUse(p, v) BY <1>1, <1>4, <1>7, <1>8 DEF InUse, Memory
<1>10. p \in Memory
  <2>1. p.notes \in [Names -> Seq(Note)] BY <1>1, <1>2, <1>7 DEF Memory
  <2>2. p.heap \in [Wrappers -> Object \cup {Unused}] BY <1>1, <1>5, <1>7 DEF Memory
  <2> QED BY <1>1, <1>7, <2>1, <2>2 DEF Memory
<1>11. ASSUME NEW k \in Names, NEW i \in DOMAIN p.notes[k]
       PROVE  InUse(m, p.notes[k][i].master)
  <2>1. CASE k = n
    <3>1. p.notes[k] = tail BY <1>1, <1>7, <2>1 DEF Memory
    <3> QED BY <1>2, <1>11, <2>1, <3>1 DEF MemoryInv
  <2>2. CASE k # n
    <3>1. p.notes[k] = m.notes[k] BY <1>1, <1>7, <2>2 DEF Memory
    <3> QED BY <1>11, <3>1 DEF MemoryInv
  <2> QED BY <2>1, <2>2
<1>12. MemoryInv(p) BY <1>7, <1>9, <1>10, <1>11 DEF MemoryInv, Has
<1>13. /\ p.notes[n] = tail /\ \A x \in Names \ {n} : p.notes[x] = m.notes[x]
       /\ p.heap[w] = o /\ \A v \in Wrappers \ {w} : p.heap[v] = m.heap[v]
  BY <1>1, <1>4, <1>7 DEF Memory
<1> QED BY <1>3, <1>5, <1>7, <1>12, <1>13 DEF o, p, tail

\* ... and when its wrapper is erased and deleted.
Deleted(m, key, w) == [m EXCEPT !.masters[key] = NoWrapper, !.heap[w].mem = "freed"]

\* Deleting a wrapper takes it out of masters_ and leaves a freed object.
LEMMA DeletedMemory ==
  ASSUME NEW m, MemoryInv(m), NEW key \in Keys, NEW w, InUse(m, w)
  PROVE  LET p == Deleted(m, key, w)
         IN  /\ MemoryInv(p) /\ p.files = m.files /\ p.procs = m.procs /\ p.notes = m.notes
             /\ \A v \in Wrappers \ {w} : p.heap[v] = m.heap[v]
             /\ p.heap[w].mem = "freed" /\ p.heap[w].key = m.heap[w].key
             /\ p.heap[w].init = m.heap[w].init /\ p.heap[w].pins = m.heap[w].pins
<1> DEFINE p == Deleted(m, key, w)
           o == [m.heap[w] EXCEPT !.mem = "freed"]
<1>1. m \in Memory BY DEF MemoryInv
<1>2. m.heap[w] \in Object /\ w \in Wrappers BY <1>1, HeapCases DEF InUse
<1>3. o \in Object /\ o # Unused
  <2>1. o \in Object BY <1>2 DEF Object
  <2>2. \A x \in Object : x # Unused BY DEF Object, Unused
  <2> QED BY <2>1, <2>2
<1>4. p = [m EXCEPT !.masters = [m.masters EXCEPT ![key] = NoWrapper],
                    !.heap = [m.heap EXCEPT ![w] = o]]
  BY <1>1 DEF Deleted, Memory
<1> HIDE DEF o, p
<1>5. /\ p.files = m.files /\ p.notes = m.notes /\ p.procs = m.procs
      /\ p.masters = [m.masters EXCEPT ![key] = NoWrapper]
      /\ p.heap = [m.heap EXCEPT ![w] = o]
      /\ p = [files |-> p.files, masters |-> p.masters, heap |-> p.heap,
              procs |-> p.procs, notes |-> p.notes]
  BY <1>1, <1>4 DEF Memory
<1>6. \A v : InUse(m, v) => InUse(p, v) BY <1>1, <1>2, <1>3, <1>5 DEF InUse, Memory
<1>7. p \in Memory
  <2>1. p.masters \in [Keys -> Wrappers \cup {NoWrapper}] BY <1>1, <1>5 DEF Memory
  <2>2. p.heap \in [Wrappers -> Object \cup {Unused}] BY <1>1, <1>3, <1>5 DEF Memory
  <2> QED BY <1>1, <1>5, <2>1, <2>2 DEF Memory
<1>8. \A k \in Keys : p.masters[k] # NoWrapper => InUse(p, p.masters[k])
  BY <1>1, <1>5, <1>6 DEF MemoryInv, Memory
<1>9. MemoryInv(p) BY <1>5, <1>6, <1>7, <1>8 DEF MemoryInv, Has
<1>10. p.heap[w] = o /\ \A v \in Wrappers \ {w} : p.heap[v] = m.heap[v]
  BY <1>1, <1>2, <1>5 DEF Memory
<1>11. o.mem = "freed" /\ o.key = m.heap[w].key /\ o.init = m.heap[w].init /\ o.pins = m.heap[w].pins
  BY <1>2 DEF Object, o
<1> QED BY <1>5, <1>9, <1>10, <1>11 DEF p

\* The files, the processes and the disk are not affected by it.
LEMMA DeletedWork ==
  ASSUME NEW m, NEW saved, NEW removed, WorkOK(TRUE, m, saved, removed),
         NEW key \in Keys, NEW w, InUse(m, w)
  PROVE  WorkOK(TRUE, Deleted(m, key, w), saved, removed)
<1> DEFINE d == Deleted(m, key, w)
<1>1. MemoryInv(m) BY DEF WorkOK
<1>2. /\ MemoryInv(d) /\ d.files = m.files /\ d.procs = m.procs
      /\ \A v \in Wrappers \ {w} : d.heap[v] = m.heap[v]
      /\ d.heap[w].key = m.heap[w].key
  BY <1>1, DeletedMemory
<1> HIDE DEF d
<1>3. \A v \in Wrappers : InUse(m, v) => d.heap[v].key = m.heap[v].key BY <1>2
<1> QED BY <1>2, <1>3, SameWork DEF d

\* HandleNotifyStateChangeResult, which may delete the wrapper or not.
LEMMA ServedWork ==
  ASSUME NEW m, NEW saved, NEW removed, WorkOK(TRUE, m, saved, removed),
         NEW n \in Names, m.notes[n] # <<>>,
         NEW w, w = Head(m.notes[n]).master, m.heap[w].mem = "live", m.heap[w].pins > 0,
         NEW key \in Keys
  PROVE  /\ WorkOK(TRUE, Served(m, n, w), saved, removed)
         /\ WorkOK(TRUE, Deleted(Served(m, n, w), key, w), saved, removed)
<1> DEFINE p == Served(m, n, w)
<1>1. MemoryInv(m) BY DEF WorkOK
<1>2. /\ MemoryInv(p) /\ InUse(m, w) /\ p.files = m.files /\ p.procs = m.procs
      /\ p.heap[w] = Unpin(m.heap[w]) /\ \A v \in Wrappers \ {w} : p.heap[v] = m.heap[v]
      /\ Unpin(m.heap[w]) \in Object /\ Unpin(m.heap[w]).key = m.heap[w].key
  BY <1>1, ServedMemory
<1>3. InUse(p, w)
  <2>1. \A o \in Object : o # Unused BY DEF Object, Unused
  <2> QED BY <1>2, <2>1 DEF InUse
<1> HIDE DEF p
<1>4. \A v \in Wrappers : InUse(m, v) => p.heap[v].key = m.heap[v].key BY <1>2
<1>5. WorkOK(TRUE, p, saved, removed) BY <1>2, <1>4, SameWork
<1> QED BY <1>3, <1>5, DeletedWork DEF p

\* A notification that is answered.
Answered(m, n, k, res) == [m EXCEPT !.notes[n][k].res = res]

\* An answer changes the result of one call and nothing else.
LEMMA AnsweredMemory ==
  ASSUME NEW m, MemoryInv(m), NEW n \in Names, NEW k \in DOMAIN m.notes[n],
         NEW res \in {"ok", "failed"}
  PROVE  LET p == Answered(m, n, k, res)
         IN  /\ MemoryInv(p) /\ p.files = m.files /\ p.procs = m.procs /\ p.heap = m.heap
             /\ \A x \in Names : /\ Len(p.notes[x]) = Len(m.notes[x])
                                 /\ DOMAIN p.notes[x] = DOMAIN m.notes[x]
                                 /\ \A i \in DOMAIN m.notes[x] :
                                      p.notes[x][i].master = m.notes[x][i].master
<1> DEFINE p == Answered(m, n, k, res)
           note == [m.notes[n][k] EXCEPT !.res = res]
           seq == [m.notes[n] EXCEPT ![k] = note]
<1>1. m \in Memory /\ m.notes \in [Names -> Seq(Note)] BY DEF MemoryInv, Memory
<1>2. m.notes[n] \in Seq(Note) /\ k \in 1 .. Len(m.notes[n]) BY <1>1
<1>3. m.notes[n][k] \in Note BY <1>2
<1>4. note \in Note /\ note.master = m.notes[n][k].master BY <1>3 DEF Note
<1>5. p = [m EXCEPT !.notes = [m.notes EXCEPT ![n] = seq]] BY <1>1 DEF Answered, Memory
<1> HIDE DEF note, p
<1>6. /\ seq \in Seq(Note) /\ Len(seq) = Len(m.notes[n]) /\ DOMAIN seq = DOMAIN m.notes[n]
      /\ \A j \in DOMAIN m.notes[n] : seq[j] = IF j = k THEN note ELSE m.notes[n][j]
  BY <1>2, <1>4, ExceptSeq
<1> HIDE DEF seq
<1>7. /\ p.files = m.files /\ p.masters = m.masters /\ p.procs = m.procs /\ p.heap = m.heap
      /\ p.notes = [m.notes EXCEPT ![n] = seq]
      /\ p \in Memory
  <2>1. [m.notes EXCEPT ![n] = seq] \in [Names -> Seq(Note)] BY <1>1, <1>6
  <2> QED BY <1>1, <1>5, <2>1 DEF Memory
<1>8. ASSUME NEW x \in Names
      PROVE  /\ Len(p.notes[x]) = Len(m.notes[x])
             /\ DOMAIN p.notes[x] = DOMAIN m.notes[x]
             /\ \A i \in DOMAIN m.notes[x] : p.notes[x][i].master = m.notes[x][i].master
  <2>1. CASE x = n
    <3>1. p.notes[x] = seq BY <1>1, <1>7, <2>1
    <3> QED BY <1>4, <1>6, <2>1, <3>1
  <2>2. CASE x # n BY <1>1, <1>7, <2>2
  <2> QED BY <2>1, <2>2
<1>9. MemoryInv(p) BY <1>7, <1>8 DEF MemoryInv, InUse, Has
<1> QED BY <1>7, <1>8, <1>9 DEF p

\* The work that Load() resumes.
LEMMA ResumedWork ==
  ASSUME NEW m, MemoryInv(m), m.procs = Empty.procs, NEW removed \in SUBSET Names,
         Cardinality(Resumed(Saved(m))) <= Parallel,
         NEW set, set = Resumed(Saved(m)), NEW started \in SUBSET set
  PROVE  LET p == StartProcessing(m, set, started)
             next == SavedAfter(Saved(m), set, p)
         IN  WorkOK(TRUE, p, next, removed) /\ Kept(Saved(m), next, removed)
<1> DEFINE p == StartProcessing(m, set, started)
<1>1. Saved(m) \in SavedFiles BY SavedFacts
<1>2. m \in Memory BY DEF MemoryInv
<1>3. \A k \in Names : Saved(m)[k].file.st = State(m, k) BY SavedFacts
<1>4. set \in SUBSET Names BY DEF Resumed
<1>5. \A k \in Names : k \in set <=> State(m, k) = "PROCESSING" BY <1>3 DEF Resumed
<1>6. \A k \in set : Has(m, k) BY <1>2, <1>4, <1>5, FileCases DEF FState, SlaveStates
<1>7. /\ \A k \in Names : State(p, k) = StateAfter(m, set, started, k)
      /\ \A k \in Names \ set : Saved(p)[k] = Saved(m)[k]
      /\ \A k \in Names : p.procs[k] = ProcsAfter(m, started, k)
  BY <1>4, <1>6, StartEffect
<1>8. MemoryInv(p) BY <1>4, <1>6, StartMemory
<1> HIDE DEF p
<1>9. Cardinality(In(p, "PROCESSING")) <= Parallel
  <2>1. In(p, "PROCESSING") = started BY <1>4, <1>5, <1>7 DEF In, StateAfter
  <2>2. /\ Cardinality(started) <= Cardinality(set)
        /\ Cardinality(started) \in Nat /\ Cardinality(set) \in Nat
    BY <1>4, Counts
  <2> QED BY <2>1, <2>2, SlaveAssumption
<1>10. OneProcess(p, removed)
  <2>1. \A k \in Names : m.procs[k] = 0 BY DEF Empty
  <2> QED BY <1>4, <1>5, <1>7, <2>1 DEF OneProcess, StateAfter, ProcsAfter
<1>11. \A k \in Names \ set : Saved(p)[k] = Saved(m)[k] BY <1>7
<1>12. \A k \in Names : Saved(m)[k].file.st = "SLAVE_READY" => k \notin set BY <1>3, <1>5
<1>13. CASE set # {}
  <2>1. WorkOK(TRUE, p, Saved(p), removed) BY <1>8, <1>9, <1>10, SavingWork
  <2> QED BY <1>11, <1>12, <1>13, <2>1 DEF Kept, SavedAfter, p
<1>14. CASE set = {}
  <2>1. Durable(p, Saved(m)) /\ ReadyHeld(p, Saved(m), removed)
    BY <1>11, <1>14 DEF Durable, ReadyHeld
  <2>2. WorkOK(TRUE, p, Saved(m), removed) BY <1>1, <1>8, <1>9, <1>10, <2>1 DEF WorkOK
  <2> QED BY <1>14, <2>2 DEF Kept, SavedAfter, p
<1> QED BY <1>13, <1>14

\* Load().
LEMMA StartWork ==
  ASSUME NEW m0, NEW saved, NEW removed, WorkOK(FALSE, m0, saved, removed),
         NEW a \in [UrisOf(saved) -> Wrappers], NEW pins \in [UrisOf(saved) -> PinGarbage],
         \A u, v \in UrisOf(saved) : a[u] = a[v] => u = v,
         NEW started \in SUBSET Resumed(saved)
  PROVE  LET p == StartProcessing(Loaded(saved, a, pins), Resumed(saved), started)
             next == SavedAfter(saved, Resumed(saved), p)
         IN  WorkOK(TRUE, p, next, removed) /\ Kept(saved, next, removed)
<1> DEFINE m == Loaded(saved, a, pins)
<1>1. /\ saved \in SavedFiles /\ removed \in SUBSET Names
      /\ Cardinality(Resumed(saved)) <= Parallel
  BY DEF WorkOK
<1>2. MemoryInv(m) /\ Saved(m) = saved /\ m.procs = Empty.procs BY <1>1, LoadedMemory
<1> HIDE DEF m
<1>3. started \in SUBSET Resumed(Saved(m)) BY <1>2
<1>4. LET p == StartProcessing(m, Resumed(Saved(m)), started)
          next == SavedAfter(Saved(m), Resumed(Saved(m)), p)
      IN  WorkOK(TRUE, p, next, removed) /\ Kept(Saved(m), next, removed)
  <2>1. Cardinality(Resumed(Saved(m))) <= Parallel BY <1>1, <1>2
  <2> QED BY <1>1, <1>2, <1>3, <2>1, ResumedWork, Zenon
<1> QED BY <1>2, <1>4, Zenon DEF m

-----------------------------------------------------------------------------
(* The steps of the slaves.                                                *)

WorkInv ==
  /\ TypeOK
  /\ \A s \in Slaves : WorkOK(sup[s], mem[s], ssaved[s], sremoved[s])

AllKept == \A s \in Slaves : Kept(ssaved[s], ssaved'[s], sremoved'[s])

Becomes(s, up, m, saved, removed) ==
  /\ sup' = [sup EXCEPT ![s] = up]
  /\ mem' = [mem EXCEPT ![s] = m]
  /\ ssaved' = [ssaved EXCEPT ![s] = saved]
  /\ sremoved' = [sremoved EXCEPT ![s] = removed]

HistoryOK ==
  /\ faults \in [Slaves -> SUBSET {"use after free", "unpin below 1", "erased master not found"}]
  /\ sstarts \in [Slaves -> Nat]

\* A step of one slave, which the others do not notice.
LEMMA OneSlave ==
  ASSUME WorkInv, NEW s \in Slaves, NEW up \in BOOLEAN, NEW m, NEW saved, NEW removed,
         Becomes(s, up, m, saved, removed), WorkOK(up, m, saved, removed),
         Kept(ssaved[s], saved, removed), HistoryOK'
  PROVE  WorkInv' /\ AllKept
<1>1. /\ sup \in [Slaves -> BOOLEAN] /\ mem \in [Slaves -> Memory]
      /\ ssaved \in [Slaves -> SavedFiles] /\ sremoved \in [Slaves -> SUBSET Names]
  BY DEF WorkInv, TypeOK, SavedFiles
<1>2. m \in Memory /\ saved \in SavedFiles /\ removed \in SUBSET Names
  BY DEF WorkOK, MemoryInv
<1>3. /\ sup'[s] = up /\ mem'[s] = m /\ ssaved'[s] = saved /\ sremoved'[s] = removed
      /\ \A r \in Slaves \ {s} : /\ sup'[r] = sup[r] /\ mem'[r] = mem[r]
                                 /\ ssaved'[r] = ssaved[r] /\ sremoved'[r] = sremoved[r]
  BY <1>1 DEF Becomes
<1>4. /\ sup' \in [Slaves -> BOOLEAN] /\ mem' \in [Slaves -> Memory]
      /\ ssaved' \in [Slaves -> SavedFiles] /\ sremoved' \in [Slaves -> SUBSET Names]
  BY <1>1, <1>2 DEF Becomes
<1>5. TypeOK' BY <1>4 DEF TypeOK, SavedFiles, HistoryOK
<1>6. \A r \in Slaves : WorkOK(sup[r], mem[r], ssaved[r], sremoved[r])' BY <1>3 DEF WorkInv
<1>7. \A r \in Slaves : Kept(ssaved[r], ssaved'[r], sremoved'[r])
  <2>1. \A r \in Slaves \ {s} : Kept(ssaved[r], ssaved[r], sremoved'[r]) BY DEF Kept
  <2> QED BY <1>3, <2>1
<1> QED BY <1>5, <1>6, <1>7 DEF WorkInv, AllKept

\* A process ends, with its last Save() or without it.
LEMMA GoneStep ==
  ASSUME WorkInv, NEW s \in Slaves, Gone(s), HistoryOK',
         NEW saved \in SavedFiles, Cardinality(Resumed(saved)) <= Parallel,
         ssaved' = [ssaved EXCEPT ![s] = saved], Kept(ssaved[s], saved, sremoved[s]),
         UNCHANGED sremoved
  PROVE  WorkInv' /\ AllKept
<1>1. sremoved \in [Slaves -> SUBSET Names] BY DEF WorkInv, TypeOK
<1>2. Becomes(s, FALSE, Empty, saved, sremoved[s]) BY <1>1 DEF Gone, Becomes
<1>3. WorkOK(FALSE, Empty, saved, sremoved[s]) BY <1>1, EmptyWork
<1> QED BY <1>2, <1>3, OneSlave

\* A CHECK that fails, or a freed object that is used, ends the process.
LEMMA FaultStep ==
  ASSUME WorkInv, NEW s \in Slaves,
         NEW why \in {"use after free", "unpin below 1", "erased master not found"}, Fault(s, why)
  PROVE  WorkInv' /\ AllKept
<1>1. /\ ssaved \in [Slaves -> SavedFiles]
      /\ WorkOK(sup[s], mem[s], ssaved[s], sremoved[s]) /\ HistoryOK
  BY DEF WorkInv, TypeOK, HistoryOK, SavedFiles
<1>2. Gone(s) /\ UNCHANGED <<ssaved, sremoved, sstarts>>
      /\ faults' = [faults EXCEPT ![s] = @ \cup {why}]
  BY DEF Fault
<1>3. HistoryOK' BY <1>1, <1>2 DEF HistoryOK
<1>4. /\ ssaved' = [ssaved EXCEPT ![s] = ssaved[s]] /\ ssaved[s] \in SavedFiles
      /\ Cardinality(Resumed(ssaved[s])) <= Parallel
      /\ Kept(ssaved[s], ssaved[s], sremoved[s])
  BY <1>1, <1>2 DEF WorkOK, Kept
<1> QED BY <1>2, <1>3, <1>4, GoneStep

\* A handler that returns keeps the invariant if its memory and disk agree.
LEMMA ReturnStep ==
  ASSUME WorkInv, NEW s \in Slaves, sup[s], NEW m, NEW changed \in BOOLEAN, Return(s, m, changed),
         WorkOK(TRUE, m, IF changed THEN Saved(m) ELSE ssaved[s], sremoved[s]),
         Kept(ssaved[s], IF changed THEN Saved(m) ELSE ssaved[s], sremoved[s])
  PROVE  WorkInv' /\ AllKept
<1> DEFINE saved == IF changed THEN Saved(m) ELSE ssaved[s]
<1>1. /\ sup \in [Slaves -> BOOLEAN] /\ sremoved \in [Slaves -> SUBSET Names] /\ HistoryOK
  BY DEF WorkInv, TypeOK, HistoryOK
<1>2. /\ mem' = [mem EXCEPT ![s] = m] /\ ssaved' = [ssaved EXCEPT ![s] = saved]
      /\ UNCHANGED <<sup, sremoved, faults, sstarts>>
  BY DEF Return
<1>3. WorkOK(TRUE, m, saved, sremoved[s]) /\ Kept(ssaved[s], saved, sremoved[s]) OBVIOUS
<1> HIDE DEF saved
<1>4. Becomes(s, TRUE, m, saved, sremoved[s]) BY <1>1, <1>2 DEF Becomes
<1>5. HistoryOK' BY <1>1, <1>2 DEF HistoryOK
<1> QED BY <1>3, <1>4, <1>5, OneSlave

\* So does one that changes files before it returns.
LEMMA ChangeAndReturnStep ==
  ASSUME WorkInv, NEW s \in Slaves, sup[s], NEW m, NEW touched, ChangeAndReturn(s, m, touched),
         WorkOK(TRUE, m, SavedAfter(ssaved[s], touched, m), sremoved[s]),
         Kept(ssaved[s], SavedAfter(ssaved[s], touched, m), sremoved[s])
  PROVE  WorkInv' /\ AllKept
<1>1. CASE Return(s, m, touched # {}) BY <1>1, ReturnStep DEF SavedAfter
<1>2. CASE Fault(s, "use after free") BY <1>2, FaultStep
<1> QED BY <1>1, <1>2 DEF ChangeAndReturn

\* Now the steps one by one: an RPC of a master adds a file.
LEMMA AddStep ==
  ASSUME WorkInv, NEW s \in Slaves, NEW n \in Names, NEW u \in Uris, RpcAddFile(s, n, u)
  PROVE  WorkInv' /\ AllKept
<1>1. sup[s] /\ ~Has(mem[s], n) BY DEF RpcAddFile
<1>2. PICK m \in AfterAddFile(mem[s], n, u) : \E more \in MoreFiles(m) : \E started \in SUBSET more :
        ChangeAndReturn(s, StartProcessing(m, more, started), more)
  BY DEF RpcAddFile
<1>3. PICK more \in MoreFiles(m) : \E started \in SUBSET more :
        ChangeAndReturn(s, StartProcessing(m, more, started), more)
  BY <1>2
<1>4. PICK started \in SUBSET more : ChangeAndReturn(s, StartProcessing(m, more, started), more)
  BY <1>3
<1>5. WorkOK(TRUE, mem[s], ssaved[s], sremoved[s]) BY <1>1 DEF WorkInv, TypeOK
<1> DEFINE p == StartProcessing(m, more, started)
<1>6. /\ WorkOK(TRUE, p, SavedAfter(ssaved[s], more, p), sremoved[s])
      /\ Kept(ssaved[s], SavedAfter(ssaved[s], more, p), sremoved[s])
  BY <1>1, <1>5, AddWork
<1> HIDE DEF p
<1> QED BY <1>1, <1>4, <1>6, ChangeAndReturnStep DEF p

\* A user deletes a file.
LEMMA DelStep ==
  ASSUME WorkInv, NEW s \in Slaves, NEW n \in Names, RpcDelFile(s, n)
  PROVE  WorkInv' /\ AllKept
<1> DEFINE p == [mem[s] EXCEPT !.files[n] = Absent]
<1>1. /\ sup \in [Slaves -> BOOLEAN] /\ mem \in [Slaves -> Memory]
      /\ ssaved \in [Slaves -> SavedFiles] /\ sremoved \in [Slaves -> SUBSET Names] /\ HistoryOK
  BY DEF WorkInv, TypeOK, HistoryOK, SavedFiles
<1>2. sup[s] /\ UNCHANGED <<sup, ssaved, faults, sstarts>> BY DEF RpcDelFile
<1>3. WorkOK(TRUE, mem[s], ssaved[s], sremoved[s]) BY <1>1, <1>2 DEF WorkInv
<1>4. WorkOK(TRUE, p, ssaved[s], sremoved[s] \cup {n}) BY <1>3, DelWork
<1>5. mem' = [mem EXCEPT ![s] = p] BY <1>1 DEF RpcDelFile
<1>6. sremoved' = [sremoved EXCEPT ![s] = sremoved[s] \cup {n}] BY <1>1 DEF RpcDelFile
<1> HIDE DEF p
<1>7. Becomes(s, TRUE, p, ssaved[s], sremoved[s] \cup {n}) BY <1>1, <1>2, <1>5, <1>6 DEF Becomes
<1>8. HistoryOK' BY <1>1, <1>2 DEF HistoryOK
<1>9. Kept(ssaved[s], ssaved[s], sremoved[s] \cup {n}) BY DEF Kept
<1> QED BY <1>4, <1>7, <1>8, <1>9, OneSlave

\* A transcoding process exits.
LEMMA CompletedStep ==
  ASSUME WorkInv, NEW s \in Slaves, NEW n \in Names, NEW report \in {Ready, Error},
         ProcessingCompleted(s, n, report)
  PROVE  WorkInv' /\ AllKept
<1> DEFINE m == Reaped(mem[s], n)
           p == ChangeFileStates(m, [x \in {n} |-> report])
<1>1. sup[s] /\ mem[s].procs[n] > 0 BY DEF ProcessingCompleted
<1>2. WorkOK(TRUE, mem[s], ssaved[s], sremoved[s]) BY <1>1 DEF WorkInv, TypeOK
<1>3. /\ Has(m, n) => /\ WorkOK(TRUE, p, Saved(p), sremoved[s])
                      /\ Kept(ssaved[s], Saved(p), sremoved[s])
      /\ ~Has(m, n) => WorkOK(TRUE, m, ssaved[s], sremoved[s])
  BY <1>1, <1>2, CompletedWork
<1>4. CASE Has(m, n)
  <2>1. ChangeAndReturn(s, p, {n}) BY <1>4 DEF ProcessingCompleted
  <2> HIDE DEF p
  <2>2. SavedAfter(ssaved[s], {n}, p) = Saved(p) BY DEF SavedAfter
  <2> QED BY <1>1, <1>3, <1>4, <2>1, <2>2, ChangeAndReturnStep
<1>5. CASE ~Has(m, n)
  <2>1. Return(s, m, FALSE) BY <1>5 DEF ProcessingCompleted
  <2> HIDE DEF m
  <2>2. Kept(ssaved[s], ssaved[s], sremoved[s]) BY DEF Kept
  <2> QED BY <1>1, <1>3, <1>5, <2>1, <2>2, ReturnStep
<1> QED BY <1>4, <1>5

\* How HandleNotifyStateChangeResult ends.
LEMMA HandleCases ==
  ASSUME NEW s, NEW n, HandleNotifyStateChangeResult(s, n)
  PROVE  LET w == Head(mem[s].notes[n]).master
             object == mem[s].heap[w]
             key == LoadKey(object.key[1])
             p == Served(mem[s], n, w)
         IN  \/ object.mem = "freed" /\ Fault(s, "use after free")
             \/ object.mem = "live" /\ object.pins = 0 /\ Fault(s, "unpin below 1")
             \/ object.mem = "live" /\ object.pins > 1 /\ Return(s, p, FALSE)
             \/ object.mem = "live" /\ object.pins = 1 /\ Fault(s, "erased master not found")
             \/ object.mem = "live" /\ object.pins = 1 /\ Return(s, Deleted(p, key, w), FALSE)
BY Zenon DEF HandleNotifyStateChangeResult, Served, Deleted

\* The wrapper of the call whose result is handled.
LEMMA HeadInUse ==
  ASSUME NEW m, MemoryInv(m), NEW n \in Names, m.notes[n] # <<>>
  PROVE  LET w == Head(m.notes[n]).master
         IN  /\ InUse(m, w) /\ m.heap[w] \in Object /\ m.heap[w].pins \in Nat
             /\ LoadKey(m.heap[w].key[1]) \in Keys
<1> DEFINE w == Head(m.notes[n]).master
<1>1. m \in Memory /\ m.notes[n] \in Seq(Note) BY DEF MemoryInv, Memory
<1>2. 1 \in DOMAIN m.notes[n] /\ m.notes[n][1] = Head(m.notes[n]) BY <1>1
<1>3. InUse(m, w) BY <1>2 DEF MemoryInv
<1>4. m.heap[w] \in Object BY <1>1, <1>3, HeapCases DEF InUse
<1>5. m.heap[w].pins \in Nat
  <2>1. W \in Nat \ {0} BY SlaveAssumption
  <2> QED BY <1>4, <2>1 DEF Object
<1>6. LoadKey(m.heap[w].key[1]) \in Keys BY <1>4 DEF Object, Keys, LoadKey
<1> QED BY <1>3, <1>4, <1>5, <1>6

\* The result of a notification arrives.
LEMMA HandleStep ==
  ASSUME WorkInv, NEW s \in Slaves, NEW n \in Names, HandleNotifyStateChangeResult(s, n)
  PROVE  WorkInv' /\ AllKept
<1> DEFINE w == Head(mem[s].notes[n]).master
           object == mem[s].heap[w]
           key == LoadKey(object.key[1])
           p == Served(mem[s], n, w)
<1>1. sup[s] /\ mem[s].notes[n] # <<>> BY DEF HandleNotifyStateChangeResult
<1>2. WorkOK(TRUE, mem[s], ssaved[s], sremoved[s]) /\ MemoryInv(mem[s])
  BY <1>1 DEF WorkInv, TypeOK, WorkOK
<1>3. key \in Keys /\ object.pins \in Nat BY <1>1, <1>2, HeadInUse
<1>4. \/ \E why \in {"use after free", "unpin below 1", "erased master not found"} : Fault(s, why)
      \/ /\ object.mem = "live" /\ object.pins > 0
         /\ Return(s, p, FALSE) \/ Return(s, Deleted(p, key, w), FALSE)
  <2>1. \/ Fault(s, "use after free")
        \/ Fault(s, "unpin below 1")
        \/ object.mem = "live" /\ object.pins > 1 /\ Return(s, p, FALSE)
        \/ Fault(s, "erased master not found")
        \/ object.mem = "live" /\ object.pins = 1 /\ Return(s, Deleted(p, key, w), FALSE)
    BY HandleCases, Zenon
  <2> HIDE DEF p, key, object, w
  <2>2. object.pins > 1 \/ object.pins = 1 => object.pins > 0 BY <1>3
  <2>3. CASE Fault(s, "use after free") \/ Fault(s, "unpin below 1")
             \/ Fault(s, "erased master not found")
    BY <2>3
  <2> QED BY <2>1, <2>2, <2>3, Zenon
<1>5. CASE \E why \in {"use after free", "unpin below 1", "erased master not found"} : Fault(s, why)
  BY <1>5, FaultStep
<1>6. CASE /\ object.mem = "live" /\ object.pins > 0
           /\ Return(s, p, FALSE) \/ Return(s, Deleted(p, key, w), FALSE)
  <2>1. /\ WorkOK(TRUE, p, ssaved[s], sremoved[s])
        /\ WorkOK(TRUE, Deleted(p, key, w), ssaved[s], sremoved[s])
    BY <1>1, <1>2, <1>3, <1>6, ServedWork
  <2>2. Kept(ssaved[s], ssaved[s], sremoved[s]) BY DEF Kept
  <2> HIDE DEF p, key, w
  <2> QED BY <1>1, <1>6, <2>1, <2>2, ReturnStep
<1> QED BY <1>4, <1>5, <1>6

\* The slave starts, and resumes what was PROCESSING.
LEMMA StartStep ==
  ASSUME WorkInv, NEW s \in Slaves, Start(s)
  PROVE  WorkInv' /\ AllKept
<1> DEFINE saved == ssaved[s]
           uris == UrisOf(saved)
<1>1. /\ sup \in [Slaves -> BOOLEAN] /\ mem \in [Slaves -> Memory]
      /\ ssaved \in [Slaves -> SavedFiles] /\ sremoved \in [Slaves -> SUBSET Names] /\ HistoryOK
  BY DEF WorkInv, TypeOK, HistoryOK, SavedFiles
<1>2. /\ ~sup[s] /\ sup' = [sup EXCEPT ![s] = TRUE] /\ UNCHANGED <<sremoved, faults>>
      /\ sstarts' = [sstarts EXCEPT ![s] = @ + 1]
  BY DEF Start
<1>3. PICK a \in [uris -> Wrappers], pins \in [uris -> PinGarbage] :
        /\ \A u, v \in uris : a[u] = a[v] => u = v
        /\ \E started \in SUBSET Resumed(saved) :
             LET m == StartProcessing(Loaded(saved, a, pins), Resumed(saved), started)
             IN  /\ mem' = [mem EXCEPT ![s] = m]
                 /\ ssaved' = [ssaved EXCEPT ![s] = IF Resumed(saved) = {} THEN @ ELSE Saved(m)]
  BY DEF Start
<1>4. PICK started \in SUBSET Resumed(saved) :
        LET m == StartProcessing(Loaded(saved, a, pins), Resumed(saved), started)
        IN  /\ mem' = [mem EXCEPT ![s] = m]
            /\ ssaved' = [ssaved EXCEPT ![s] = IF Resumed(saved) = {} THEN @ ELSE Saved(m)]
  BY <1>3
<1> DEFINE p == StartProcessing(Loaded(saved, a, pins), Resumed(saved), started)
<1>5. WorkOK(FALSE, mem[s], saved, sremoved[s]) BY <1>1, <1>2 DEF WorkInv
<1>6. /\ WorkOK(TRUE, p, SavedAfter(saved, Resumed(saved), p), sremoved[s])
      /\ Kept(saved, SavedAfter(saved, Resumed(saved), p), sremoved[s])
  BY <1>3, <1>5, StartWork
<1>7. mem' = [mem EXCEPT ![s] = p] BY <1>4
<1>8. ssaved' = [ssaved EXCEPT ![s] = SavedAfter(saved, Resumed(saved), p)]
  BY <1>1, <1>4 DEF SavedAfter
<1> HIDE DEF p
<1>9. Becomes(s, TRUE, p, SavedAfter(saved, Resumed(saved), p), sremoved[s])
  BY <1>1, <1>2, <1>7, <1>8 DEF Becomes
<1>10. HistoryOK'
  <2>0. sstarts \in [Slaves -> Nat] BY <1>1 DEF HistoryOK
  <2>1. sstarts[s] \in Nat BY <2>0
  <2>2. sstarts' \in [Slaves -> Nat] BY <1>2, <2>0, <2>1
  <2> QED BY <1>1, <1>2, <2>2 DEF HistoryOK
<1> QED BY <1>6, <1>9, <1>10, OneSlave

\* It stops and saves.
LEMMA StopStep ==
  ASSUME WorkInv, NEW s \in Slaves, Stop(s)
  PROVE  WorkInv' /\ AllKept
<1>1. WorkOK(TRUE, mem[s], ssaved[s], sremoved[s]) /\ MemoryInv(mem[s]) /\ HistoryOK
  BY DEF WorkInv, TypeOK, HistoryOK, WorkOK, Stop
<1>2. CASE /\ Gone(s) /\ ssaved' = [ssaved EXCEPT ![s] = Saved(mem[s])]
           /\ UNCHANGED <<sremoved, faults, sstarts>>
  <2>1. HistoryOK' BY <1>1, <1>2 DEF HistoryOK
  <2>2. Saved(mem[s]) \in SavedFiles /\ Cardinality(Resumed(Saved(mem[s]))) <= Parallel
    BY <1>1, SavedFacts DEF WorkOK
  <2>3. Kept(ssaved[s], Saved(mem[s]), sremoved[s]) BY <1>1 DEF WorkOK, ReadyHeld, Kept
  <2> QED BY <1>2, <2>1, <2>2, <2>3, GoneStep
<1>3. CASE Fault(s, "use after free") BY <1>3, FaultStep
<1> QED BY <1>2, <1>3 DEF Stop

\* It crashes: what is on disk is within the limit.
LEMMA CrashStep ==
  ASSUME WorkInv, NEW s \in Slaves, Crash(s)
  PROVE  WorkInv' /\ AllKept
<1>1. ssaved \in [Slaves -> SavedFiles] /\ HistoryOK
      /\ Cardinality(Resumed(ssaved[s])) <= Parallel
  BY DEF WorkInv, TypeOK, HistoryOK, WorkOK, SavedFiles
<1>2. Gone(s) /\ UNCHANGED <<ssaved, sremoved, faults, sstarts>> BY DEF Crash
<1>3. HistoryOK' BY <1>1, <1>2 DEF HistoryOK
<1>4. ssaved' = [ssaved EXCEPT ![s] = ssaved[s]] BY <1>1, <1>2
<1>5. Kept(ssaved[s], ssaved[s], sremoved[s]) BY DEF Kept
<1> QED BY <1>1, <1>2, <1>3, <1>4, <1>5, GoneStep

\* A set of numbers has a smallest one.
LEMMA Smallest ==
  ASSUME NEW S \in SUBSET Nat, S # {}
  PROVE  \E i \in S : \A j \in S : i <= j
<1> DEFINE R == OpToRel(<, Nat)
<1>1. IsWellFoundedOn(R, Nat) BY NatLessThanWellFounded
<1>2. \A i, j \in Nat : i < j => <<i, j>> \in R BY DEF OpToRel
<1> HIDE DEF R
<1>3. PICK i \in S : \A j \in S : ~(<<j, i>> \in R) BY <1>1, WFMin
<1>4. \A j \in S : i <= j
  <2> TAKE j \in S
  <2>1. i \in Nat /\ j \in Nat OBVIOUS
  <2>2. ~(j < i) BY <1>2, <1>3, <2>1
  <2> QED BY <2>1, <2>2
<1> QED BY <1>4

\* A notification is answered.
LEMMA AnswerStep ==
  ASSUME WorkInv, NEW s \in Slaves, NEW n \in Names, NEW res \in {"ok", "failed"},
         AnswerNote(s, n, res)
  PROVE  WorkInv' /\ AllKept
<1> DEFINE k == FirstUnanswered(s, n)
           p == Answered(mem[s], n, k, res)
<1>1. /\ sup \in [Slaves -> BOOLEAN] /\ mem \in [Slaves -> Memory]
      /\ ssaved \in [Slaves -> SavedFiles] /\ sremoved \in [Slaves -> SUBSET Names] /\ HistoryOK
      /\ WorkOK(sup[s], mem[s], ssaved[s], sremoved[s]) /\ MemoryInv(mem[s])
  BY DEF WorkInv, TypeOK, HistoryOK, SavedFiles, WorkOK
<1>2. mem[s].notes[n] \in Seq(Note) BY <1>1 DEF Memory
<1>3. k \in DOMAIN mem[s].notes[n]
  <2>1. Unanswered(s, n) # {} /\ Unanswered(s, n) \subseteq DOMAIN mem[s].notes[n]
    BY DEF AnswerNote, Unanswered
  <2>2. Unanswered(s, n) \in SUBSET Nat BY <1>2, <2>1
  <2>3. \E i \in Unanswered(s, n) : \A j \in Unanswered(s, n) : i <= j
    BY <2>1, <2>2, Smallest
  <2>4. k \in Unanswered(s, n) BY <2>3 DEF FirstUnanswered
  <2> QED BY <2>1, <2>4
<1>4. mem' = [mem EXCEPT ![s] = p] BY <1>1 DEF AnswerNote, Answered
<1>5. UNCHANGED <<sup, ssaved, sremoved, faults, sstarts>> BY DEF AnswerNote
<1> HIDE DEF k
<1>6. sup[s]
  <2> SUFFICES ASSUME ~sup[s] PROVE FALSE OBVIOUS
  <2>1. mem[s] = Empty BY <1>1 DEF WorkOK
  <2>2. mem[s].notes[n] = <<>> BY <2>1 DEF Empty
  <2> QED BY <1>3, <2>2
<1>7. WorkOK(TRUE, p, ssaved[s], sremoved[s])
  <2>1. MemoryInv(p) /\ p.files = mem[s].files /\ p.procs = mem[s].procs /\ p.heap = mem[s].heap
    BY <1>1, <1>3, AnsweredMemory
  <2> HIDE DEF p
  <2>2. WorkOK(TRUE, mem[s], ssaved[s], sremoved[s]) BY <1>1, <1>6
  <2> QED BY <2>1, <2>2, SameWork
<1> HIDE DEF p
<1>8. Becomes(s, TRUE, p, ssaved[s], sremoved[s]) BY <1>1, <1>4, <1>5, <1>6 DEF Becomes
<1>9. HistoryOK' BY <1>1, <1>5 DEF HistoryOK
<1>10. Kept(ssaved[s], ssaved[s], sremoved[s]) BY DEF Kept
<1> QED BY <1>7, <1>8, <1>9, <1>10, OneSlave

\* Every step of the specification keeps the invariant and what is ready.
LEMMA WorkStep ==
  ASSUME WorkInv, [Next]_svars
  PROVE  WorkInv' /\ AllKept
<1>1. CASE UNCHANGED svars
  <2>1. WorkInv'
    BY <1>1 DEF svars, WorkInv, TypeOK
  <2>2. AllKept BY <1>1 DEF svars, AllKept, Kept
  <2> QED BY <2>1, <2>2
<1>2. ASSUME NEW s \in Slaves,
             RpcStep(s) \/ CallbackStep(s) \/ ProcessStep(s) \/ AnyMasterStep(s)
      PROVE  WorkInv' /\ AllKept
  <2>1. CASE RpcStep(s) BY <2>1, DelStep, AddStep DEF RpcStep
  <2>2. CASE CallbackStep(s) BY <2>2, CompletedStep, HandleStep DEF CallbackStep
  <2>3. CASE ProcessStep(s) BY <2>3, StartStep, StopStep, CrashStep DEF ProcessStep
  <2>4. CASE AnyMasterStep(s) BY <2>4, AnswerStep DEF AnyMasterStep
  <2> QED BY <1>2, <2>1, <2>2, <2>3, <2>4
<1> QED BY <1>1, <1>2 DEF Next

\* Nothing is in memory or on disk before the first start.
LEMMA WorkInit == Init => WorkInv
<1> SUFFICES ASSUME Init PROVE WorkInv OBVIOUS
<1> DEFINE none == [n \in Names |-> Absent]
<1>1. /\ sup = [s \in Slaves |-> FALSE] /\ mem = [s \in Slaves |-> Empty]
      /\ ssaved = [s \in Slaves |-> none] /\ sremoved = [s \in Slaves |-> {}]
      /\ faults = [s \in Slaves |-> {}] /\ sstarts = [s \in Slaves |-> 0]
  BY DEF Init
<1>2. none \in SavedFiles BY DEF SavedFiles
<1>3. Cardinality(Resumed(none)) <= Parallel
  <2>1. Resumed(none) = {} BY DEF Resumed, Absent, NoFile, ABSENT
  <2> QED BY <2>1, FS_EmptySet, SlaveAssumption
<1> HIDE DEF none
<1>4. WorkOK(FALSE, Empty, none, {}) BY <1>2, <1>3, EmptyWork
<1>5. Empty \in Memory BY EmptyMemory DEF MemoryInv
<1>6. TypeOK BY <1>1, <1>2, <1>5 DEF TypeOK, SavedFiles
<1> QED BY <1>1, <1>4, <1>6 DEF WorkInv

\* The invariant of the work of a slave holds in every reachable state.
THEOREM WorkInvariance == Spec => []WorkInv
BY WorkInit, WorkStep, PTL DEF Spec

\* The variables keep their types: memory, disk and history.
THEOREM TypeCorrect == Spec => []TypeOK
<1>1. WorkInv => TypeOK BY DEF WorkInv
<1> QED BY <1>1, WorkInvariance, PTL

\* At most parallel_processing files are PROCESSING, whatever is added,
\* deleted, completed or resumed (StartProcessingMoreFiles, Load).
THEOREM ParallelIsLimited == Spec => []ParallelLimit
<1>1. WorkInv => ParallelLimit BY DEF WorkInv, WorkOK, ParallelLimit
<1> QED BY <1>1, WorkInvariance, PTL

\* One process for a file that is PROCESSING, none for another one
\* (StartProcessing, ProcessingCompleted).
THEOREM ProcessesAreFiles == Spec => []OneProcessEach
<1>1. WorkInv => OneProcessEach BY DEF WorkInv, WorkOK, OneProcess, OneProcessEach
<1> QED BY <1>1, WorkInvariance, PTL

\* Every file that is beyond PENDING is on disk as it is in memory (Save).
THEOREM WorkSurvives == Spec => []WorkIsDurable
<1>1. WorkInv => WorkIsDurable BY DEF WorkInv, WorkOK, Durable, WorkIsDurable
<1> QED BY <1>1, WorkInvariance, PTL

\* No step changes a result that is ready on disk: not a crash, not a restart,
\* not the exit of a process, unless a user deletes the file.
THEOREM ReadyStays == Spec => ReadyIsFinal
<1>1. WorkInv /\ [Next]_svars =>
        [\A s \in Slaves : \A n \in Names \ sremoved'[s] :
           ssaved[s][n].file.st = "SLAVE_READY" => ssaved'[s][n] = ssaved[s][n]]_svars
  BY WorkStep DEF AllKept, Kept
<1> QED BY <1>1, WorkInvariance, PTL DEF Spec, ReadyIsFinal

-----------------------------------------------------------------------------
(* A count of the width of a uint32, which W stands for.                   *)

\* Division with remainder.
LEMMA Remainder ==
  ASSUME NEW d \in Nat \ {0}, NEW a \in Nat
  PROVE  a % d \in 0 .. d - 1 /\ \E q \in Int : a = d * q + (a % d)
<1>1. a = d * (a \div d) + (a % d) BY SMTT(30)
<1>2. a \div d \in Int OBVIOUS
<1>3. a % d \in 0 .. d - 1 OBVIOUS
<1>4. \E q \in Int : a = d * q + (a % d)
  <2> DEFINE r == a % d
             p == a \div d
  <2>1. a = d * p + r /\ p \in Int BY <1>1, <1>2
  <2> HIDE DEF r, p
  <2>2. \E q \in Int : a = d * q + r BY <2>1
  <2> QED BY <2>2 DEF r
<1> QED BY <1>3, <1>4

\* The remainder is the only one.
LEMMA OneRemainder ==
  ASSUME NEW d \in Nat \ {0}, NEW q \in Int, NEW p \in Int,
         NEW r \in 0 .. d - 1, NEW s \in 0 .. d - 1, d * q + r = d * p + s
  PROVE  r = s
<1>1. d * (q - p) = s - r OBVIOUS
<1>2. CASE q - p >= 1
  <2>1. d * (q - p) >= d BY <1>2
  <2> QED BY <1>1, <2>1
<1>3. CASE q - p <= -1
  <2>1. d * (q - p) <= -d BY <1>3
  <2> QED BY <1>1, <2>1
<1>4. CASE q = p BY <1>4
<1> QED BY <1>2, <1>3, <1>4

\* A number that is a multiple and a rest has that rest.
LEMMA RemainderIs ==
  ASSUME NEW d \in Nat \ {0}, NEW a \in Nat, NEW q \in Int, NEW r \in 0 .. d - 1, a = d * q + r
  PROVE  a % d = r
<1> DEFINE s == a % d
<1>1. s \in 0 .. d - 1 /\ \E p \in Int : a = d * p + s BY Remainder
<1> HIDE DEF s
<1>2. PICK p \in Int : a = d * p + s BY <1>1
<1>3. s = r BY <1>1, <1>2, OneRemainder
<1> QED BY <1>3 DEF s

\* Adding to a count that has wrapped around, and taking 1 from it.
LEMMA RemainderAdd ==
  ASSUME NEW d \in Nat \ {0}, NEW a \in Nat, NEW b \in Nat
  PROVE  ((a % d) + b) % d = (a + b) % d
<1> DEFINE y == a % d
           x == y + b
           z == x % d
           sum == a + b
<1>1. y \in 0 .. d - 1 /\ \E p \in Int : a = d * p + y BY Remainder
<1> HIDE DEF y
<1>2. x \in Nat /\ sum \in Nat BY <1>1
<1>3. z \in 0 .. d - 1 /\ \E p \in Int : x = d * p + z BY <1>2, Remainder
<1> HIDE DEF z
<1>4. PICK p \in Int : a = d * p + y BY <1>1
<1>5. PICK q \in Int : x = d * q + z BY <1>3
<1> DEFINE pq == p + q
<1>6. sum = d * pq + z /\ pq \in Int
  <2>1. d * (p + q) = d * p + d * q OBVIOUS
  <2> QED BY <2>1, <1>1, <1>3, <1>4, <1>5
<1> HIDE DEF sum, pq
<1>7. sum % d = z BY <1>2, <1>3, <1>6, RemainderIs
<1> QED BY <1>7 DEF z, y, sum

\* One less, unless the rest is 0.
LEMMA RemainderLess ==
  ASSUME NEW d \in Nat \ {0}, NEW a \in Nat, a % d > 0
  PROVE  a - 1 \in Nat /\ (a % d) - 1 = (a - 1) % d
<1> DEFINE y == a % d
<1>1. y \in 0 .. d - 1 /\ y > 0 /\ \E p \in Int : a = d * p + y BY Remainder
<1> HIDE DEF y
<1>2. PICK p \in Int : a = d * p + y BY <1>1
<1>3. p >= 0
  <2> SUFFICES ASSUME p <= -1 PROVE FALSE OBVIOUS
  <2>1. d * p <= -d OBVIOUS
  <2> QED BY <2>1, <1>1, <1>2
<1>4. a - 1 \in Nat
  <2>1. d * p >= 0 BY <1>3
  <2> QED BY <2>1, <1>1, <1>2
<1> DEFINE b == a - 1
           z == y - 1
<1>5. b = d * p + z /\ z \in 0 .. d - 1 BY <1>1, <1>2
<1> HIDE DEF b, z
<1>6. b \in Nat BY <1>4 DEF b
<1>7. b % d = z BY <1>5, <1>6, RemainderIs
<1> QED BY <1>4, <1>7 DEF y, b, z

-----------------------------------------------------------------------------
(* What pin_count_ counts.                                                 *)

Calls(m, n, w) == {k \in DOMAIN m.notes[n] : m.notes[n][k].master = w}
Active(m, w) == UNION {{n} \X Calls(m, n, w) : n \in Names}
MaxActive == MaxNotes * Cardinality(Names)

IsLucky(object) == object.init \in 1 .. W - 1 - MaxActive

\* The inductive invariant of the pin counts.  That a wrapper with a lucky
\* count is never deleted follows from the count being that of the calls.
PinsOK(m) ==
  /\ \A n \in Names : Len(m.notes[n]) <= MaxNotes
  /\ \A w \in Wrappers : InUse(m, w) =>
       /\ m.heap[w].pins = (m.heap[w].init + Cardinality(Active(m, w))) % W
       /\ IsLucky(m.heap[w]) => m.heap[w].mem = "live"

\* The active calls, as pairs of a file and the place of a notification.
LEMMA ActiveIs ==
  ASSUME NEW m \in Memory, NEW w
  PROVE  Active(m, w) = {x \in Names \X Nat : x[2] \in DOMAIN m.notes[x[1]]
                                              /\ m.notes[x[1]][x[2]].master = w}
<1>1. \A n \in Names : m.notes[n] \in Seq(Note) /\ DOMAIN m.notes[n] \subseteq Nat
  BY DEF Memory
<1>2. ASSUME NEW x \in Active(m, w)
      PROVE  x \in {y \in Names \X Nat : y[2] \in DOMAIN m.notes[y[1]]
                                         /\ m.notes[y[1]][y[2]].master = w}
  <2>1. PICK n \in Names : x \in {n} \X Calls(m, n, w) BY DEF Active
  <2>2. PICK k \in Calls(m, n, w) : x = <<n, k>> BY <2>1
  <2> QED BY <1>1, <2>2 DEF Calls
<1>3. ASSUME NEW x \in Names \X Nat, x[2] \in DOMAIN m.notes[x[1]],
             m.notes[x[1]][x[2]].master = w
      PROVE  x \in Active(m, w)
  <2>1. x[2] \in Calls(m, x[1], w) BY <1>3 DEF Calls
  <2>2. x \in {x[1]} \X Calls(m, x[1], w) BY <2>1
  <2> QED BY <2>2 DEF Active
<1> QED BY <1>2, <1>3

\* There are finitely many, and no more than MaxNotes for each file.
LEMMA ActiveFinite ==
  ASSUME NEW m \in Memory, \A n \in Names : Len(m.notes[n]) <= MaxNotes, NEW w
  PROVE  /\ IsFiniteSet(Active(m, w)) /\ Cardinality(Active(m, w)) \in Nat
         /\ Cardinality(Active(m, w)) <= MaxActive /\ MaxActive \in Nat
<1>1. MaxNotes \in Nat /\ IsFiniteSet(Names) BY SlaveAssumption
<1>2. IsFiniteSet(1 .. MaxNotes) /\ Cardinality(1 .. MaxNotes) = MaxNotes
  BY <1>1, FS_Interval
<1> DEFINE B == Names \X (1 .. MaxNotes)
<1>3. /\ IsFiniteSet(B) /\ Cardinality(B) = Cardinality(Names) * MaxNotes
      /\ Cardinality(Names) \in Nat
  BY <1>1, <1>2, FS_Product, FS_CardinalityType
<1>4. Active(m, w) \subseteq B
  <2> SUFFICES ASSUME NEW x \in Active(m, w) PROVE x \in B OBVIOUS
  <2>1. x \in Names \X Nat /\ x[2] \in DOMAIN m.notes[x[1]] BY ActiveIs
  <2>2. m.notes[x[1]] \in Seq(Note) /\ Len(m.notes[x[1]]) <= MaxNotes BY <2>1 DEF Memory
  <2>3. x[2] \in 1 .. MaxNotes BY <1>1, <2>1, <2>2
  <2> QED BY <2>1, <2>3
<1>5. IsFiniteSet(Active(m, w)) /\ Cardinality(Active(m, w)) <= Cardinality(B)
  BY <1>3, <1>4, FS_Subset
<1>6. Cardinality(Active(m, w)) \in Nat BY <1>5, FS_CardinalityType
<1>7. MaxActive \in Nat /\ MaxActive = Cardinality(B) BY <1>1, <1>3 DEF MaxActive
<1> QED BY <1>5, <1>6, <1>7

\* A wrapper with a lucky count: it does not wrap around and is above 0.
LEMMA LuckyCount ==
  ASSUME NEW m, MemoryInv(m), PinsOK(m), NEW w, InUse(m, w), IsLucky(m.heap[w])
  PROVE  /\ m.heap[w].pins = m.heap[w].init + Cardinality(Active(m, w))
         /\ m.heap[w].pins >= 1 + Cardinality(Active(m, w))
         /\ m.heap[w].mem = "live"
<1> DEFINE active == Cardinality(Active(m, w))
           init == m.heap[w].init
<1>1. w \in Wrappers BY DEF InUse
<1>2. active \in Nat /\ active <= MaxActive /\ MaxActive \in Nat
  BY ActiveFinite DEF PinsOK, MemoryInv
<1>3. W \in Nat \ {0} BY SlaveAssumption
<1>4. init \in 1 .. W - 1 - MaxActive BY DEF IsLucky
<1>5. m.heap[w].pins = (init + active) % W /\ m.heap[w].mem = "live" BY <1>1 DEF PinsOK
<1> HIDE DEF active, init
<1>6. init + active \in 0 .. W - 1 /\ init + active >= 1 + active BY <1>2, <1>3, <1>4
<1> DEFINE sum == init + active
<1> HIDE DEF sum
<1>7. sum \in 0 .. W - 1 => sum % W = sum BY <1>3
<1> QED BY <1>5, <1>6, <1>7 DEF active, init, sum

\* An empty memory, or one whose calls have all ended.
LEMMA QuietPins ==
  ASSUME NEW m, MemoryInv(m), m.notes = Empty.notes,
         \A w \in Wrappers : InUse(m, w) => m.heap[w].mem = "live" /\ m.heap[w].pins = m.heap[w].init
  PROVE  PinsOK(m)
<1>1. m \in Memory /\ W \in Nat \ {0} BY SlaveAssumption DEF MemoryInv
<1>2. \A n \in Names : m.notes[n] = <<>> BY DEF Empty
<1>3. \A n \in Names : Len(m.notes[n]) <= MaxNotes BY <1>2, SlaveAssumption
<1>4. ASSUME NEW w \in Wrappers, InUse(m, w)
      PROVE  m.heap[w].pins = (m.heap[w].init + Cardinality(Active(m, w))) % W
  <2>1. \A n \in Names : Calls(m, n, w) = {} BY <1>2 DEF Calls
  <2>2. Active(m, w) = {} BY <2>1 DEF Active
  <2>3. Cardinality(Active(m, w)) = 0 BY <2>2, FS_EmptySet
  <2>4. m.heap[w] \in Object BY <1>1, <1>4, HeapCases
  <2>5. m.heap[w].init \in 0 .. W - 1 BY <2>4, SlaveAssumption DEF Object
  <2>6. (m.heap[w].init + 0) % W = m.heap[w].init BY <1>1, <2>5
  <2> QED BY <1>4, <2>3, <2>6
<1> QED BY <1>3, <1>4 DEF PinsOK

\* Sets in one-to-one correspondence have as many elements.
LEMMA OneToOne ==
  ASSUME NEW S, NEW T, IsFiniteSet(S), NEW f \in [S -> T],
         \A x, y \in S : f[x] = f[y] => x = y, \A y \in T : \E x \in S : f[x] = y
  PROVE  IsFiniteSet(T) /\ Cardinality(T) = Cardinality(S)
<1>1. f \in Bijection(S, T) BY DEF Bijection, Injection, Surjection, IsInjective
<1>2. ExistsBijection(S, T) BY <1>1 DEF ExistsBijection
<1> QED BY <1>2, FS_Bijection

\* The calls that start when files change their states.
LEMMA ActiveChanged ==
  ASSUME NEW m, MemoryInv(m), \A n \in Names : Len(m.notes[n]) <= MaxNotes,
         NEW set \in SUBSET Names, NEW report \in [set -> SlaveReports],
         \A n \in set : Has(m, n),
         NEW p \in Memory, p.notes = ChangedNotes(m, set, report), NEW w
  PROVE  Cardinality(Active(p, w)) = Cardinality(Active(m, w)) + Cardinality(Pinned(m, set, w))
<1> DEFINE P == Pinned(m, set, w)
           At(n) == <<n, Len(m.notes[n]) + 1>>
           f == [n \in P |-> At(n)]
           F == {At(n) : n \in P}
           A == Active(m, w)
<1>1. m \in Memory /\ \A n \in Names : m.notes[n] \in Seq(Note) BY DEF MemoryInv, Memory
<1>2. IsFiniteSet(P) /\ Cardinality(P) \in Nat /\ P \subseteq set
  <2>1. P \subseteq set BY DEF Pinned
  <2> QED BY <2>1, PinnedFinite
<1>3. IsFiniteSet(A) /\ Cardinality(A) \in Nat BY <1>1, ActiveFinite
<1>4. ASSUME NEW n \in Names, NEW k \in Nat
      PROVE  <<n, k>> \in Active(p, w) <=> <<n, k>> \in A \/ <<n, k>> \in F
  <2>1. <<n, k>> \in A <=> k \in DOMAIN m.notes[n] /\ m.notes[n][k].master = w
    BY <1>1, ActiveIs
  <2>2. <<n, k>> \in Active(p, w) <=> k \in DOMAIN p.notes[n] /\ p.notes[n][k].master = w
    BY ActiveIs
  <2>3. <<n, k>> \in F <=> n \in P /\ k = Len(m.notes[n]) + 1 BY <1>2
  <2> HIDE DEF A, F
  <2>4. CASE n \in set
    <3> DEFINE note == [file |-> report[n], res |-> "sent", master |-> m.files[n].master]
    <3>1. p.notes[n] = Append(m.notes[n], note) BY <2>4 DEF ChangedNotes
    <3>2. note \in Note
      <4>1. InUse(m, m.files[n].master) BY <2>4 DEF MemoryInv
      <4> QED BY <2>4, <4>1 DEF Note, InUse
    <3>3. n \in P <=> note.master = w BY <2>4 DEF Pinned
    <3> HIDE DEF note, P
    <3>4. m.notes[n] \in Seq(Note) BY <1>1
    <3>5. k \in DOMAIN p.notes[n] <=> k \in DOMAIN m.notes[n] \/ k = Len(m.notes[n]) + 1
      BY <3>1, <3>2, <3>4
    <3>6. k \in DOMAIN m.notes[n] => p.notes[n][k] = m.notes[n][k] /\ k # Len(m.notes[n]) + 1
      BY <3>1, <3>2, <3>4
    <3>7. p.notes[n][Len(m.notes[n]) + 1] = note BY <3>1, <3>2, <3>4
    <3> QED BY <2>1, <2>2, <2>3, <3>3, <3>5, <3>6, <3>7
  <2>5. CASE n \notin set
    <3>1. p.notes[n] = m.notes[n] BY <2>5 DEF ChangedNotes
    <3>2. n \notin P BY <1>2, <2>5
    <3> QED BY <2>1, <2>2, <2>3, <3>1, <3>2
  <2> QED BY <2>4, <2>5
<1>5. Active(p, w) = A \cup F
  <2>1. Active(p, w) \subseteq Names \X Nat /\ A \subseteq Names \X Nat BY <1>1, ActiveIs
  <2>2. F \subseteq Names \X Nat BY <1>1, <1>2
  <2> HIDE DEF A, F
  <2> QED BY <1>4, <2>1, <2>2
<1>6. A \cap F = {}
  <2> SUFFICES ASSUME NEW n \in P, At(n) \in A PROVE FALSE OBVIOUS
  <2>1. n \in Names /\ m.notes[n] \in Seq(Note) BY <1>1, <1>2
  <2>2. Len(m.notes[n]) + 1 \in DOMAIN m.notes[n] BY <1>1, <2>1, ActiveIs
  <2> QED BY <2>1, <2>2
<1>7. IsFiniteSet(F) /\ Cardinality(F) = Cardinality(P)
  <2>1. f \in [P -> F] OBVIOUS
  <2>2. \A x, y \in P : f[x] = f[y] => x = y OBVIOUS
  <2>3. \A y \in F : \E x \in P : f[x] = y OBVIOUS
  <2> HIDE DEF f, P, F
  <2> QED BY <1>2, <2>1, <2>2, <2>3, OneToOne
<1> HIDE DEF A, F, P
<1>9. Cardinality(A \cup F) = Cardinality(A) + Cardinality(F) - Cardinality(A \cap F)
  BY <1>3, <1>7, FS_Union
<1>10. Cardinality(A \cap F) = 0 BY <1>6, FS_EmptySet
<1> QED BY <1>2, <1>3, <1>5, <1>7, <1>9, <1>10 DEF A, P

\* ChangeFileState counts each call that it makes.
LEMMA ChangedPins ==
  ASSUME NEW m, MemoryInv(m), PinsOK(m),
         NEW set \in SUBSET Names, NEW report \in [set -> SlaveReports],
         \A n \in set : Has(m, n) /\ Len(m.notes[n]) < MaxNotes,
         NEW p, MemoryInv(p), p.heap = ChangedHeap(m, set), p.notes = ChangedNotes(m, set, report)
  PROVE  PinsOK(p)
<1>1. m \in Memory /\ p \in Memory BY DEF MemoryInv
<1>2. \A n \in Names : Len(m.notes[n]) <= MaxNotes /\ m.notes[n] \in Seq(Note)
  BY <1>1 DEF PinsOK, Memory
<1>3. ASSUME NEW n \in Names PROVE Len(p.notes[n]) <= MaxNotes
  <2>1. CASE n \in set
    <3> DEFINE note == [file |-> report[n], res |-> "sent", master |-> m.files[n].master]
    <3>1. p.notes[n] = Append(m.notes[n], note) BY <2>1 DEF ChangedNotes
    <3>2. InUse(m, m.files[n].master) BY <2>1 DEF MemoryInv
    <3>3. note \in Note BY <2>1, <3>2 DEF Note, InUse
    <3> HIDE DEF note
    <3>4. Len(p.notes[n]) = Len(m.notes[n]) + 1 BY <1>2, <3>1, <3>3
    <3>5. Len(m.notes[n]) < MaxNotes /\ Len(m.notes[n]) \in Nat /\ MaxNotes \in Nat
      BY <1>2, <2>1, SlaveAssumption
    <3> QED BY <3>4, <3>5
  <2>2. CASE n \notin set BY <1>2, <2>2 DEF ChangedNotes
  <2> QED BY <2>1, <2>2
<1>4. ASSUME NEW w \in Wrappers, InUse(p, w)
      PROVE  /\ p.heap[w].pins = (p.heap[w].init + Cardinality(Active(p, w))) % W
             /\ IsLucky(p.heap[w]) => p.heap[w].mem = "live"
  <2> DEFINE calls == Cardinality(Pinned(m, set, w))
             before == Cardinality(Active(m, w))
             after == Cardinality(Active(p, w))
             init == m.heap[w].init
  <2>1. InUse(m, w) BY <1>4, ChangedObject DEF InUse
  <2>2. m.heap[w] \in Object /\ init \in Nat
    <3>1. m.heap[w] \in Object BY <1>1, <2>1, HeapCases
    <3>2. m.heap[w].init \in 0 .. W - 1 /\ W \in Nat BY <3>1, SlaveAssumption DEF Object
    <3> QED BY <3>1, <3>2
  <2>3. after = before + calls BY <1>1, <1>2, ActiveChanged
  <2>4. calls \in Nat /\ before \in Nat BY <1>1, <1>2, PinnedFinite, ActiveFinite
  <2>5. m.heap[w].pins = (init + before) % W BY <2>1 DEF PinsOK
  <2>6. IsLucky(m.heap[w]) => m.heap[w].mem = "live" BY <2>1 DEF PinsOK
  <2>7. p.heap[w].init = init /\ p.heap[w].mem = m.heap[w].mem BY <2>1, ChangedObject
  <2>8. IsLucky(p.heap[w]) => p.heap[w].mem = "live" BY <2>6, <2>7 DEF IsLucky
  <2>9. p.heap[w].pins = (init + after) % W
    <3>1. CASE Pinned(m, set, w) = {}
      <4>1. p.heap[w] = m.heap[w] /\ calls = 0 BY <3>1, FS_EmptySet DEF ChangedHeap
      <4> HIDE DEF calls, before, after, init
      <4>2. after = before BY <2>3, <2>4, <4>1
      <4> QED BY <2>5, <4>1, <4>2
    <3>2. CASE Pinned(m, set, w) # {}
      <4>1. p.heap[w] = Pin(m.heap[w], calls) BY <3>2 DEF ChangedHeap
      <4>2. p.heap[w].pins = (m.heap[w].pins + calls) % W BY <2>2, <2>4, <4>1, PinKeeps
      <4> HIDE DEF calls, before, after, init
      <4> DEFINE sum == init + before
      <4>3. sum \in Nat BY <2>2, <2>4
      <4>4. sum + calls = init + after BY <2>2, <2>3, <2>4
      <4> HIDE DEF sum
      <4>5. m.heap[w].pins = sum % W BY <2>5 DEF sum
      <4>6. ((sum % W) + calls) % W = (sum + calls) % W
        BY <2>4, <4>3, RemainderAdd, SlaveAssumption
      <4> QED BY <4>2, <4>4, <4>5, <4>6
    <3> QED BY <3>1, <3>2
  <2> QED BY <2>7, <2>8, <2>9
<1> QED BY <1>3, <1>4 DEF PinsOK

\* StartProcessing and ChangeFileState, which both change states.
LEMMA StartPins ==
  ASSUME NEW m, MemoryInv(m), PinsOK(m), NEW set \in SUBSET Names, NEW started \in SUBSET set,
         \A n \in set : Has(m, n) /\ Len(m.notes[n]) < MaxNotes
  PROVE  PinsOK(StartProcessing(m, set, started))
<1> DEFINE p == StartProcessing(m, set, started)
<1>1. m \in Memory BY DEF MemoryInv
<1>2. MemoryInv(p) BY StartMemory
<1>3. /\ Outcome(set, started) \in [set -> SlaveReports]
      /\ p.heap = ChangedHeap(m, set) /\ p.notes = ChangedNotes(m, set, Outcome(set, started))
  <2> DEFINE procs == [n \in Names |-> IF n \in started THEN m.procs[n] + 1 ELSE m.procs[n]]
  <2> HIDE DEF p
  <2>1. /\ Outcome(set, started) \in [set -> SlaveReports]
        /\ p = [files |-> ChangedFiles(m, set, Outcome(set, started)), masters |-> m.masters,
                heap |-> ChangedHeap(m, set), procs |-> procs,
                notes |-> ChangedNotes(m, set, Outcome(set, started))]
    BY <1>1, StartFields DEF p
  <2> HIDE DEF procs
  <2> QED BY <2>1
<1> HIDE DEF p
<1> QED BY <1>2, <1>3, ChangedPins DEF p

\* So does a report about files.
LEMMA ReportPins ==
  ASSUME NEW m, MemoryInv(m), PinsOK(m), NEW set \in SUBSET Names,
         NEW report \in [set -> SlaveReports],
         \A n \in set : Has(m, n) /\ Len(m.notes[n]) < MaxNotes
  PROVE  PinsOK(ChangeFileStates(m, report))
<1> DEFINE p == ChangeFileStates(m, report)
<1>1. m \in Memory BY DEF MemoryInv
<1>2. MemoryInv(p) BY ChangeMemory
<1>3. p.heap = ChangedHeap(m, set) /\ p.notes = ChangedNotes(m, set, report)
  BY <1>1, ChangeFields
<1> HIDE DEF p
<1> QED BY <1>2, <1>3, ChangedPins DEF p

\* AddFile: a wrapper that is made for the file has no calls yet.
LEMMA AddedPins ==
  ASSUME NEW m0, MemoryInv(m0), PinsOK(m0), NEW n \in Names, NEW u \in Uris,
         NEW m \in AfterAddFile(m0, n, u)
  PROVE  PinsOK(m)
<1>1. /\ MemoryInv(m) /\ m \in Memory /\ m0 \in Memory /\ m.notes = m0.notes
      /\ W \in Nat \ {0}
  BY AddedMemory, SlaveAssumption DEF MemoryInv
<1>2. \A w : Active(m, w) = Active(m0, w) BY <1>1 DEF Active, Calls
<1>3. ASSUME NEW w \in Wrappers, InUse(m, w)
      PROVE  /\ m.heap[w].pins = (m.heap[w].init + Cardinality(Active(m, w))) % W
             /\ IsLucky(m.heap[w]) => m.heap[w].mem = "live"
  <2>1. CASE m.heap[w] = m0.heap[w] BY <1>2, <1>3, <2>1 DEF PinsOK, InUse
  <2>2. CASE ~InUse(m0, w) /\ m.heap[w].mem = "live" /\ m.heap[w].pins = m.heap[w].init
    <3>1. \A k \in Names : Calls(m, k, w) = {} BY <1>1, <2>2 DEF Calls, MemoryInv
    <3>2. Active(m, w) = {} BY <3>1 DEF Active
    <3>3. Cardinality(Active(m, w)) = 0 BY <3>2, FS_EmptySet
    <3>4. m.heap[w] \in Object BY <1>1, <1>3, HeapCases
    <3>5. m.heap[w].init \in 0 .. W - 1 BY <3>4, SlaveAssumption DEF Object
    <3>6. (m.heap[w].init + 0) % W = m.heap[w].init BY <1>1, <3>5
    <3> QED BY <2>2, <3>3, <3>6
  <2> QED BY <2>1, <2>2, AddedMemory
<1> QED BY <1>1, <1>3 DEF PinsOK

\* The call whose result is handled is no longer one of the active ones.
LEMMA ActiveServed ==
  ASSUME NEW m \in Memory, \A x \in Names : Len(m.notes[x]) <= MaxNotes,
         NEW n \in Names, m.notes[n] # <<>>,
         NEW p \in Memory, p.notes[n] = Tail(m.notes[n]),
         \A x \in Names \ {n} : p.notes[x] = m.notes[x], NEW w
  PROVE  /\ w = Head(m.notes[n]).master =>
              Cardinality(Active(m, w)) = Cardinality(Active(p, w)) + 1
         /\ w # Head(m.notes[n]).master =>
              Cardinality(Active(m, w)) = Cardinality(Active(p, w))
<1> DEFINE A == Active(m, w)
           P == Active(p, w)
           first == <<n, 1>>
           R == A \ {first}
           f == [x \in P |-> IF x[1] = n THEN <<n, x[2] + 1>> ELSE x]
<1>1. /\ m.notes[n] \in Seq(Note) /\ 1 \in DOMAIN m.notes[n] /\ m.notes[n][1] = Head(m.notes[n])
      /\ \A k \in Nat : k \in DOMAIN p.notes[n] <=> k + 1 \in DOMAIN m.notes[n] /\ k # 0
      /\ \A k \in DOMAIN p.notes[n] : p.notes[n][k] = m.notes[n][k + 1]
  <2>1. m.notes[n] \in Seq(Note) BY DEF Memory
  <2> DEFINE tail == Tail(m.notes[n])
  <2>2. /\ tail \in Seq(Note) /\ Len(tail) = Len(m.notes[n]) - 1 /\ Len(m.notes[n]) \in Nat
        /\ \A i \in 1 .. Len(tail) : tail[i] = m.notes[n][i + 1]
    BY <2>1, HeadTailProperties, LenProperties
  <2>3. p.notes[n] = tail OBVIOUS
  <2> HIDE DEF tail
  <2> QED BY <2>1, <2>2, <2>3
<1>2. A \subseteq Names \X Nat /\ P \subseteq Names \X Nat BY ActiveIs
<1>3. ASSUME NEW x \in Names, NEW k \in Nat
      PROVE  /\ <<x, k>> \in A <=> k \in DOMAIN m.notes[x] /\ m.notes[x][k].master = w
             /\ <<x, k>> \in P <=> k \in DOMAIN p.notes[x] /\ p.notes[x][k].master = w
  BY ActiveIs
<1> HIDE DEF A, P
<1>4. ASSUME NEW k \in Nat
      PROVE  <<n, k>> \in P <=> <<n, k + 1>> \in A /\ k # 0
  <2>1. <<n, k + 1>> \in A <=> k + 1 \in DOMAIN m.notes[n] /\ m.notes[n][k + 1].master = w
    <3>1. k + 1 \in Nat OBVIOUS
    <3> QED BY <1>3, <3>1
  <2>2. <<n, k>> \in P <=> k \in DOMAIN p.notes[n] /\ p.notes[n][k].master = w BY <1>3
  <2> QED BY <1>1, <2>1, <2>2
<1>5. ASSUME NEW x \in Names \ {n}, NEW k \in Nat PROVE <<x, k>> \in P <=> <<x, k>> \in A
  BY <1>3
<1>6. f \in [P -> R]
  <2> SUFFICES ASSUME NEW x \in P PROVE f[x] \in R OBVIOUS
  <2>1. PICK y \in Names, k \in Nat : x = <<y, k>> BY <1>2
  <2>2. CASE y = n
    <3>1. <<n, k + 1>> \in A /\ k # 0 BY <1>4, <2>1, <2>2
    <3>2. f[x] = <<n, k + 1>> BY <2>1, <2>2
    <3> QED BY <2>1, <3>1, <3>2
  <2>3. CASE y # n
    <3>1. <<y, k>> \in A BY <1>5, <2>1, <2>3
    <3>2. f[x] = <<y, k>> BY <2>1, <2>3
    <3> QED BY <2>3, <3>1, <3>2
  <2> QED BY <2>2, <2>3
<1>7. ASSUME NEW x \in P, NEW y \in P, f[x] = f[y] PROVE x = y
  <2>1. PICK x1 \in Names, xk \in Nat : x = <<x1, xk>> BY <1>2
  <2>2. PICK y1 \in Names, yk \in Nat : y = <<y1, yk>> BY <1>2
  <2>3. f[x] = IF x1 = n THEN <<n, xk + 1>> ELSE <<x1, xk>> BY <2>1
  <2>4. f[y] = IF y1 = n THEN <<n, yk + 1>> ELSE <<y1, yk>> BY <2>2
  <2> HIDE DEF f
  <2> QED BY <1>7, <2>1, <2>2, <2>3, <2>4
<1>8. ASSUME NEW y \in R PROVE \E x \in P : f[x] = y
  <2>1. PICK y1 \in Names, k \in Nat : y = <<y1, k>> BY <1>2
  <2>2. CASE y1 = n
    <3>1. k # 1 /\ k # 0
      <4>1. k \in DOMAIN m.notes[n] BY <1>3, <2>1, <2>2
      <4> QED BY <1>1, <2>1, <2>2, <4>1
    <3>2. k - 1 \in Nat /\ (k - 1) + 1 = k /\ k - 1 # 0 BY <3>1
    <3>3. <<n, (k - 1) + 1>> \in A BY <2>1, <2>2, <3>2
    <3>4. <<n, k - 1>> \in P BY <1>4, <3>2, <3>3
    <3>5. f[<<n, k - 1>>] = <<n, k>> BY <3>2, <3>4
    <3> QED BY <2>1, <2>2, <3>4, <3>5
  <2>3. CASE y1 # n
    <3>1. y \in P BY <1>5, <2>1, <2>3
    <3>2. f[y] = y BY <2>1, <2>3, <3>1
    <3> QED BY <3>1, <3>2
  <2> QED BY <2>2, <2>3
<1>9. IsFiniteSet(A) /\ IsFiniteSet(P) /\ Cardinality(A) \in Nat /\ Cardinality(P) \in Nat
  <2>1. IsFiniteSet(A) /\ Cardinality(A) \in Nat BY ActiveFinite DEF A
  <2>2. \A x \in Names : Len(p.notes[x]) <= MaxNotes
    <3> TAKE x \in Names
    <3>1. CASE x = n
      <4>1. Len(p.notes[n]) = Len(m.notes[n]) - 1 /\ Len(m.notes[n]) \in Nat
        BY <1>1, HeadTailProperties, LenProperties
      <4>2. Len(m.notes[n]) <= MaxNotes /\ MaxNotes \in Nat BY SlaveAssumption
      <4> HIDE DEF P
      <4>3. Len(p.notes[n]) <= MaxNotes BY <4>1, <4>2
      <4> QED BY <3>1, <4>3
    <3>2. CASE x # n BY <3>2
    <3> QED BY <3>1, <3>2
  <2>3. IsFiniteSet(P) /\ Cardinality(P) \in Nat BY <2>2, ActiveFinite DEF P
  <2> QED BY <2>1, <2>3
<1> HIDE DEF f
<1>10. Cardinality(R) = Cardinality(P) BY <1>6, <1>7, <1>8, <1>9, OneToOne
<1>11. Cardinality(R) = IF first \in A THEN Cardinality(A) - 1 ELSE Cardinality(A)
  BY <1>9, FS_RemoveElement
<1>12. first \in A <=> w = Head(m.notes[n]).master
  <2>1. 1 \in Nat OBVIOUS
  <2> QED BY <1>1, <1>3, <2>1
<1> QED BY <1>9, <1>10, <1>11, <1>12 DEF A, P

\* The end of a call takes one call and one pin.
LEMMA ServedPins ==
  ASSUME NEW m, MemoryInv(m), PinsOK(m), NEW n \in Names, m.notes[n] # <<>>,
         NEW w, w = Head(m.notes[n]).master, m.heap[w].mem = "live", m.heap[w].pins > 0
  PROVE  PinsOK(Served(m, n, w))
<1> DEFINE p == Served(m, n, w)
<1>1. /\ MemoryInv(p) /\ InUse(m, w)
      /\ p.notes[n] = Tail(m.notes[n]) /\ \A x \in Names \ {n} : p.notes[x] = m.notes[x]
      /\ p.heap[w] = Unpin(m.heap[w]) /\ \A v \in Wrappers \ {w} : p.heap[v] = m.heap[v]
      /\ Unpin(m.heap[w]).init = m.heap[w].init /\ Unpin(m.heap[w]).mem = "live"
      /\ Unpin(m.heap[w]).pins = m.heap[w].pins - 1
  BY ServedMemory
<1> HIDE DEF p
<1>2. m \in Memory /\ p \in Memory /\ m.notes[n] \in Seq(Note) BY <1>1 DEF MemoryInv, Memory
<1>3. \A x \in Names : Len(m.notes[x]) <= MaxNotes BY DEF PinsOK
<1>4. \A x \in Names : Len(p.notes[x]) <= MaxNotes
  <2> TAKE x \in Names
  <2>1. CASE x = n
    <3>1. Len(p.notes[n]) = Len(m.notes[n]) - 1 /\ Len(m.notes[n]) \in Nat
      BY <1>1, <1>2, HeadTailProperties, LenProperties
    <3>2. Len(m.notes[n]) <= MaxNotes /\ MaxNotes \in Nat BY <1>3, SlaveAssumption
    <3>3. Len(p.notes[n]) <= MaxNotes BY <3>1, <3>2
    <3> QED BY <2>1, <3>3
  <2>2. CASE x # n BY <1>1, <1>3, <2>2
  <2> QED BY <2>1, <2>2
<1>5. ASSUME NEW v \in Wrappers, InUse(p, v)
      PROVE  /\ p.heap[v].pins = (p.heap[v].init + Cardinality(Active(p, v))) % W
             /\ IsLucky(p.heap[v]) => p.heap[v].mem = "live"
  <2>1. CASE v = w
    <3> DEFINE before == Cardinality(Active(m, w))
               after == Cardinality(Active(p, w))
               init == m.heap[w].init
               sum == init + before
    <3>1. before = after + 1 BY <1>1, <1>2, <1>3, ActiveServed
    <3>2. before \in Nat /\ after \in Nat BY <1>2, <1>3, <1>4, ActiveFinite
    <3>3. init \in Nat
      <4>1. m.heap[w] \in Object BY <1>1, <1>2, HeapCases DEF InUse
      <4>2. m.heap[w].init \in 0 .. W - 1 /\ W \in Nat BY <4>1, SlaveAssumption DEF Object
      <4> QED BY <4>2
    <3>4. m.heap[w].pins = sum % W BY <1>1, <2>1 DEF PinsOK
    <3> HIDE DEF before, after, init
    <3>5. sum \in Nat /\ sum - 1 = init + after BY <3>1, <3>2, <3>3
    <3> HIDE DEF sum
    <3>6. (sum % W) - 1 = (sum - 1) % W BY <3>4, <3>5, RemainderLess, SlaveAssumption
    <3>7. p.heap[w].pins = (init + after) % W BY <1>1, <3>4, <3>5, <3>6
    <3> QED BY <1>1, <2>1, <3>7 DEF init, after
  <2>2. CASE v # w
    <3>1. Cardinality(Active(m, v)) = Cardinality(Active(p, v)) BY <1>1, <1>2, <1>3, <2>2, ActiveServed
    <3>2. p.heap[v] = m.heap[v] BY <1>1, <2>2
    <3>3. InUse(m, v) BY <1>5, <3>2 DEF InUse
    <3> QED BY <3>1, <3>2, <3>3 DEF PinsOK
  <2> QED BY <2>1, <2>2
<1> QED BY <1>4, <1>5 DEF PinsOK, p

\* A wrapper that is deleted has no call, and was not lucky.
LEMMA DeletedPins ==
  ASSUME NEW m, MemoryInv(m), PinsOK(m), NEW key \in Keys, NEW w, InUse(m, w),
         m.heap[w].pins = 0
  PROVE  PinsOK(Deleted(m, key, w))
<1> DEFINE p == Deleted(m, key, w)
<1>1. /\ MemoryInv(p) /\ p.notes = m.notes
      /\ \A v \in Wrappers \ {w} : p.heap[v] = m.heap[v]
      /\ p.heap[w].init = m.heap[w].init /\ p.heap[w].pins = m.heap[w].pins
  BY DeletedMemory
<1> HIDE DEF p
<1>2. \A v : Active(p, v) = Active(m, v) BY <1>1 DEF Active, Calls
<1>3. ~IsLucky(m.heap[w])
  <2> SUFFICES ASSUME IsLucky(m.heap[w]) PROVE FALSE OBVIOUS
  <2>1. m.heap[w].pins >= 1 + Cardinality(Active(m, w)) BY LuckyCount
  <2>2. Cardinality(Active(m, w)) \in Nat BY ActiveFinite DEF PinsOK, MemoryInv
  <2> QED BY <2>1, <2>2
<1>4. ASSUME NEW v \in Wrappers, InUse(p, v)
      PROVE  /\ p.heap[v].pins = (p.heap[v].init + Cardinality(Active(p, v))) % W
             /\ IsLucky(p.heap[v]) => p.heap[v].mem = "live"
  <2>1. CASE v = w BY <1>1, <1>2, <1>3, <2>1 DEF PinsOK, IsLucky
  <2>2. CASE v # w BY <1>1, <1>2, <1>4, <2>2 DEF PinsOK, InUse
  <2> QED BY <2>1, <2>2
<1> QED BY <1>1, <1>4 DEF PinsOK, p

\* An answer changes no count.
LEMMA AnsweredPins ==
  ASSUME NEW m, MemoryInv(m), PinsOK(m), NEW n \in Names, NEW k \in DOMAIN m.notes[n],
         NEW res \in {"ok", "failed"}
  PROVE  PinsOK(Answered(m, n, k, res))
<1> DEFINE p == Answered(m, n, k, res)
<1>1. /\ MemoryInv(p) /\ p.heap = m.heap
      /\ \A x \in Names : /\ Len(p.notes[x]) = Len(m.notes[x])
                          /\ DOMAIN p.notes[x] = DOMAIN m.notes[x]
                          /\ \A i \in DOMAIN m.notes[x] : p.notes[x][i].master = m.notes[x][i].master
  BY AnsweredMemory
<1> HIDE DEF p
<1>2. \A x \in Names : \A v : Calls(p, x, v) = Calls(m, x, v) BY <1>1 DEF Calls
<1>3. \A v : Active(p, v) = Active(m, v) BY <1>2 DEF Active
<1> QED BY <1>1, <1>3 DEF PinsOK, InUse, p

\* A process that is gone, and a memory that nothing was counted in.
LEMMA EmptyPins == PinsOK(Empty)
<1>1. \A w \in Wrappers : ~InUse(Empty, w) BY DEF InUse, Empty
<1> QED BY <1>1, EmptyMemory, QuietPins

-----------------------------------------------------------------------------
(* The steps of the slaves, for the pins.                                  *)

PinInv == \A s \in Slaves : PinsOK(mem[s])

AllLive(m) == \A w \in Wrappers : InUse(m, w) => m.heap[w].mem = "live"

\* With luck, a step of a slave records no fault.
NoFaults == \A s \in Slaves : LuckyPins(s) => faults'[s] = faults[s]

\* With luck, no object is freed.
LEMMA LuckyLive ==
  ASSUME NEW s, PinsOK(mem[s]), LuckyPins(s)
  PROVE  AllLive(mem[s])
<1> SUFFICES ASSUME NEW w \in Wrappers, InUse(mem[s], w) PROVE mem[s].heap[w].mem = "live"
  BY DEF AllLive
<1>1. IsLucky(mem[s].heap[w]) BY DEF LuckyPins, IsLucky, InUse, MaxActive
<1> QED BY <1>1 DEF PinsOK

\* When all wrappers that were made live, no file has a freed one.
LEMMA LiveFiles ==
  ASSUME NEW m, MemoryInv(m), AllLive(m), NEW n \in Names
  PROVE  ~Freed(m, n)
BY DEF MemoryInv, AllLive, Freed, WrapperOf, InUse

\* A wrapper that AddFile makes lives.
LEMMA AddedLive ==
  ASSUME NEW m0, MemoryInv(m0), AllLive(m0), NEW n \in Names, NEW u \in Uris,
         NEW m \in AfterAddFile(m0, n, u)
  PROVE  AllLive(m)
<1> SUFFICES ASSUME NEW w \in Wrappers, InUse(m, w) PROVE m.heap[w].mem = "live"
  BY DEF AllLive
<1>1. CASE m.heap[w] = m0.heap[w] BY <1>1 DEF AllLive, InUse
<1>2. CASE m.heap[w].mem = "live" BY <1>2
<1> QED BY <1>1, <1>2, AddedMemory

\* Changing files frees nothing.
LEMMA ChangedLive ==
  ASSUME NEW m, MemoryInv(m), AllLive(m), NEW set \in SUBSET Names, \A n \in set : Has(m, n),
         NEW p, p.heap = ChangedHeap(m, set)
  PROVE  AllLive(p)
<1> SUFFICES ASSUME NEW w \in Wrappers, InUse(p, w) PROVE p.heap[w].mem = "live"
  BY DEF AllLive
<1>1. InUse(m, w) BY ChangedObject DEF InUse
<1>2. p.heap[w].mem = m.heap[w].mem BY <1>1, ChangedObject
<1> QED BY <1>1, <1>2 DEF AllLive

\* A step of one slave that the others do not notice.
LEMMA OneMemory ==
  ASSUME PinInv, NEW s \in Slaves, mem \in [Slaves -> Memory], NEW m, PinsOK(m),
         mem' = [mem EXCEPT ![s] = m],
         \A r \in Slaves \ {s} : faults'[r] = faults[r],
         LuckyPins(s) => faults'[s] = faults[s]
  PROVE  PinInv' /\ NoFaults
<1>1. mem'[s] = m /\ \A r \in Slaves \ {s} : mem'[r] = mem[r] OBVIOUS
<1>2. PinInv' BY <1>1 DEF PinInv
<1> QED BY <1>2 DEF NoFaults

\* A process that ends leaves no counts.
LEMMA GonePins ==
  ASSUME WorkInv, PinInv, NEW s \in Slaves, Gone(s), faults' = faults
  PROVE  PinInv' /\ NoFaults
<1>1. mem \in [Slaves -> Memory] /\ mem' = [mem EXCEPT ![s] = Empty] BY DEF Gone, WorkInv, TypeOK
<1> QED BY <1>1, EmptyPins, OneMemory

\* An unlucky one may end in a fault.
LEMMA FaultPins ==
  ASSUME WorkInv, PinInv, NEW s \in Slaves, NEW why, Fault(s, why), ~LuckyPins(s)
  PROVE  PinInv' /\ NoFaults
<1>1. mem \in [Slaves -> Memory] /\ mem' = [mem EXCEPT ![s] = Empty]
      /\ faults' = [faults EXCEPT ![s] = @ \cup {why}]
      /\ faults \in [Slaves -> SUBSET {"use after free", "unpin below 1", "erased master not found"}]
  BY DEF Fault, Gone, WorkInv, TypeOK
<1>2. \A r \in Slaves \ {s} : faults'[r] = faults[r] BY <1>1
<1> QED BY <1>1, <1>2, EmptyPins, OneMemory

\* A handler that returns adds no fault.
LEMMA ReturnPins ==
  ASSUME WorkInv, PinInv, NEW s \in Slaves, NEW m, NEW changed, Return(s, m, changed), PinsOK(m)
  PROVE  PinInv' /\ NoFaults
<1>1. mem \in [Slaves -> Memory] /\ mem' = [mem EXCEPT ![s] = m] /\ faults' = faults
  BY DEF Return, WorkInv, TypeOK
<1> QED BY <1>1, OneMemory

\* One that changes files adds none if all wrappers live.
LEMMA ChangeAndReturnPins ==
  ASSUME WorkInv, PinInv, NEW s \in Slaves, NEW m, NEW touched, ChangeAndReturn(s, m, touched),
         MemoryInv(m), PinsOK(m), LuckyPins(s) => AllLive(m)
  PROVE  PinInv' /\ NoFaults
<1>1. CASE Return(s, m, touched # {}) BY <1>1, ReturnPins
<1>2. CASE (\E n \in Names : Freed(m, n)) /\ Fault(s, "use after free")
  <2>1. ~LuckyPins(s) BY <1>2, LiveFiles
  <2> QED BY <1>2, <2>1, FaultPins
<1> QED BY <1>1, <1>2 DEF ChangeAndReturn

\* The steps again: an RPC of a master adds a file.
LEMMA AddPinStep ==
  ASSUME WorkInv, PinInv, NEW s \in Slaves, NEW n \in Names, NEW u \in Uris, RpcAddFile(s, n, u)
  PROVE  PinInv' /\ NoFaults
<1> DEFINE m0 == mem[s]
<1>1. MemoryInv(m0) /\ PinsOK(m0) BY DEF WorkInv, WorkOK, PinInv
<1>2. PICK m \in AfterAddFile(m0, n, u) : \E more \in MoreFiles(m) :
        /\ MayNotify(s, more)
        /\ \E started \in SUBSET more : ChangeAndReturn(s, StartProcessing(m, more, started), more)
  BY DEF RpcAddFile
<1>3. PICK more \in MoreFiles(m) :
        /\ MayNotify(s, more)
        /\ \E started \in SUBSET more : ChangeAndReturn(s, StartProcessing(m, more, started), more)
  BY <1>2
<1>4. PICK started \in SUBSET more : ChangeAndReturn(s, StartProcessing(m, more, started), more)
  BY <1>3
<1> DEFINE p == StartProcessing(m, more, started)
<1>5. MemoryInv(m) /\ m \in Memory /\ PinsOK(m) /\ m.notes = m0.notes
  BY <1>1, AddedMemory, AddedPins DEF MemoryInv
<1>6. more \in SUBSET Names /\ \A k \in more : State(m, k) = "PENDING" BY DEF MoreFiles, In
<1>7. \A k \in more : Has(m, k) BY <1>5, <1>6, FileCases DEF FState, SlaveStates
<1>8. \A k \in more : Len(m.notes[k]) < MaxNotes BY <1>3, <1>5 DEF MayNotify
<1>9. MemoryInv(p) /\ PinsOK(p) BY <1>5, <1>6, <1>7, <1>8, StartMemory, StartPins
<1>10. p.heap = ChangedHeap(m, more)
  <2> DEFINE procs == [k \in Names |-> IF k \in started THEN m.procs[k] + 1 ELSE m.procs[k]]
  <2> HIDE DEF p
  <2>1. p = [files |-> ChangedFiles(m, more, Outcome(more, started)), masters |-> m.masters,
             heap |-> ChangedHeap(m, more), procs |-> procs,
             notes |-> ChangedNotes(m, more, Outcome(more, started))]
    BY <1>5, <1>6, StartFields DEF p
  <2> HIDE DEF procs
  <2> QED BY <2>1
<1> HIDE DEF p
<1>11. LuckyPins(s) => AllLive(p)
  <2> SUFFICES ASSUME LuckyPins(s) PROVE AllLive(p) OBVIOUS
  <2>1. AllLive(m0) BY <1>1, LuckyLive
  <2>2. AllLive(m) BY <1>1, <2>1, AddedLive
  <2> QED BY <1>5, <1>6, <1>7, <1>10, <2>2, ChangedLive
<1> QED BY <1>4, <1>9, <1>11, ChangeAndReturnPins DEF p

\* The pins are those of the wrappers and the calls alone.
LEMMA SamePins ==
  ASSUME NEW m, PinsOK(m), NEW p, p.heap = m.heap, p.notes = m.notes
  PROVE  PinsOK(p)
<1>1. \A w : Active(p, w) = Active(m, w) BY DEF Active, Calls
<1> QED BY <1>1 DEF PinsOK, InUse

\* DelFile: the calls about the file go on.
LEMMA DelPinStep ==
  ASSUME WorkInv, PinInv, NEW s \in Slaves, NEW n \in Names, RpcDelFile(s, n)
  PROVE  PinInv' /\ NoFaults
<1> DEFINE p == [mem[s] EXCEPT !.files[n] = Absent]
<1>1. mem \in [Slaves -> Memory] /\ mem[s] \in Memory /\ PinsOK(mem[s])
  BY DEF WorkInv, TypeOK, PinInv
<1>2. p.heap = mem[s].heap /\ p.notes = mem[s].notes BY <1>1 DEF Memory
<1>3. mem' = [mem EXCEPT ![s] = p] /\ faults' = faults BY <1>1 DEF RpcDelFile
<1> HIDE DEF p
<1>4. PinsOK(p) BY <1>1, <1>2, SamePins
<1> QED BY <1>1, <1>3, <1>4, OneMemory

\* The exit of a process.
LEMMA CompletedPinStep ==
  ASSUME WorkInv, PinInv, NEW s \in Slaves, NEW n \in Names, NEW report \in {Ready, Error},
         ProcessingCompleted(s, n, report)
  PROVE  PinInv' /\ NoFaults
<1> DEFINE m == Reaped(mem[s], n)
           r == [x \in {n} |-> report]
           p == ChangeFileStates(m, r)
<1>1. MemoryInv(mem[s]) /\ PinsOK(mem[s]) BY DEF WorkInv, WorkOK, PinInv
<1>2. mem[s].procs[n] > 0 /\ MayNotify(s, {n}) BY DEF ProcessingCompleted
<1>3. MemoryInv(m) /\ m.heap = mem[s].heap /\ m.notes = mem[s].notes
  BY <1>1, <1>2, ReapedMemory
<1> HIDE DEF m
<1>4. PinsOK(m) BY <1>1, <1>3, SamePins
<1>5. CASE Has(m, n)
  <2>1. ChangeAndReturn(s, p, {n}) BY <1>5 DEF ProcessingCompleted, m
  <2>2. {n} \in SUBSET Names /\ r \in [{n} -> SlaveReports] BY ReportsAreFiles
  <2>3. \A x \in {n} : Has(m, x) /\ Len(m.notes[x]) < MaxNotes
    BY <1>2, <1>3, <1>5 DEF MayNotify
  <2> HIDE DEF r
  <2>4. MemoryInv(p) /\ PinsOK(p) BY <1>3, <1>4, <2>2, <2>3, ChangeMemory, ReportPins
  <2>5. m \in Memory BY <1>3 DEF MemoryInv
  <2>6. p.heap = ChangedHeap(m, {n}) BY <2>2, <2>5, ChangeFields
  <2> HIDE DEF p
  <2>7. LuckyPins(s) => AllLive(p)
    <3> SUFFICES ASSUME LuckyPins(s) PROVE AllLive(p) OBVIOUS
    <3>1. AllLive(mem[s]) BY <1>1, LuckyLive
    <3>2. AllLive(m) BY <1>3, <3>1 DEF AllLive, InUse
    <3> QED BY <1>3, <2>2, <2>3, <2>6, <3>2, ChangedLive
  <2> QED BY <2>1, <2>4, <2>7, ChangeAndReturnPins
<1>6. CASE ~Has(m, n)
  <2>1. Return(s, m, FALSE) BY <1>6 DEF ProcessingCompleted, m
  <2> QED BY <1>4, <2>1, ReturnPins
<1> QED BY <1>5, <1>6

\* The last call of a wrapper, which is then deleted.
LEMMA ErasedPins ==
  ASSUME NEW m, MemoryInv(m), PinsOK(m), NEW n \in Names, m.notes[n] # <<>>,
         NEW w, w = Head(m.notes[n]).master, m.heap[w].mem = "live", m.heap[w].pins = 1,
         NEW key \in Keys
  PROVE  PinsOK(Deleted(Served(m, n, w), key, w))
<1> DEFINE p == Served(m, n, w)
<1>0. m.heap[w].pins > 0 OBVIOUS
<1>1. /\ MemoryInv(p) /\ InUse(m, w) /\ p.heap[w] = Unpin(m.heap[w])
      /\ Unpin(m.heap[w]).pins = m.heap[w].pins - 1 /\ Unpin(m.heap[w]) \in Object
  BY <1>0, ServedMemory
<1>2. PinsOK(p) BY <1>0, ServedPins
<1>3. \A x \in Object : x # Unused BY DEF Object, Unused
<1> HIDE DEF p
<1>4. InUse(p, w) /\ p.heap[w].pins = 0 BY <1>1, <1>3 DEF InUse
<1> QED BY <1>1, <1>2, <1>4, DeletedPins DEF p

\* The result of a call: a lucky count is above 1 then, so that the wrapper
\* is not deleted and no CHECK fails.
LEMMA HandlePinStep ==
  ASSUME WorkInv, PinInv, NEW s \in Slaves, NEW n \in Names, HandleNotifyStateChangeResult(s, n)
  PROVE  PinInv' /\ NoFaults
<1> DEFINE w == Head(mem[s].notes[n]).master
           object == mem[s].heap[w]
           key == LoadKey(object.key[1])
           p == Served(mem[s], n, w)
<1>1. mem[s].notes[n] # <<>> /\ MemoryInv(mem[s]) /\ PinsOK(mem[s])
  BY DEF HandleNotifyStateChangeResult, WorkInv, WorkOK, PinInv
<1>2. key \in Keys /\ object.pins \in Nat /\ InUse(mem[s], w) BY <1>1, HeadInUse
<1>3. \/ object.mem = "freed" /\ Fault(s, "use after free")
      \/ object.mem = "live" /\ object.pins = 0 /\ Fault(s, "unpin below 1")
      \/ object.mem = "live" /\ object.pins > 1 /\ Return(s, p, FALSE)
      \/ object.mem = "live" /\ object.pins = 1 /\ Fault(s, "erased master not found")
      \/ object.mem = "live" /\ object.pins = 1 /\ Return(s, Deleted(p, key, w), FALSE)
  BY HandleCases, Zenon
<1>4. LuckyPins(s) => object.mem = "live" /\ object.pins > 1
  <2> SUFFICES ASSUME LuckyPins(s) PROVE object.mem = "live" /\ object.pins > 1 OBVIOUS
  <2>1. w \in Wrappers /\ IsLucky(mem[s].heap[w])
    BY <1>2 DEF LuckyPins, IsLucky, InUse, MaxActive
  <2> DEFINE active == Active(mem[s], w)
  <2>2. object.pins >= 1 + Cardinality(active) /\ object.mem = "live"
    BY <1>1, <1>2, <2>1, LuckyCount
  <2>3. mem[s] \in Memory /\ mem[s].notes[n] \in Seq(Note) BY <1>1 DEF MemoryInv, Memory
  <2>4. <<n, 1>> \in active
    <3>1. 1 \in DOMAIN mem[s].notes[n] /\ mem[s].notes[n][1] = Head(mem[s].notes[n])
      BY <1>1, <2>3
    <3>2. 1 \in Nat OBVIOUS
    <3> QED BY <2>3, <3>1, <3>2, ActiveIs
  <2>5. IsFiniteSet(active) /\ Cardinality(active) \in Nat
    BY <1>1, <2>3, ActiveFinite DEF PinsOK
  <2> HIDE DEF active, object
  <2>6. Cardinality(active) # 0 BY <2>4, <2>5, FS_EmptySet
  <2> QED BY <1>2, <2>2, <2>5, <2>6
<1>5. object.mem = "live" /\ object.pins > 0 => PinsOK(p) BY <1>1, ServedPins
<1>6. object.mem = "live" /\ object.pins = 1 => PinsOK(Deleted(p, key, w))
  <2> SUFFICES ASSUME object.mem = "live", object.pins = 1 PROVE PinsOK(Deleted(p, key, w))
    OBVIOUS
  <2> HIDE DEF object, key, w
  <2> QED BY <1>1, <1>2, ErasedPins DEF object, w
<1> DEFINE q == Deleted(p, key, w)
           lives == object.mem
           pins == object.pins
<1>7. CASE \E why : Fault(s, why) /\ ~LuckyPins(s) BY <1>7, FaultPins
<1>8. CASE Return(s, p, FALSE) /\ PinsOK(p) BY <1>8, ReturnPins
<1>9. CASE Return(s, q, FALSE) /\ PinsOK(q) BY <1>9, ReturnPins
<1> HIDE DEF lives, pins, q, p
<1>10. lives = "freed" \/ pins = 0 \/ pins = 1 => ~LuckyPins(s)
  <2>1. LuckyPins(s) => lives = "live" /\ pins > 1 BY <1>4 DEF lives, pins
  <2>2. pins \in Nat BY <1>2 DEF pins
  <2> QED BY <2>1, <2>2
<1>11. /\ lives = "live" /\ pins > 1 => PinsOK(p)
       /\ lives = "live" /\ pins = 1 => PinsOK(q)
  <2>1. lives = "live" /\ pins > 0 => PinsOK(p) BY <1>5 DEF lives, pins, p
  <2>2. lives = "live" /\ pins = 1 => PinsOK(q) BY <1>6 DEF lives, pins, q, p
  <2>3. pins \in Nat BY <1>2 DEF pins
  <2> QED BY <2>1, <2>2, <2>3
<1>12. \/ lives = "freed" /\ Fault(s, "use after free")
       \/ lives = "live" /\ pins = 0 /\ Fault(s, "unpin below 1")
       \/ lives = "live" /\ pins > 1 /\ Return(s, p, FALSE)
       \/ lives = "live" /\ pins = 1 /\ Fault(s, "erased master not found")
       \/ lives = "live" /\ pins = 1 /\ Return(s, q, FALSE)
  BY <1>3, Zenon DEF lives, pins, q
<1> QED BY <1>7, <1>8, <1>9, <1>10, <1>11, <1>12

\* Load: every wrapper is new, and the calls that follow are counted.
LEMMA StartPinStep ==
  ASSUME WorkInv, PinInv, NEW s \in Slaves, Start(s)
  PROVE  PinInv' /\ NoFaults
<1> DEFINE saved == ssaved[s]
           uris == UrisOf(saved)
<1>1. /\ mem \in [Slaves -> Memory] /\ saved \in SavedFiles /\ faults' = faults
  BY DEF WorkInv, TypeOK, SavedFiles, Start
<1>3. PICK a \in [uris -> Wrappers], pins \in [uris -> PinGarbage] :
        /\ \A u, v \in uris : a[u] = a[v] => u = v
        /\ \E started \in SUBSET Resumed(saved) :
             LET m == StartProcessing(Loaded(saved, a, pins), Resumed(saved), started)
             IN  /\ mem' = [mem EXCEPT ![s] = m]
                 /\ ssaved' = [ssaved EXCEPT ![s] = IF Resumed(saved) = {} THEN @ ELSE Saved(m)]
  BY DEF Start
<1>4. PICK started \in SUBSET Resumed(saved) :
        LET m == StartProcessing(Loaded(saved, a, pins), Resumed(saved), started)
        IN  /\ mem' = [mem EXCEPT ![s] = m]
            /\ ssaved' = [ssaved EXCEPT ![s] = IF Resumed(saved) = {} THEN @ ELSE Saved(m)]
  BY <1>3
<1> DEFINE m == Loaded(saved, a, pins)
           p == StartProcessing(m, Resumed(saved), started)
<1>5. mem' = [mem EXCEPT ![s] = p] BY <1>4
<1>6. /\ MemoryInv(m) /\ Saved(m) = saved /\ m.notes = Empty.notes
      /\ \A w \in Wrappers : InUse(m, w) => m.heap[w].mem = "live" /\ m.heap[w].pins = m.heap[w].init
  BY <1>1, <1>3, LoadedMemory
<1> HIDE DEF m
<1>7. PinsOK(m) BY <1>6, QuietPins
<1>8. \A n \in Names : m.notes[n] = <<>> BY <1>6 DEF Empty
<1>9. ASSUME NEW n \in Resumed(saved) PROVE Has(m, n) /\ Len(m.notes[n]) < MaxNotes
  <2>1. n \in Names /\ saved[n].file.st = "PROCESSING" BY DEF Resumed
  <2>2. ~Has(m, n) => saved[n] = Absent BY <1>6, <2>1 DEF Saved
  <2>3. Absent.file.st # "PROCESSING" BY DEF Absent, NoFile, ABSENT
  <2>4. Len(m.notes[n]) < MaxNotes
    <3>1. Len(m.notes[n]) = 0 BY <1>8, <2>1
    <3> QED BY <3>1, SlaveAssumption
  <2> QED BY <2>1, <2>2, <2>3, <2>4
<1>10. Resumed(saved) \in SUBSET Names BY DEF Resumed
<1>11. PinsOK(p) BY <1>6, <1>7, <1>9, <1>10, StartPins
<1> HIDE DEF p
<1>12. PinsOK(mem[s]) BY DEF PinInv
<1> QED BY <1>1, <1>5, <1>11, OneMemory

\* Stop() and a crash leave nothing in memory; Save() uses no freed object.
LEMMA StopPinStep ==
  ASSUME WorkInv, PinInv, NEW s \in Slaves, Stop(s) \/ Crash(s)
  PROVE  PinInv' /\ NoFaults
<1>1. CASE Gone(s) /\ faults' = faults BY <1>1, GonePins
<1>2. CASE (\E n \in Names : Freed(mem[s], n)) /\ Fault(s, "use after free")
  <2>1. MemoryInv(mem[s]) /\ PinsOK(mem[s]) BY DEF WorkInv, WorkOK, PinInv
  <2>2. ~LuckyPins(s) BY <1>2, <2>1, LuckyLive, LiveFiles
  <2> QED BY <1>2, <2>2, FaultPins
<1> QED BY <1>1, <1>2 DEF Stop, Crash

\* An answer is not a result yet: the call goes on.
LEMMA AnswerPinStep ==
  ASSUME WorkInv, PinInv, NEW s \in Slaves, NEW n \in Names, NEW res \in {"ok", "failed"},
         AnswerNote(s, n, res)
  PROVE  PinInv' /\ NoFaults
<1> DEFINE k == FirstUnanswered(s, n)
           p == Answered(mem[s], n, k, res)
<1>1. mem \in [Slaves -> Memory] /\ MemoryInv(mem[s]) /\ PinsOK(mem[s])
  BY DEF WorkInv, TypeOK, WorkOK, PinInv
<1>2. mem[s].notes[n] \in Seq(Note) BY <1>1 DEF Memory
<1>3. k \in DOMAIN mem[s].notes[n]
  <2>1. Unanswered(s, n) # {} /\ Unanswered(s, n) \subseteq DOMAIN mem[s].notes[n]
    BY DEF AnswerNote, Unanswered
  <2>2. Unanswered(s, n) \in SUBSET Nat BY <1>2, <2>1
  <2>3. \E i \in Unanswered(s, n) : \A j \in Unanswered(s, n) : i <= j
    BY <2>1, <2>2, Smallest
  <2>4. k \in Unanswered(s, n) BY <2>3 DEF FirstUnanswered
  <2> QED BY <2>1, <2>4
<1>4. mem' = [mem EXCEPT ![s] = p] /\ faults' = faults BY <1>1 DEF AnswerNote, Answered
<1> HIDE DEF k
<1>5. PinsOK(p) BY <1>1, <1>3, AnsweredPins
<1> HIDE DEF p
<1> QED BY <1>1, <1>4, <1>5, OneMemory

\* Every step keeps the count of the calls, and records no fault with luck.
LEMMA PinStep ==
  ASSUME WorkInv, PinInv, [Next]_svars
  PROVE  PinInv' /\ NoFaults
<1>1. CASE UNCHANGED svars
  <2>1. PinInv' BY <1>1 DEF svars, PinInv
  <2>2. NoFaults BY <1>1 DEF svars, NoFaults
  <2> QED BY <2>1, <2>2
<1>2. ASSUME NEW s \in Slaves,
             RpcStep(s) \/ CallbackStep(s) \/ ProcessStep(s) \/ AnyMasterStep(s)
      PROVE  PinInv' /\ NoFaults
  <2>1. CASE RpcStep(s) BY <2>1, DelPinStep, AddPinStep DEF RpcStep
  <2>2. CASE CallbackStep(s) BY <2>2, CompletedPinStep, HandlePinStep DEF CallbackStep
  <2>3. CASE ProcessStep(s) BY <2>3, StartPinStep, StopPinStep DEF ProcessStep
  <2>4. CASE AnyMasterStep(s) BY <2>4, AnswerPinStep DEF AnyMasterStep
  <2> QED BY <1>2, <2>1, <2>2, <2>3, <2>4
<1> QED BY <1>1, <1>2 DEF Next

\* What the pins count holds in every reachable state.
THEOREM PinInvariance == Spec => []PinInv
<1>1. Init => PinInv BY EmptyPins DEF Init, PinInv
<1> QED BY <1>1, WorkInvariance, PinStep, PTL DEF Spec

\* pin_count_ is its first value and the calls in progress, in the width of a
\* uint32 (MasterWrapper::Pin and Unpin).
THEOREM PinsCount == Spec => []PinsCountCalls
<1>1. PinInv => PinsCountCalls BY DEF PinInv, PinsOK, InUse, Active, Calls, PinsCountCalls
<1> QED BY <1>1, PinInvariance, PTL

\* With luck, what the files and the calls refer to is not deleted, and no
\* CHECK of it fails.
THEOREM LuckyMastersLive == Spec => MastersLive
<1> DEFINE Live == \A s \in Slaves : LuckyPins(s) =>
                     \A n \in Names :
                       /\ ~Freed(mem[s], n)
                       /\ \A k \in DOMAIN mem[s].notes[n] :
                            mem[s].heap[mem[s].notes[n][k].master].mem = "live"
<1>1. WorkInv /\ PinInv => Live
  <2> SUFFICES ASSUME WorkInv, PinInv, NEW s \in Slaves, LuckyPins(s), NEW n \in Names
               PROVE  /\ ~Freed(mem[s], n)
                      /\ \A k \in DOMAIN mem[s].notes[n] :
                           mem[s].heap[mem[s].notes[n][k].master].mem = "live"
    OBVIOUS
  <2>1. MemoryInv(mem[s]) /\ AllLive(mem[s]) BY LuckyLive DEF WorkInv, WorkOK, PinInv
  <2>2. ~Freed(mem[s], n) BY <2>1, LiveFiles
  <2>3. \A k \in DOMAIN mem[s].notes[n] : mem[s].heap[mem[s].notes[n][k].master].mem = "live"
    BY <2>1 DEF MemoryInv, AllLive, InUse
  <2> QED BY <2>2, <2>3
<1>2. WorkInv /\ PinInv /\ [Next]_svars
        => [\A s \in Slaves : LuckyPins(s) => faults'[s] = faults[s]]_svars
  BY PinStep DEF NoFaults
<1>3. MastersLive <=> []Live /\ [][\A s \in Slaves : LuckyPins(s) => faults'[s] = faults[s]]_svars
  BY PTL DEF MastersLive
<1> HIDE DEF Live
<1> QED BY <1>1, <1>2, <1>3, WorkInvariance, PinInvariance, PTL DEF Spec

-----------------------------------------------------------------------------
(* What becomes of a file at a slave, while nobody deletes files there.    *)

Stages == {ABSENT, "PENDING", "PROCESSING", "SLAVE_READY", "ERROR"}
IsBegun(st) == st \notin {ABSENT, "PENDING"}

\* How far a file has come: what is on disk counts once it is beyond PENDING.
StageOf(m, saved, n) ==
  IF IsBegun(saved[n].file.st) THEN saved[n].file.st ELSE State(m, n)

\* How a file goes on.  One that is PENDING is lost in a crash, and read from
\* the disk again at the next start.
Advances(a, b) ==
  \/ b = a
  \/ a = ABSENT /\ b \in {"PENDING", "PROCESSING", "ERROR"}
  \/ a = "PENDING" /\ b \in {ABSENT, "PROCESSING", "ERROR"}
  \/ a = "PROCESSING" /\ b \in {"SLAVE_READY", "ERROR"}

\* What the master may have been told of a file in state st.
Told(st) == {r \in {"PROCESSING", st} : IsBegun(st)}

\* The master is told nothing but what has happened, PROCESSING first.
TellsOK(m) ==
  \A n \in Names : \A k \in DOMAIN m.notes[n] :
    /\ m.notes[n][k].file.st \in Told(State(m, n))
    /\ k # 1 => m.notes[n][k].file.st # "PROCESSING"

\* The news that a file is PROCESSING is on its way.
Telling(m, n) ==
  /\ m.notes[n] # <<>>
  /\ m.notes[n][1].file.st = "PROCESSING" /\ m.notes[n][1].res = "sent"

\* What is beyond PENDING on disk is so in memory, while the slave is up.
StageOK(up, m, saved) ==
  /\ \A n \in Names : State(m, n) \in Stages /\ saved[n].file.st \in Stages
  /\ up => \A n \in Names : IsBegun(saved[n].file.st) => Saved(m)[n] = saved[n]
  /\ TellsOK(m)

StageMoves(m, saved, p, next) ==
  \A n \in Names :
    /\ Advances(StageOf(m, saved, n), StageOf(p, next, n))
    /\ Telling(p, n) => Telling(m, n) \/ StageOf(p, next, n) = "PROCESSING"

\* While the slave is up, that is its state in memory.
LEMMA StageIsState ==
  ASSUME NEW m, NEW saved, NEW removed, WorkOK(TRUE, m, saved, removed),
         StageOK(TRUE, m, saved), NEW n \in Names
  PROVE  StageOf(m, saved, n) = State(m, n)
<1>1. m \in Memory /\ MemoryInv(m) BY DEF WorkOK, MemoryInv
<1>2. CASE IsBegun(saved[n].file.st)
  <2>1. Saved(m)[n] = saved[n] BY <1>2 DEF StageOK
  <2> QED BY <1>1, <1>2, <2>1, SavedFacts DEF StageOf
<1>3. CASE ~IsBegun(saved[n].file.st) BY <1>3 DEF StageOf
<1> QED BY <1>2, <1>3

\* Nothing is told of an empty memory.
LEMMA EmptyTells == /\ TellsOK(Empty)
                    /\ \A n \in Names : State(Empty, n) = ABSENT /\ ~Telling(Empty, n)
BY DEF TellsOK, Telling, Empty, State, Absent, NoFile

\* A process that ends leaves files as they are on disk.
LEMMA GoneStage ==
  ASSUME NEW m, NEW saved, NEW removed, WorkOK(TRUE, m, saved, removed),
         StageOK(TRUE, m, saved), NEW next, next = saved \/ next = Saved(m)
  PROVE  StageOK(FALSE, Empty, next) /\ StageMoves(m, saved, Empty, next)
<1>1. m \in Memory /\ MemoryInv(m) BY DEF WorkOK, MemoryInv
<1>2. \A n \in Names : next[n].file.st \in Stages
  BY <1>1, SavedFacts DEF StageOK
<1>3. StageOK(FALSE, Empty, next) BY <1>2, EmptyTells DEF StageOK, Stages
<1>4. ASSUME NEW n \in Names
      PROVE  Advances(StageOf(m, saved, n), StageOf(Empty, next, n))
  <2>1. StageOf(m, saved, n) = State(m, n) BY StageIsState
  <2>2. IsBegun(State(m, n)) => next[n].file.st = State(m, n)
    <3>1. IsBegun(State(m, n)) => saved[n] = Saved(m)[n]
      BY <1>1, FileCases DEF WorkOK, Durable, IsBegun
    <3> QED BY <1>1, <3>1, SavedFacts
  <2>3. IsBegun(next[n].file.st) => next[n].file.st = State(m, n)
    BY <1>1, SavedFacts DEF StageOK
  <2>4. StageOf(Empty, next, n) = IF IsBegun(State(m, n)) THEN State(m, n) ELSE ABSENT
    BY <2>2, <2>3, EmptyTells DEF StageOf
  <2> QED BY <2>1, <2>4 DEF Advances, IsBegun
<1> QED BY <1>3, <1>4, EmptyTells DEF StageMoves

\* A step of a slave that stays up, as the states in memory show it.
LEMMA UpStage ==
  ASSUME NEW m, NEW saved, NEW removed, WorkOK(TRUE, m, saved, removed),
         StageOK(TRUE, m, saved),
         NEW p, NEW next, NEW gone, WorkOK(TRUE, p, next, gone), StageOK(TRUE, p, next),
         \A n \in Names : /\ Advances(State(m, n), State(p, n))
                          /\ Telling(p, n) => Telling(m, n) \/ State(p, n) = "PROCESSING"
  PROVE  StageMoves(m, saved, p, next)
<1>1. \A n \in Names : StageOf(m, saved, n) = State(m, n) BY StageIsState
<1>2. \A n \in Names : StageOf(p, next, n) = State(p, n) BY StageIsState
<1> QED BY <1>1, <1>2 DEF StageMoves

\* After Save() the disk says what the memory says.
LEMMA SavedStage ==
  ASSUME NEW p, MemoryInv(p), \A n \in Names : State(p, n) \in Stages, TellsOK(p)
  PROVE  StageOK(TRUE, p, Saved(p))
BY SavedFacts DEF StageOK

\* Files that nothing was told of are started: now they are PROCESSING or in
\* ERROR, and that is told.
LEMMA StartTells ==
  ASSUME NEW m, MemoryInv(m), TellsOK(m), NEW set \in SUBSET Names, NEW started \in SUBSET set,
         \A n \in set : Has(m, n) /\ m.notes[n] = <<>>
  PROVE  LET p == StartProcessing(m, set, started)
         IN  /\ TellsOK(p)
             /\ \A n \in Names : Telling(p, n) => Telling(m, n) \/ State(p, n) = "PROCESSING"
<1> DEFINE p == StartProcessing(m, set, started)
           report == Outcome(set, started)
<1>1. m \in Memory BY DEF MemoryInv
<1>2. p.notes = ChangedNotes(m, set, report)
  <2>1. p = [files |-> ChangedFiles(m, set, report), masters |-> m.masters,
             heap |-> ChangedHeap(m, set),
             procs |-> [n \in Names |-> IF n \in started THEN m.procs[n] + 1 ELSE m.procs[n]],
             notes |-> ChangedNotes(m, set, report)]
    BY <1>1, StartFields
  <2> HIDE DEF p, report
  <2> QED BY <2>1
<1>3. \A n \in Names : State(p, n) = StateAfter(m, set, started, n) BY StartEffect
<1> HIDE DEF p
<1>4. ASSUME NEW n \in Names \ set
      PROVE  p.notes[n] = m.notes[n] /\ State(p, n) = State(m, n)
  BY <1>2, <1>3, <1>4 DEF ChangedNotes, StateAfter
<1>5. ASSUME NEW n \in set
      PROVE  /\ DOMAIN p.notes[n] = {1} /\ p.notes[n][1].file.st = State(p, n)
             /\ State(p, n) \in {"PROCESSING", "ERROR"}
  <2> DEFINE note == [file |-> report[n], res |-> "sent", master |-> m.files[n].master]
  <2>1. p.notes[n] = Append(<<>>, note) BY <1>2, <1>5 DEF ChangedNotes
  <2>2. p.notes[n] = <<note>> BY <2>1
  <2>3. report[n].st = State(p, n) BY <1>3, <1>5 DEF Outcome, StateAfter, Processing, Error
  <2>4. State(p, n) \in {"PROCESSING", "ERROR"} BY <1>3, <1>5 DEF StateAfter
  <2> QED BY <2>2, <2>3, <2>4
<1>6. TellsOK(p)
  <2> SUFFICES ASSUME NEW n \in Names, NEW k \in DOMAIN p.notes[n]
               PROVE  /\ p.notes[n][k].file.st \in Told(State(p, n))
                      /\ k # 1 => p.notes[n][k].file.st # "PROCESSING"
    BY DEF TellsOK
  <2>1. CASE n \in set BY <1>5, <2>1 DEF Told, IsBegun, ABSENT
  <2>2. CASE n \notin set BY <1>4, <2>2 DEF TellsOK
  <2> QED BY <2>1, <2>2
<1>7. ASSUME NEW n \in Names, Telling(p, n)
      PROVE  Telling(m, n) \/ State(p, n) = "PROCESSING"
  <2>1. CASE n \in set BY <1>5, <1>7, <2>1 DEF Telling
  <2>2. CASE n \notin set BY <1>4, <1>7, <2>2 DEF Telling
  <2> QED BY <2>1, <2>2
<1> QED BY <1>6, <1>7 DEF p

\* AddFile, and what it starts.
LEMMA AddStage ==
  ASSUME NEW m0, NEW saved, NEW removed, WorkOK(TRUE, m0, saved, removed),
         StageOK(TRUE, m0, saved),
         NEW n \in Names, ~Has(m0, n), NEW u \in Uris, NEW m \in AfterAddFile(m0, n, u),
         NEW more \in MoreFiles(m), NEW started \in SUBSET more
  PROVE  LET p == StartProcessing(m, more, started)
             next == SavedAfter(saved, more, p)
         IN  StageOK(TRUE, p, next) /\ StageMoves(m0, saved, p, next)
<1> DEFINE p == StartProcessing(m, more, started)
           next == SavedAfter(saved, more, p)
<1>1. MemoryInv(m0) /\ m0 \in Memory BY DEF WorkOK, MemoryInv
<1>2. MemoryInv(m) /\ m \in Memory /\ m.notes = m0.notes BY <1>1, AddedMemory DEF MemoryInv
<1>3. /\ State(m, n) = "PENDING"
      /\ \A k \in Names \ {n} : State(m, k) = State(m0, k) /\ Saved(m)[k] = Saved(m0)[k]
  BY <1>1, AddedEffect
<1>4. State(m0, n) = ABSENT BY <1>1, FileCases
<1>5. more \in SUBSET Names /\ \A k \in more : State(m, k) = "PENDING" BY DEF MoreFiles, In
<1>6. \A k \in more : Has(m, k) BY <1>2, <1>5, FileCases DEF FState, SlaveStates
<1>7. /\ \A k \in Names : State(p, k) = StateAfter(m, more, started, k)
      /\ \A k \in Names \ more : Saved(p)[k] = Saved(m)[k]
  BY <1>2, <1>5, <1>6, StartEffect
<1>8. MemoryInv(p) BY <1>2, <1>5, <1>6, StartMemory
<1>9. \A k \in Names : ~IsBegun(State(m0, k)) => m0.notes[k] = <<>>
  <2> SUFFICES ASSUME NEW k \in Names, ~IsBegun(State(m0, k)) PROVE m0.notes[k] = <<>>
    OBVIOUS
  <2>1. DOMAIN m0.notes[k] = {} BY DEF StageOK, TellsOK, Told
  <2>2. m0.notes[k] \in Seq(Note) BY <1>1 DEF Memory
  <2>3. m0.notes[k] # <<>> => 1 \in DOMAIN m0.notes[k]
    <3> DEFINE q == m0.notes[k]
    <3>1. Len(q) \in Nat /\ DOMAIN q = 1 .. Len(q) BY <2>2
    <3>2. Len(q) = 0 => q = <<>> BY <2>2, EmptySeq
    <3> QED BY <3>1, <3>2
  <2> QED BY <2>1, <2>3
<1>10. \A k \in more : ~IsBegun(State(m0, k)) BY <1>3, <1>4, <1>5 DEF IsBegun, ABSENT
<1>11. TellsOK(m)
  <2> SUFFICES ASSUME NEW k \in Names, NEW i \in DOMAIN m.notes[k]
               PROVE  /\ m.notes[k][i].file.st \in Told(State(m, k))
                      /\ i # 1 => m.notes[k][i].file.st # "PROCESSING"
    BY DEF TellsOK
  <2>1. k # n BY <1>2, <1>4, <1>9 DEF IsBegun
  <2> QED BY <1>2, <1>3, <2>1 DEF StageOK, TellsOK
<1>12. /\ TellsOK(p)
       /\ \A k \in Names : Telling(p, k) => Telling(m, k) \/ State(p, k) = "PROCESSING"
  BY <1>2, <1>5, <1>6, <1>9, <1>10, <1>11, StartTells
<1>13. WorkOK(TRUE, p, next, removed) BY AddWork
<1> HIDE DEF p
<1>14. \A k \in Names : /\ State(p, k) \in Stages
                        /\ Advances(State(m0, k), State(p, k))
  BY <1>3, <1>4, <1>5, <1>7 DEF StageOK, Stages, StateAfter, Advances
<1>15. StageOK(TRUE, p, next)
  <2>1. CASE more # {} BY <1>8, <1>12, <1>14, <2>1, SavedStage DEF SavedAfter
  <2>2. CASE more = {}
    <3>1. ASSUME NEW k \in Names, IsBegun(saved[k].file.st) PROVE Saved(p)[k] = saved[k]
      <4>1. Saved(m0)[k] = saved[k] BY <3>1 DEF StageOK
      <4>2. State(m0, k) = saved[k].file.st BY <1>1, <4>1, SavedFacts
      <4>3. k # n BY <1>4, <3>1, <4>2 DEF IsBegun
      <4> QED BY <1>3, <1>7, <2>2, <4>1, <4>3
    <3> QED BY <1>12, <1>14, <2>2, <3>1 DEF StageOK, SavedAfter
  <2> QED BY <2>1, <2>2
<1>16. \A k \in Names : Telling(m, k) <=> Telling(m0, k) BY <1>2 DEF Telling
<1> HIDE DEF next
<1>17. StageMoves(m0, saved, p, next) BY <1>12, <1>13, <1>14, <1>15, <1>16, UpStage
<1> QED BY <1>15, <1>17 DEF p, next

\* A process ends: the file is there and PROCESSING, and goes on.
LEMMA CompletedStage ==
  ASSUME NEW m0, NEW saved, WorkOK(TRUE, m0, saved, {}), StageOK(TRUE, m0, saved),
         NEW n \in Names, m0.procs[n] > 0, NEW report \in {Ready, Error}
  PROVE  LET m == Reaped(m0, n)
             p == ChangeFileStates(m, [x \in {n} |-> report])
         IN  /\ Has(m, n)
             /\ StageOK(TRUE, p, Saved(p)) /\ StageMoves(m0, saved, p, Saved(p))
<1> DEFINE m == Reaped(m0, n)
           reports == [x \in {n} |-> report]
           p == ChangeFileStates(m, reports)
<1>1. MemoryInv(m0) /\ m0 \in Memory BY DEF WorkOK, MemoryInv
<1>2. /\ MemoryInv(m) /\ m \in Memory /\ m.notes = m0.notes
      /\ \A k \in Names : Has(m, k) = Has(m0, k) /\ State(m, k) = State(m0, k)
  BY <1>1, ReapedMemory DEF MemoryInv
<1>3. State(m0, n) = "PROCESSING" BY DEF WorkOK, OneProcess
<1>4. Has(m, n) BY <1>1, <1>2, <1>3, FileCases DEF ABSENT
<1>5. WorkOK(TRUE, p, Saved(p), {}) BY <1>4, CompletedWork
<1>6. reports \in [{n} -> SlaveReports] BY ReportsAreFiles
<1> HIDE DEF m
<1>7. /\ State(p, n) = report.st
      /\ \A k \in Names \ {n} : State(p, k) = State(m0, k)
  <2>1. LET c == ChangeFileStates(m, reports)
        IN  /\ \A k \in {n} : State(c, k) = reports[k].st
            /\ \A k \in Names \ {n} : State(c, k) = State(m, k) /\ Saved(c)[k] = Saved(m)[k]
            /\ \A k \in Names : Has(c, k) <=> Has(m, k)
            /\ c.procs = m.procs
    BY <1>2, <1>4, <1>6, ChangeEffect
  <2> QED BY <1>2, <2>1
<1>8. p.notes = ChangedNotes(m, {n}, reports)
  <2>1. p = [files |-> ChangedFiles(m, {n}, reports), masters |-> m.masters,
             heap |-> ChangedHeap(m, {n}), procs |-> m.procs,
             notes |-> ChangedNotes(m, {n}, reports)]
    BY <1>2, <1>6, ChangeFields
  <2> HIDE DEF p, reports
  <2> QED BY <2>1
<1> HIDE DEF p
<1>9. report.st \in {"SLAVE_READY", "ERROR"} BY DEF Ready, Error
<1>10. \A k \in Names \ {n} : p.notes[k] = m0.notes[k] BY <1>2, <1>8 DEF ChangedNotes
<1> DEFINE q == m0.notes[n]
           note == [file |-> report, res |-> "sent", master |-> m.files[n].master]
<1>11. p.notes[n] = Append(q, note) BY <1>2, <1>8 DEF ChangedNotes
<1>12. /\ Len(q) \in Nat /\ DOMAIN q = 1 .. Len(q) /\ DOMAIN p.notes[n] = 1 .. Len(q) + 1
       /\ \A i \in 1 .. Len(q) : p.notes[n][i] = q[i]
       /\ p.notes[n][Len(q) + 1] = note
  <2>1. q \in Seq(Note) BY <1>1 DEF Memory
  <2> HIDE DEF q, note
  <2> QED BY <1>11, <2>1
<1>13. note.file = report OBVIOUS
<1>14. \A i \in 1 .. Len(q) : q[i].file.st = "PROCESSING" /\ ~(i # 1)
  <2>1. \A i \in DOMAIN q : /\ q[i].file.st \in Told("PROCESSING")
                            /\ i # 1 => q[i].file.st # "PROCESSING"
    BY <1>3 DEF StageOK, TellsOK
  <2> QED BY <1>12, <2>1 DEF Told
<1> HIDE DEF q, note
<1>15. TellsOK(p)
  <2> SUFFICES ASSUME NEW k \in Names, NEW i \in DOMAIN p.notes[k]
               PROVE  /\ p.notes[k][i].file.st \in Told(State(p, k))
                      /\ i # 1 => p.notes[k][i].file.st # "PROCESSING"
    BY DEF TellsOK
  <2>1. CASE k # n BY <1>7, <1>10, <2>1 DEF StageOK, TellsOK
  <2>2. CASE k = n /\ i \in 1 .. Len(q)
    BY <1>7, <1>9, <1>12, <1>14, <2>2 DEF Told, IsBegun, ABSENT
  <2>3. CASE k = n /\ i = Len(q) + 1
    BY <1>7, <1>9, <1>12, <1>13, <2>3 DEF Told, IsBegun, ABSENT
  <2> QED BY <1>12, <2>1, <2>2, <2>3
<1>16. \A k \in Names : Telling(p, k) => Telling(m0, k)
  <2> SUFFICES ASSUME NEW k \in Names, Telling(p, k) PROVE Telling(m0, k) OBVIOUS
  <2>1. CASE k # n BY <1>10, <2>1 DEF Telling
  <2>2. CASE k = n
    <3>1. 1 # Len(q) + 1 BY <1>9, <1>12, <1>13, <2>2 DEF Telling
    <3>2. 1 \in 1 .. Len(q) BY <1>12, <3>1
    <3>3. q # <<>> BY <3>2, <1>12
    <3> QED BY <1>12, <2>2, <3>2, <3>3 DEF Telling, q
  <2> QED BY <2>1, <2>2
<1>17. \A k \in Names : State(p, k) \in Stages /\ Advances(State(m0, k), State(p, k))
  BY <1>3, <1>7, <1>9 DEF StageOK, Stages, Advances
<1>18. MemoryInv(p) BY <1>5 DEF WorkOK
<1>19. StageOK(TRUE, p, Saved(p)) BY <1>15, <1>17, <1>18, SavedStage
<1>20. StageMoves(m0, saved, p, Saved(p)) BY <1>5, <1>16, <1>17, <1>19, UpStage
<1> QED BY <1>4, <1>19, <1>20 DEF m, p

\* A step that changes no file, and tells nothing new.
LEMMA SameStage ==
  ASSUME NEW m, NEW saved, WorkOK(TRUE, m, saved, {}), StageOK(TRUE, m, saved),
         NEW p, WorkOK(TRUE, p, saved, {}), p.files = m.files, Saved(p) = Saved(m), TellsOK(p),
         \A n \in Names : Telling(p, n) => Telling(m, n)
  PROVE  StageOK(TRUE, p, saved) /\ StageMoves(m, saved, p, saved)
<1>1. \A n \in Names : State(p, n) = State(m, n) BY DEF State
<1>2. StageOK(TRUE, p, saved) BY <1>1 DEF StageOK
<1>3. \A n \in Names : Advances(State(m, n), State(p, n)) BY <1>1 DEF Advances
<1>4. StageMoves(m, saved, p, saved) BY <1>2, <1>3, UpStage
<1> QED BY <1>2, <1>4

\* Load(), and what it resumes.
LEMMA StartStage ==
  ASSUME NEW m0, NEW saved, WorkOK(FALSE, m0, saved, {}), StageOK(FALSE, m0, saved),
         NEW a \in [UrisOf(saved) -> Wrappers], NEW pins \in [UrisOf(saved) -> PinGarbage],
         \A u, v \in UrisOf(saved) : a[u] = a[v] => u = v,
         NEW started \in SUBSET Resumed(saved)
  PROVE  LET p == StartProcessing(Loaded(saved, a, pins), Resumed(saved), started)
             next == SavedAfter(saved, Resumed(saved), p)
         IN  StageOK(TRUE, p, next) /\ StageMoves(m0, saved, p, next)
<1> DEFINE m == Loaded(saved, a, pins)
           set == Resumed(saved)
           p == StartProcessing(m, set, started)
           next == SavedAfter(saved, set, p)
<1>1. saved \in SavedFiles BY DEF WorkOK
<1>2. MemoryInv(m) /\ m \in Memory /\ Saved(m) = saved /\ m.notes = Empty.notes
  BY <1>1, LoadedMemory DEF MemoryInv
<1>3. WorkOK(TRUE, p, next, {}) BY StartWork
<1>4. m0 = Empty BY DEF WorkOK
<1> HIDE DEF m
<1>5. \A n \in Names : State(m, n) = saved[n].file.st BY <1>2, SavedFacts
<1>6. /\ set \in SUBSET Names /\ started \in SUBSET set
      /\ \A n \in Names : n \in set <=> State(m, n) = "PROCESSING"
  BY <1>5 DEF Resumed
<1>7. \A n \in set : Has(m, n) /\ m.notes[n] = <<>>
  BY <1>2, <1>6, FileCases DEF FState, SlaveStates, Empty
<1>8. TellsOK(m) /\ \A n \in Names : ~Telling(m, n)
  <2>1. \A n \in Names : m.notes[n] = <<>> BY <1>2 DEF Empty
  <2> QED BY <2>1 DEF TellsOK, Telling
<1> HIDE DEF set
<1>9. /\ \A n \in Names : State(p, n) = StateAfter(m, set, started, n)
      /\ \A n \in Names \ set : Saved(p)[n] = Saved(m)[n]
  <2>1. \A n \in set : Has(m, n) BY <1>7
  <2>2. MemoryInv(m) /\ set \in SUBSET Names /\ started \in SUBSET set BY <1>2, <1>6
  <2> HIDE DEF next
  <2>3. /\ \A n \in Names : State(p, n) = StateAfter(m, set, started, n)
        /\ \A n \in Names \ set : Saved(p)[n] = Saved(m)[n]
        /\ \A n \in Names : Has(p, n) <=> Has(m, n)
        /\ \A n \in Names : p.procs[n] = ProcsAfter(m, started, n)
    BY <2>1, <2>2, StartEffect, Zenon
  <2> QED BY <2>3
<1>10. /\ TellsOK(p)
       /\ \A n \in Names : Telling(p, n) => State(p, n) = "PROCESSING"
  BY <1>2, <1>6, <1>7, <1>8, StartTells
<1>11. MemoryInv(p) BY <1>3 DEF WorkOK
<1> HIDE DEF p
<1>12. \A n \in Names : State(p, n) \in Stages
  BY <1>5, <1>9 DEF StageOK, StateAfter, Stages
<1>13. StageOK(TRUE, p, next)
  <2>1. CASE set # {} BY <1>10, <1>11, <1>12, <2>1, SavedStage DEF SavedAfter
  <2>2. CASE set = {}
    <3>1. next = saved BY <2>2 DEF SavedAfter
    <3>2. \A n \in Names : Saved(p)[n] = saved[n] BY <1>2, <1>9, <2>2
    <3> QED BY <1>10, <1>12, <3>1, <3>2 DEF StageOK
  <2> QED BY <2>1, <2>2
<1>14. \A n \in Names : StageOf(p, next, n) = State(p, n) BY <1>3, <1>13, StageIsState
<1>15. \A n \in Names : Advances(StageOf(m0, saved, n), State(p, n))
  <2> SUFFICES ASSUME NEW n \in Names PROVE Advances(StageOf(m0, saved, n), State(p, n))
    OBVIOUS
  <2>1. StageOf(m0, saved, n) = IF IsBegun(State(m, n)) THEN State(m, n) ELSE ABSENT
    BY <1>4, <1>5, EmptyTells DEF StageOf
  <2>2. State(m, n) \in Stages BY <1>5 DEF StageOK
  <2>3. n \in set => State(p, n) \in {"PROCESSING", "ERROR"} BY <1>9 DEF StateAfter
  <2>4. n \notin set => State(p, n) = State(m, n) BY <1>6, <1>9 DEF StateAfter
  <2>5. CASE n \in set BY <1>6, <2>1, <2>3, <2>5 DEF Advances, IsBegun, ABSENT
  <2>6. CASE n \notin set BY <2>1, <2>2, <2>4, <2>6 DEF Advances, IsBegun, ABSENT, Stages
  <2> QED BY <2>5, <2>6
<1>16. StageMoves(m0, saved, p, next) BY <1>10, <1>14, <1>15 DEF StageMoves
<1> QED BY <1>13, <1>16 DEF p, m, set

\* The end of a call: what is left was told after it.
LEMMA ServedTells ==
  ASSUME NEW m, MemoryInv(m), TellsOK(m), NEW n \in Names, m.notes[n] # <<>>,
         NEW p, p.files = m.files, p.notes[n] = Tail(m.notes[n]),
         \A x \in Names \ {n} : p.notes[x] = m.notes[x]
  PROVE  TellsOK(p) /\ \A x \in Names : Telling(p, x) => Telling(m, x)
<1> DEFINE q == m.notes[n]
           r == p.notes[n]
<1>1. \A x \in Names : State(p, x) = State(m, x) BY DEF State
<1>2. /\ Len(q) \in Nat /\ DOMAIN q = 1 .. Len(q)
      /\ Len(r) = Len(q) - 1 /\ DOMAIN r = 1 .. Len(r)
      /\ \A i \in 1 .. Len(r) : r[i] = q[i + 1]
      /\ r # <<>> => 1 \in DOMAIN r
  <2>1. q \in Seq(Note) /\ q # <<>> BY DEF MemoryInv, Memory
  <2>2. r = Tail(q) OBVIOUS
  <2> HIDE DEF q, r
  <2>3. r \in Seq(Note) BY <2>1, <2>2
  <2>4. r # <<>> => Len(r) # 0 BY <2>3, EmptySeq
  <2> QED BY <2>1, <2>2, <2>3, <2>4
<1>3. \A i \in DOMAIN r : /\ i + 1 \in DOMAIN q /\ i + 1 # 1
                          /\ r[i].file.st \in Told(State(m, n)) /\ r[i].file.st # "PROCESSING"
  <2> SUFFICES ASSUME NEW i \in DOMAIN r
               PROVE  /\ i + 1 \in DOMAIN q /\ i + 1 # 1
                      /\ r[i].file.st \in Told(State(m, n)) /\ r[i].file.st # "PROCESSING"
    OBVIOUS
  <2> HIDE DEF q, r
  <2>1. i + 1 \in DOMAIN q /\ i + 1 # 1 /\ r[i] = q[i + 1] BY <1>2
  <2>2. q[i + 1].file.st \in Told(State(m, n)) /\ q[i + 1].file.st # "PROCESSING"
    BY <2>1 DEF TellsOK, q
  <2> QED BY <2>1, <2>2
<1>4. TellsOK(p)
  <2> SUFFICES ASSUME NEW x \in Names, NEW i \in DOMAIN p.notes[x]
               PROVE  /\ p.notes[x][i].file.st \in Told(State(p, x))
                      /\ i # 1 => p.notes[x][i].file.st # "PROCESSING"
    BY DEF TellsOK
  <2>1. CASE x = n BY <1>1, <1>3, <2>1
  <2>2. CASE x # n BY <1>1, <2>2 DEF TellsOK
  <2> QED BY <2>1, <2>2
<1>5. ASSUME NEW x \in Names, Telling(p, x) PROVE Telling(m, x)
  <2>1. CASE x = n BY <1>2, <1>3, <1>5, <2>1 DEF Telling
  <2>2. CASE x # n BY <1>5, <2>2 DEF Telling
  <2> QED BY <2>1, <2>2
<1> QED BY <1>4, <1>5

\* An answer: what is said stays the same.
LEMMA AnsweredTells ==
  ASSUME NEW m, MemoryInv(m), TellsOK(m), NEW n \in Names, NEW k \in DOMAIN m.notes[n],
         NEW res \in {"ok", "failed"}
  PROVE  LET p == Answered(m, n, k, res)
         IN  TellsOK(p) /\ \A x \in Names : Telling(p, x) => Telling(m, x)
<1> DEFINE p == Answered(m, n, k, res)
           q == m.notes[n]
<1>1. m \in Memory BY DEF MemoryInv
<1>2. p.files = m.files /\ p.notes = [m.notes EXCEPT ![n][k].res = res]
  BY <1>1 DEF Answered, Memory
<1>3. p.notes[n] = [q EXCEPT ![k].res = res] /\ \A x \in Names \ {n} : p.notes[x] = m.notes[x]
  BY <1>1, <1>2 DEF Memory
<1> HIDE DEF p
<1>4. /\ DOMAIN p.notes[n] = DOMAIN q
      /\ \A i \in DOMAIN q : p.notes[n][i].file = q[i].file
      /\ \A i \in DOMAIN q : p.notes[n][i].res = q[i].res \/ p.notes[n][i].res # "sent"
      /\ p.notes[n] # <<>> => q # <<>> /\ 1 \in DOMAIN q
  <2>1. q \in Seq(Note) BY <1>1 DEF Memory
  <2> HIDE DEF q
  <2>2. /\ DOMAIN p.notes[n] = DOMAIN q
        /\ \A i \in DOMAIN q : i # k => p.notes[n][i] = q[i]
        /\ k \in DOMAIN q => p.notes[n][k] = [q[k] EXCEPT !.res = res]
    BY <1>3
  <2>3. \A i \in DOMAIN q : q[i] \in Note BY <2>1
  <2>4. k \in DOMAIN q => p.notes[n][k].file = q[k].file /\ p.notes[n][k].res = res
    BY <2>2, <2>3 DEF Note
  <2>5. q # <<>> /\ 1 \in DOMAIN q
    <3>1. k \in DOMAIN q BY DEF q
    <3>2. Len(q) \in Nat /\ DOMAIN q = 1 .. Len(q) BY <2>1
    <3> QED BY <3>1, <3>2
  <2> QED BY <2>2, <2>4, <2>5
<1>5. \A x \in Names : State(p, x) = State(m, x) BY <1>2 DEF State
<1>6. TellsOK(p)
  <2> SUFFICES ASSUME NEW x \in Names, NEW i \in DOMAIN p.notes[x]
               PROVE  /\ p.notes[x][i].file.st \in Told(State(p, x))
                      /\ i # 1 => p.notes[x][i].file.st # "PROCESSING"
    BY DEF TellsOK
  <2>1. CASE x = n BY <1>4, <1>5, <2>1 DEF TellsOK
  <2>2. CASE x # n BY <1>3, <1>5, <2>2 DEF TellsOK
  <2> QED BY <2>1, <2>2
<1>7. ASSUME NEW x \in Names, Telling(p, x) PROVE Telling(m, x)
  <2>1. CASE x = n BY <1>4, <1>7, <2>1 DEF Telling
  <2>2. CASE x # n BY <1>3, <1>7, <2>2 DEF Telling
  <2> QED BY <2>1, <2>2
<1> QED BY <1>6, <1>7 DEF p

-----------------------------------------------------------------------------
(* The steps of a slave, for its files.                                    *)

\* A slave knows a file from memory or from its disk.
IsPresent(m, saved, n) == Has(m, n) \/ saved[n] # Absent

Keeps(set, m, saved, p, next) ==
  \A n \in Names \ set : IsPresent(p, next, n) => IsPresent(m, saved, n)

\* Slave s goes on, gets to know at most the files of a set, and nothing
\* happens to the others.
GoesOn(s, set) ==
  /\ Keeps(set, mem[s], ssaved[s], mem'[s], ssaved'[s])
  /\ (sremoved[s] = {} /\ sremoved'[s] = {} /\ StageOK(sup[s], mem[s], ssaved[s])) =>
       /\ StageOK(sup'[s], mem'[s], ssaved'[s])
       /\ StageMoves(mem[s], ssaved[s], mem'[s], ssaved'[s])
  /\ \A r \in Slaves \ {s} : /\ sup'[r] = sup[r] /\ mem'[r] = mem[r]
                             /\ ssaved'[r] = ssaved[r] /\ sremoved'[r] = sremoved[r]

\* What a slave becomes decides how it goes on.
LEMMA BecomesGoesOn ==
  ASSUME WorkInv, NEW s \in Slaves, NEW set, NEW up \in BOOLEAN, NEW m, NEW saved, NEW removed,
         Becomes(s, up, m, saved, removed),
         Keeps(set, mem[s], ssaved[s], m, saved),
         (sremoved[s] = {} /\ removed = {} /\ StageOK(sup[s], mem[s], ssaved[s])) =>
            StageOK(up, m, saved) /\ StageMoves(mem[s], ssaved[s], m, saved)
  PROVE  GoesOn(s, set)
<1>1. /\ sup'[s] = up /\ mem'[s] = m /\ ssaved'[s] = saved /\ sremoved'[s] = removed
      /\ \A r \in Slaves \ {s} : /\ sup'[r] = sup[r] /\ mem'[r] = mem[r]
                                 /\ ssaved'[r] = ssaved[r] /\ sremoved'[r] = sremoved[r]
  BY DEF Becomes, WorkInv, TypeOK
<1> QED BY <1>1 DEF GoesOn

\* It is gone, and its disk is as it was or as Stop() writes it.
LEMMA GoneGoesOn ==
  ASSUME WorkInv, NEW s \in Slaves, sup[s], Gone(s), UNCHANGED sremoved,
         NEW next, next = ssaved[s] \/ next = Saved(mem[s]),
         ssaved' = [ssaved EXCEPT ![s] = next]
  PROVE  GoesOn(s, {})
<1>1. WorkOK(TRUE, mem[s], ssaved[s], sremoved[s]) /\ MemoryInv(mem[s])
  BY DEF WorkInv, TypeOK, WorkOK
<1>2. sremoved' = [sremoved EXCEPT ![s] = sremoved[s]] BY DEF WorkInv, TypeOK
<1>3. Becomes(s, FALSE, Empty, next, sremoved[s]) BY <1>2 DEF Becomes, Gone
<1>4. \A n \in Names : ~Has(Empty, n) BY DEF Has, Empty
<1>5. \A n \in Names : Saved(mem[s])[n] # Absent => Has(mem[s], n) BY <1>1, SavedFacts
<1>6. Keeps({}, mem[s], ssaved[s], Empty, next) BY <1>4, <1>5 DEF Keeps, IsPresent
<1>7. StageOK(sup[s], mem[s], ssaved[s]) =>
        StageOK(FALSE, Empty, next) /\ StageMoves(mem[s], ssaved[s], Empty, next)
  <2> SUFFICES ASSUME StageOK(sup[s], mem[s], ssaved[s])
               PROVE  StageOK(FALSE, Empty, next) /\ StageMoves(mem[s], ssaved[s], Empty, next)
    OBVIOUS
  <2>1. StageOK(TRUE, mem[s], ssaved[s]) BY DEF StageOK
  <2> QED BY <1>1, <2>1, GoneStage
<1> QED BY <1>3, <1>6, <1>7, BecomesGoesOn

\* A fault is like a crash.
LEMMA FaultGoesOn ==
  ASSUME WorkInv, NEW s \in Slaves, sup[s], NEW why, Fault(s, why)
  PROVE  GoesOn(s, {})
<1>1. ssaved' = [ssaved EXCEPT ![s] = ssaved[s]] BY DEF Fault, WorkInv, TypeOK
<1>2. Gone(s) /\ UNCHANGED sremoved BY DEF Fault
<1> QED BY <1>1, <1>2, GoneGoesOn

\* A set of new files more is nothing to mind.
LEMMA GoesOnMore ==
  ASSUME NEW s, NEW set, GoesOn(s, {})
  PROVE  GoesOn(s, set)
BY DEF GoesOn, Keeps

\* A handler returns.
LEMMA ReturnGoesOn ==
  ASSUME WorkInv, NEW s \in Slaves, sup[s], NEW set, NEW m, NEW changed \in BOOLEAN,
         Return(s, m, changed),
         NEW next, next = IF changed THEN Saved(m) ELSE ssaved[s],
         Keeps(set, mem[s], ssaved[s], m, next),
         (sremoved[s] = {} /\ StageOK(TRUE, mem[s], ssaved[s])) =>
            StageOK(TRUE, m, next) /\ StageMoves(mem[s], ssaved[s], m, next)
  PROVE  GoesOn(s, set)
<1>1. /\ sup = [sup EXCEPT ![s] = TRUE]
      /\ sremoved = [sremoved EXCEPT ![s] = sremoved[s]]
  BY DEF WorkInv, TypeOK
<1>2. Becomes(s, TRUE, m, next, sremoved[s]) BY <1>1 DEF Return, Becomes
<1>3. StageOK(sup[s], mem[s], ssaved[s]) => StageOK(TRUE, mem[s], ssaved[s]) BY DEF StageOK
<1> QED BY <1>2, <1>3, BecomesGoesOn

\* A handler changes files, and returns.
LEMMA ChangeGoesOn ==
  ASSUME WorkInv, NEW s \in Slaves, sup[s], NEW set, NEW m, NEW touched,
         ChangeAndReturn(s, m, touched),
         NEW next, next = SavedAfter(ssaved[s], touched, m),
         Keeps(set, mem[s], ssaved[s], m, next),
         (sremoved[s] = {} /\ StageOK(TRUE, mem[s], ssaved[s])) =>
            StageOK(TRUE, m, next) /\ StageMoves(mem[s], ssaved[s], m, next)
  PROVE  GoesOn(s, set)
<1>1. CASE Return(s, m, touched # {}) BY <1>1, ReturnGoesOn DEF SavedAfter
<1>2. CASE Fault(s, "use after free") BY <1>2, FaultGoesOn, GoesOnMore
<1> QED BY <1>1, <1>2 DEF ChangeAndReturn

\* What a memory after Save() knows is what is in it.
LEMMA SavedKeeps ==
  ASSUME NEW set, NEW m, NEW saved, NEW p, MemoryInv(p), NEW next, next = saved \/ next = Saved(p),
         \A n \in Names \ set : Has(p, n) => Has(m, n)
  PROVE  Keeps(set, m, saved, p, next)
<1>1. \A n \in Names : Saved(p)[n] # Absent => Has(p, n) BY SavedFacts
<1> QED BY <1>1 DEF Keeps, IsPresent

\* AddFile makes known the file it adds.
LEMMA AddKeeps ==
  ASSUME NEW m0, MemoryInv(m0), NEW saved,
         NEW n \in Names, ~Has(m0, n), NEW u \in Uris, NEW m \in AfterAddFile(m0, n, u),
         NEW more \in MoreFiles(m), NEW started \in SUBSET more
  PROVE  LET p == StartProcessing(m, more, started)
         IN  Keeps({n}, m0, saved, p, SavedAfter(saved, more, p))
<1> DEFINE p == StartProcessing(m, more, started)
           next == SavedAfter(saved, more, p)
<1>1. m0 \in Memory /\ MemoryInv(m) /\ m \in Memory BY AddedMemory DEF MemoryInv
<1>2. more \in SUBSET Names /\ \A k \in more : State(m, k) = "PENDING" BY DEF MoreFiles, In
<1>3. \A k \in more : Has(m, k) BY <1>1, <1>2, FileCases DEF FState, SlaveStates
<1>4. MemoryInv(p) BY <1>1, <1>2, <1>3, StartMemory
<1>5. \A k \in Names : Has(p, k) <=> Has(m, k) BY <1>1, <1>2, <1>3, StartEffect
<1>6. \A k \in Names \ {n} : State(m, k) = State(m0, k) BY AddedEffect
<1> HIDE DEF p
<1>7. \A k \in Names \ {n} : Has(p, k) => Has(m0, k) BY <1>1, <1>5, <1>6, FileCases
<1>8. next = saved \/ next = Saved(p) BY DEF SavedAfter
<1> HIDE DEF next
<1>9. Keeps({n}, m0, saved, p, next) BY <1>4, <1>7, <1>8, SavedKeeps
<1> QED BY <1>9 DEF p, next

\* An RPC of a master adds a file.
LEMMA AddGoesOn ==
  ASSUME WorkInv, NEW s \in Slaves, NEW n \in Names, NEW u \in Uris, RpcAddFile(s, n, u)
  PROVE  GoesOn(s, {n})
<1>1. sup[s] /\ ~Has(mem[s], n) BY DEF RpcAddFile
<1>2. PICK m \in AfterAddFile(mem[s], n, u) : \E more \in MoreFiles(m) : \E started \in SUBSET more :
        ChangeAndReturn(s, StartProcessing(m, more, started), more)
  BY DEF RpcAddFile
<1>3. PICK more \in MoreFiles(m) : \E started \in SUBSET more :
        ChangeAndReturn(s, StartProcessing(m, more, started), more)
  BY <1>2
<1>4. PICK started \in SUBSET more : ChangeAndReturn(s, StartProcessing(m, more, started), more)
  BY <1>3
<1>5. WorkOK(TRUE, mem[s], ssaved[s], sremoved[s]) /\ MemoryInv(mem[s])
  BY <1>1 DEF WorkInv, TypeOK, WorkOK
<1> DEFINE p == StartProcessing(m, more, started)
           next == SavedAfter(ssaved[s], more, p)
<1>6. Keeps({n}, mem[s], ssaved[s], p, next) BY <1>1, <1>5, AddKeeps
<1>7. StageOK(TRUE, mem[s], ssaved[s]) =>
        StageOK(TRUE, p, next) /\ StageMoves(mem[s], ssaved[s], p, next)
  BY <1>1, <1>5, AddStage
<1>8. ChangeAndReturn(s, p, more) BY <1>4
<1> HIDE DEF p
<1> QED BY <1>1, <1>6, <1>7, <1>8, ChangeGoesOn

\* A user deletes a file.
LEMMA DelGoesOn ==
  ASSUME WorkInv, NEW s \in Slaves, NEW n \in Names, RpcDelFile(s, n)
  PROVE  GoesOn(s, {})
<1> DEFINE p == [mem[s] EXCEPT !.files[n] = Absent]
           removed == sremoved[s] \cup {n}
<1>1. /\ sup \in [Slaves -> BOOLEAN] /\ mem \in [Slaves -> Memory]
      /\ ssaved \in [Slaves -> SavedFiles] /\ sremoved \in [Slaves -> SUBSET Names]
  BY DEF WorkInv, TypeOK, SavedFiles
<1>2. sup[s] /\ UNCHANGED <<sup, ssaved>> BY DEF RpcDelFile
<1>3. mem' = [mem EXCEPT ![s] = p] BY <1>1 DEF RpcDelFile
<1>4. sremoved' = [sremoved EXCEPT ![s] = removed] BY <1>1 DEF RpcDelFile
<1>5. \A k \in Names : Has(p, k) => Has(mem[s], k) BY <1>1 DEF Has, Memory
<1>6. Keeps({}, mem[s], ssaved[s], p, ssaved[s]) BY <1>5 DEF Keeps, IsPresent
<1>7. removed # {} OBVIOUS
<1> HIDE DEF p, removed
<1>8. Becomes(s, TRUE, p, ssaved[s], removed) BY <1>1, <1>2, <1>3, <1>4 DEF Becomes
<1> QED BY <1>6, <1>7, <1>8, BecomesGoesOn

\* A transcoding process exits.
LEMMA CompletedGoesOn ==
  ASSUME WorkInv, NEW s \in Slaves, NEW n \in Names, NEW report \in {Ready, Error},
         ProcessingCompleted(s, n, report)
  PROVE  GoesOn(s, {})
<1> DEFINE m == Reaped(mem[s], n)
           p == ChangeFileStates(m, [x \in {n} |-> report])
<1>1. sup[s] /\ mem[s].procs[n] > 0 BY DEF ProcessingCompleted
<1>2. WorkOK(TRUE, mem[s], ssaved[s], sremoved[s]) /\ MemoryInv(mem[s])
  BY <1>1 DEF WorkInv, TypeOK, WorkOK
<1>3. (sremoved[s] = {} /\ StageOK(TRUE, mem[s], ssaved[s])) =>
        Has(m, n) /\ StageOK(TRUE, p, Saved(p)) /\ StageMoves(mem[s], ssaved[s], p, Saved(p))
  BY <1>1, <1>2, CompletedStage
<1>4. MemoryInv(m) /\ \A k \in Names : Has(m, k) = Has(mem[s], k)
  BY <1>1, <1>2, ReapedMemory
<1>5. CASE Has(m, n)
  <2>1. ChangeAndReturn(s, p, {n}) BY <1>5 DEF ProcessingCompleted
  <2>2. [x \in {n} |-> report] \in [{n} -> SlaveReports] BY ReportsAreFiles
  <2>3. MemoryInv(p) BY <1>4, <1>5, <2>2, ChangeMemory
  <2>4. \A k \in Names : Has(p, k) => Has(m, k) BY <1>4, <1>5, <2>2, ChangeEffect
  <2> HIDE DEF p, m
  <2>5. SavedAfter(ssaved[s], {n}, p) = Saved(p) BY DEF SavedAfter
  <2>6. Keeps({}, mem[s], ssaved[s], p, Saved(p)) BY <1>4, <2>3, <2>4, SavedKeeps
  <2> QED BY <1>1, <1>3, <2>1, <2>5, <2>6, ChangeGoesOn
<1>6. CASE ~Has(m, n)
  <2>1. Return(s, m, FALSE) BY <1>6 DEF ProcessingCompleted
  <2>2. ~(sremoved[s] = {} /\ StageOK(TRUE, mem[s], ssaved[s])) BY <1>3, <1>6
  <2> HIDE DEF m
  <2>3. Keeps({}, mem[s], ssaved[s], m, ssaved[s]) BY <1>4 DEF Keeps, IsPresent
  <2> QED BY <1>1, <2>1, <2>2, <2>3, ReturnGoesOn
<1> QED BY <1>5, <1>6

\* Files with the same wrappers are saved alike.
LEMMA SameSaved ==
  ASSUME NEW m, MemoryInv(m), NEW p, p.files = m.files,
         \A w \in Wrappers : InUse(m, w) => p.heap[w].key = m.heap[w].key
  PROVE  Saved(p) = Saved(m)
<1>1. ASSUME NEW n \in Names PROVE Saved(p)[n] = Saved(m)[n]
  <2>1. Has(m, n) => p.heap[m.files[n].master].key = m.heap[m.files[n].master].key
    BY DEF MemoryInv, InUse
  <2> QED BY <2>1, SavedSame
<1>2. Saved(p) = [n \in Names |-> Saved(p)[n]] /\ Saved(m) = [n \in Names |-> Saved(m)[n]]
  BY DEF Saved
<1> QED BY <1>1, <1>2

\* The same calls tell the same.
LEMMA SameTells ==
  ASSUME NEW m, NEW p, p.files = m.files, p.notes = m.notes
  PROVE  /\ TellsOK(p) <=> TellsOK(m)
         /\ \A x \in Names : Telling(p, x) <=> Telling(m, x)
<1>1. \A n \in Names : State(p, n) = State(m, n) BY DEF State
<1> QED BY <1>1 DEF TellsOK, Telling

\* The end of a call changes no file and tells nothing new, whether it deletes
\* the wrapper or not.
LEMMA ServedSame ==
  ASSUME NEW m, MemoryInv(m), NEW n \in Names, m.notes[n] # <<>>,
         NEW w, w = Head(m.notes[n]).master, m.heap[w].mem = "live", m.heap[w].pins > 0,
         NEW key \in Keys
  PROVE  LET p == Served(m, n, w)
             d == Deleted(p, key, w)
         IN  /\ p.files = m.files /\ d.files = m.files
             /\ Saved(p) = Saved(m) /\ Saved(d) = Saved(m)
             /\ TellsOK(m) => /\ TellsOK(p) /\ TellsOK(d)
                              /\ \A x \in Names : Telling(p, x) => Telling(m, x)
                              /\ \A x \in Names : Telling(d, x) => Telling(m, x)
<1> DEFINE p == Served(m, n, w)
           d == Deleted(p, key, w)
<1>1. /\ MemoryInv(p) /\ InUse(m, w) /\ p.files = m.files
      /\ p.notes[n] = Tail(m.notes[n])
      /\ \A x \in Names \ {n} : p.notes[x] = m.notes[x]
      /\ p.heap[w] = Unpin(m.heap[w]) /\ Unpin(m.heap[w]).key = m.heap[w].key
      /\ Unpin(m.heap[w]) \in Object
      /\ \A v \in Wrappers \ {w} : p.heap[v] = m.heap[v]
  BY ServedMemory
<1> HIDE DEF p
<1>2. InUse(p, w)
  <2>1. \A o \in Object : o # Unused BY DEF Object, Unused
  <2> QED BY <1>1, <2>1 DEF InUse
<1>3. /\ d.files = p.files /\ d.notes = p.notes
      /\ \A v \in Wrappers \ {w} : d.heap[v] = p.heap[v]
      /\ d.heap[w].key = p.heap[w].key
  <2>1. MemoryInv(p) BY <1>1
  <2> QED BY <1>2, <2>1, DeletedMemory
<1> HIDE DEF d
<1>4. \A v \in Wrappers : InUse(m, v) => p.heap[v].key = m.heap[v].key BY <1>1
<1>5. \A v \in Wrappers : InUse(m, v) => d.heap[v].key = m.heap[v].key BY <1>1, <1>3, <1>4
<1>6. Saved(p) = Saved(m) /\ Saved(d) = Saved(m)
  <2>1. p.files = m.files /\ d.files = m.files BY <1>1, <1>3
  <2> QED BY <1>4, <1>5, <2>1, SameSaved
<1>7. TellsOK(m) => TellsOK(p) /\ \A x \in Names : Telling(p, x) => Telling(m, x)
  BY <1>1, ServedTells
<1>8. /\ TellsOK(d) <=> TellsOK(p)
      /\ \A x \in Names : Telling(d, x) <=> Telling(p, x)
  BY <1>3, SameTells
<1> QED BY <1>1, <1>3, <1>6, <1>7, <1>8 DEF p, d

\* The first call of a file without an answer.
LEMMA FirstNote ==
  ASSUME WorkInv, NEW s \in Slaves, NEW n \in Names, Unanswered(s, n) # {}
  PROVE  sup[s] /\ FirstUnanswered(s, n) \in Unanswered(s, n)
         /\ FirstUnanswered(s, n) \in DOMAIN mem[s].notes[n]
<1>1. WorkOK(sup[s], mem[s], ssaved[s], sremoved[s]) /\ mem[s].notes[n] \in Seq(Note)
  BY DEF WorkInv, TypeOK, Memory
<1>2. Unanswered(s, n) \subseteq DOMAIN mem[s].notes[n] BY DEF Unanswered
<1>3. Unanswered(s, n) \in SUBSET Nat BY <1>1, <1>2
<1>4. \E i \in Unanswered(s, n) : \A j \in Unanswered(s, n) : i <= j BY <1>3, Smallest
<1>5. FirstUnanswered(s, n) \in Unanswered(s, n) BY <1>4 DEF FirstUnanswered
<1>6. sup[s]
  <2> SUFFICES ASSUME ~sup[s] PROVE FALSE OBVIOUS
  <2>1. mem[s] = Empty BY <1>1 DEF WorkOK
  <2>2. mem[s].notes[n] = <<>> BY <2>1 DEF Empty
  <2> QED BY <1>2, <2>2
<1> QED BY <1>2, <1>5, <1>6

\* It is one of those a slave makes.
LEMMA NextReport ==
  ASSUME WorkInv, NEW s \in Slaves, NEW n \in Names, Unanswered(s, n) # {}
  PROVE  NextNote(s, n).file \in SlaveReports
<1>1. FirstUnanswered(s, n) \in DOMAIN mem[s].notes[n] BY FirstNote
<1>2. mem[s].notes[n] \in Seq(Note) BY DEF WorkInv, TypeOK, Memory
<1>3. mem[s].notes[n][FirstUnanswered(s, n)] \in Note BY <1>1, <1>2
<1> QED BY <1>3 DEF NextNote, Note

\* A step that changes no file of memory and tells nothing new.
LEMMA SameGoesOn ==
  ASSUME WorkInv, NEW s \in Slaves, sup[s], NEW p, WorkOK(TRUE, p, ssaved[s], sremoved[s]),
         p.files = mem[s].files, Saved(p) = Saved(mem[s]),
         TellsOK(mem[s]) =>
           TellsOK(p) /\ \A x \in Names : Telling(p, x) => Telling(mem[s], x),
         Return(s, p, FALSE)
  PROVE  GoesOn(s, {})
<1>1. WorkOK(TRUE, mem[s], ssaved[s], sremoved[s]) BY DEF WorkInv, TypeOK
<1>2. (sremoved[s] = {} /\ StageOK(TRUE, mem[s], ssaved[s])) =>
        StageOK(TRUE, p, ssaved[s]) /\ StageMoves(mem[s], ssaved[s], p, ssaved[s])
  <2> SUFFICES ASSUME sremoved[s] = {}, StageOK(TRUE, mem[s], ssaved[s])
               PROVE  StageOK(TRUE, p, ssaved[s]) /\ StageMoves(mem[s], ssaved[s], p, ssaved[s])
    OBVIOUS
  <2>1. /\ WorkOK(TRUE, mem[s], ssaved[s], {}) /\ WorkOK(TRUE, p, ssaved[s], {})
        /\ TellsOK(mem[s])
    BY <1>1 DEF StageOK
  <2> QED BY <2>1, SameStage
<1>3. Keeps({}, mem[s], ssaved[s], p, ssaved[s]) BY DEF Keeps, IsPresent, Has
<1> QED BY <1>2, <1>3, ReturnGoesOn

\* The result of a notification arrives.
LEMMA HandleGoesOn ==
  ASSUME WorkInv, NEW s \in Slaves, NEW n \in Names, HandleNotifyStateChangeResult(s, n)
  PROVE  GoesOn(s, {})
<1> DEFINE w == Head(mem[s].notes[n]).master
           object == mem[s].heap[w]
           key == LoadKey(object.key[1])
           p == Served(mem[s], n, w)
           d == Deleted(p, key, w)
<1>1. sup[s] /\ mem[s].notes[n] # <<>> BY DEF HandleNotifyStateChangeResult
<1>2. WorkOK(TRUE, mem[s], ssaved[s], sremoved[s]) /\ MemoryInv(mem[s])
  BY <1>1 DEF WorkInv, TypeOK, WorkOK
<1>3. key \in Keys /\ object.pins \in Nat BY <1>1, <1>2, HeadInUse
<1>4. \/ \E why \in {"use after free", "unpin below 1", "erased master not found"} : Fault(s, why)
      \/ /\ object.mem = "live" /\ object.pins > 0
         /\ Return(s, p, FALSE) \/ Return(s, d, FALSE)
  <2>1. \/ Fault(s, "use after free")
        \/ Fault(s, "unpin below 1")
        \/ object.mem = "live" /\ object.pins > 1 /\ Return(s, p, FALSE)
        \/ Fault(s, "erased master not found")
        \/ object.mem = "live" /\ object.pins = 1 /\ Return(s, d, FALSE)
    BY HandleCases, Zenon
  <2> HIDE DEF d, p, key, object, w
  <2>2. object.pins > 1 \/ object.pins = 1 => object.pins > 0 BY <1>3
  <2>3. CASE Fault(s, "use after free") \/ Fault(s, "unpin below 1")
             \/ Fault(s, "erased master not found")
    BY <2>3
  <2> QED BY <2>1, <2>2, <2>3, Zenon
<1>5. CASE \E why \in {"use after free", "unpin below 1", "erased master not found"} : Fault(s, why)
  BY <1>1, <1>5, FaultGoesOn
<1>6. CASE /\ object.mem = "live" /\ object.pins > 0
           /\ Return(s, p, FALSE) \/ Return(s, d, FALSE)
  <2>1. WorkOK(TRUE, p, ssaved[s], sremoved[s]) /\ WorkOK(TRUE, d, ssaved[s], sremoved[s])
    BY <1>1, <1>2, <1>3, <1>6, ServedWork
  <2>2. /\ p.files = mem[s].files /\ d.files = mem[s].files
        /\ Saved(p) = Saved(mem[s]) /\ Saved(d) = Saved(mem[s])
        /\ TellsOK(mem[s]) => /\ TellsOK(p) /\ TellsOK(d)
                              /\ \A x \in Names : Telling(p, x) => Telling(mem[s], x)
                              /\ \A x \in Names : Telling(d, x) => Telling(mem[s], x)
    <3>1. mem[s].notes[n] # <<>> BY <1>1
    <3>2. MemoryInv(mem[s]) BY <1>2
    <3>3. mem[s].heap[w].mem = "live" /\ mem[s].heap[w].pins > 0 BY <1>6
    <3>4. key \in Keys BY <1>3
    <3> HIDE DEF key
    <3> QED BY <3>1, <3>2, <3>3, <3>4, ServedSame
  <2> HIDE DEF d, p, key
  <2>10. CASE Return(s, p, FALSE) BY <1>1, <2>1, <2>2, <2>10, SameGoesOn
  <2>11. CASE Return(s, d, FALSE) BY <1>1, <2>1, <2>2, <2>11, SameGoesOn
  <2> QED BY <1>6, <2>10, <2>11
<1> QED BY <1>4, <1>5, <1>6

\* A notification is answered.
LEMMA AnswerGoesOn ==
  ASSUME WorkInv, NEW s \in Slaves, NEW n \in Names, NEW res \in {"ok", "failed"},
         AnswerNote(s, n, res)
  PROVE  GoesOn(s, {})
<1> DEFINE k == FirstUnanswered(s, n)
           p == Answered(mem[s], n, k, res)
<1>1. mem \in [Slaves -> Memory] /\ WorkOK(sup[s], mem[s], ssaved[s], sremoved[s])
      /\ MemoryInv(mem[s])
  BY DEF WorkInv, TypeOK, WorkOK
<1>2. k \in DOMAIN mem[s].notes[n] /\ sup[s] BY FirstNote DEF AnswerNote
<1>3. mem' = [mem EXCEPT ![s] = p] BY <1>1 DEF AnswerNote, Answered
<1>4. UNCHANGED <<sup, ssaved, sremoved, faults, sstarts>> BY DEF AnswerNote
<1>5. ssaved' = [ssaved EXCEPT ![s] = IF FALSE THEN Saved(p) ELSE @]
  BY <1>4 DEF WorkInv, TypeOK
<1> HIDE DEF k
<1>6. /\ MemoryInv(p) /\ p.files = mem[s].files /\ p.procs = mem[s].procs
      /\ p.heap = mem[s].heap
  BY <1>1, <1>2, AnsweredMemory
<1>7. TellsOK(mem[s]) => TellsOK(p) /\ \A x \in Names : Telling(p, x) => Telling(mem[s], x)
  BY <1>1, <1>2, AnsweredTells
<1> HIDE DEF p
<1>8. WorkOK(TRUE, p, ssaved[s], sremoved[s])
  <2>1. WorkOK(TRUE, mem[s], ssaved[s], sremoved[s]) BY <1>1, <1>2
  <2> QED BY <1>6, <2>1, SameWork
<1>9. Saved(p) = Saved(mem[s]) BY <1>6 DEF Saved, Has, WrapperOf
<1>10. Return(s, p, FALSE) BY <1>3, <1>4, <1>5 DEF Return
<1> QED BY <1>2, <1>6, <1>7, <1>8, <1>9, <1>10, SameGoesOn

\* The slave is started, and processes again what it was processing.
LEMMA StartGoesOn ==
  ASSUME WorkInv, NEW s \in Slaves, Start(s)
  PROVE  GoesOn(s, {})
<1> DEFINE saved == ssaved[s]
           uris == UrisOf(saved)
           set == Resumed(saved)
<1>1. /\ sup \in [Slaves -> BOOLEAN] /\ mem \in [Slaves -> Memory]
      /\ ssaved \in [Slaves -> SavedFiles] /\ sremoved \in [Slaves -> SUBSET Names]
  BY DEF WorkInv, TypeOK, SavedFiles
<1>2. ~sup[s] /\ sup' = [sup EXCEPT ![s] = TRUE] /\ UNCHANGED sremoved BY DEF Start
<1>3. PICK a \in [uris -> Wrappers], pins \in [uris -> PinGarbage] :
        /\ \A u, v \in uris : a[u] = a[v] => u = v
        /\ \E started \in SUBSET Resumed(saved) :
             LET m == StartProcessing(Loaded(saved, a, pins), Resumed(saved), started)
             IN  /\ mem' = [mem EXCEPT ![s] = m]
                 /\ ssaved' = [ssaved EXCEPT ![s] = IF Resumed(saved) = {} THEN @ ELSE Saved(m)]
  BY DEF Start
<1>4. PICK started \in SUBSET Resumed(saved) :
        LET m == StartProcessing(Loaded(saved, a, pins), Resumed(saved), started)
        IN  /\ mem' = [mem EXCEPT ![s] = m]
            /\ ssaved' = [ssaved EXCEPT ![s] = IF Resumed(saved) = {} THEN @ ELSE Saved(m)]
  BY <1>3
<1> DEFINE m == Loaded(saved, a, pins)
           p == StartProcessing(m, set, started)
           next == SavedAfter(saved, set, p)
<1>5. WorkOK(sup[s], mem[s], saved, sremoved[s]) /\ saved \in SavedFiles
  BY <1>1 DEF WorkInv, WorkOK
<1>6. (sremoved[s] = {} /\ StageOK(sup[s], mem[s], saved)) =>
        StageOK(TRUE, p, next) /\ StageMoves(mem[s], saved, p, next)
  <2> SUFFICES ASSUME sremoved[s] = {}, StageOK(sup[s], mem[s], saved)
               PROVE  StageOK(TRUE, p, next) /\ StageMoves(mem[s], saved, p, next)
    OBVIOUS
  <2>1. WorkOK(FALSE, mem[s], saved, {}) /\ StageOK(FALSE, mem[s], saved)
    <3>1. sup[s] = FALSE BY <1>1, <1>2
    <3> QED BY <1>5, <3>1
  <2> HIDE DEF p, next, set, m
  <2>2. LET q == StartProcessing(Loaded(saved, a, pins), Resumed(saved), started)
            after == SavedAfter(saved, Resumed(saved), q)
        IN  StageOK(TRUE, q, after) /\ StageMoves(mem[s], saved, q, after)
    BY <1>3, <2>1, StartStage
  <2> QED BY <2>2 DEF p, next, set, m
<1>7. mem' = [mem EXCEPT ![s] = p] BY <1>4
<1>8. ssaved' = [ssaved EXCEPT ![s] = next] BY <1>1, <1>4 DEF SavedAfter
<1>9. Keeps({}, mem[s], saved, p, next)
  <2>1. MemoryInv(m) /\ m \in Memory /\ Saved(m) = saved BY <1>3, <1>5, LoadedMemory DEF MemoryInv
  <2>2. \A n \in set : Has(m, n)
    <3>1. \A n \in Names : State(m, n) = saved[n].file.st BY <2>1, SavedFacts
    <3> HIDE DEF m
    <3> QED BY <2>1, <3>1, FileCases DEF Resumed, ABSENT
  <2>3. set \in SUBSET Names BY DEF Resumed
  <2>8. started \in SUBSET set OBVIOUS
  <2> HIDE DEF m
  <2>4. MemoryInv(p) BY <2>1, <2>2, <2>3, StartMemory
  <2>5. \A n \in Names : Has(p, n) <=> Has(m, n)
    <3> HIDE DEF next, set
    <3>1. /\ \A n \in Names : State(p, n) = StateAfter(m, set, started, n)
          /\ \A n \in Names \ set : Saved(p)[n] = Saved(m)[n]
          /\ \A n \in Names : Has(p, n) <=> Has(m, n)
          /\ \A n \in Names : p.procs[n] = ProcsAfter(m, started, n)
      BY <2>1, <2>2, <2>3, <2>8, StartEffect, Zenon DEF p
    <3> QED BY <3>1
  <2>6. \A n \in Names : Has(m, n) <=> saved[n] # Absent BY <2>1, SavedFacts
  <2> HIDE DEF p
  <2>7. \A n \in Names : Saved(p)[n] # Absent => Has(p, n) BY <2>4, SavedFacts
  <2> QED BY <2>5, <2>6, <2>7 DEF Keeps, IsPresent, SavedAfter
<1> HIDE DEF p, next
<1>10. sremoved' = [sremoved EXCEPT ![s] = sremoved[s]] BY <1>1, <1>2
<1>11. Becomes(s, TRUE, p, next, sremoved[s]) BY <1>2, <1>7, <1>8, <1>10 DEF Becomes
<1> QED BY <1>6, <1>9, <1>11, BecomesGoesOn

\* The slave is stopped, and writes its list.
LEMMA StopGoesOn ==
  ASSUME WorkInv, NEW s \in Slaves, Stop(s)
  PROVE  GoesOn(s, {})
<1>1. CASE /\ Gone(s) /\ ssaved' = [ssaved EXCEPT ![s] = Saved(mem[s])]
           /\ UNCHANGED <<sremoved, faults, sstarts>>
  BY <1>1, GoneGoesOn DEF Stop
<1>2. CASE Fault(s, "use after free") BY <1>2, FaultGoesOn DEF Stop
<1> QED BY <1>1, <1>2 DEF Stop

\* The slave crashes.
LEMMA CrashGoesOn ==
  ASSUME WorkInv, NEW s \in Slaves, Crash(s)
  PROVE  GoesOn(s, {})
<1>1. ssaved' = [ssaved EXCEPT ![s] = ssaved[s]] BY DEF Crash, WorkInv, TypeOK
<1> QED BY <1>1, GoneGoesOn DEF Crash

\* A slave does something that no master asks for.
LEMMA IdleGoesOn ==
  ASSUME WorkInv, NEW s \in Slaves,
         CallbackStep(s) \/ ProcessStep(s) \/ \E n \in Names : RpcDelFile(s, n)
  PROVE  GoesOn(s, {})
<1>1. CASE CallbackStep(s) BY <1>1, CompletedGoesOn, HandleGoesOn DEF CallbackStep
<1>2. CASE ProcessStep(s) BY <1>2, StartGoesOn, StopGoesOn, CrashGoesOn DEF ProcessStep
<1>3. CASE \E n \in Names : RpcDelFile(s, n) BY <1>3, DelGoesOn
<1> QED BY <1>1, <1>2, <1>3

\* What the next notification of a file says: what happened to it, and, if it
\* is not that the file is PROCESSING, then that has been told.
LEMMA NextNews ==
  ASSUME WorkInv, NEW s \in Slaves, NEW n \in Names, Unanswered(s, n) # {},
         StageOK(sup[s], mem[s], ssaved[s])
  PROVE  /\ NextNote(s, n).file \in SlaveReports
         /\ NextNote(s, n).file.st \in Told(StageOf(mem[s], ssaved[s], n))
         /\ NextNote(s, n).file.st = "PROCESSING" => Telling(mem[s], n)
         /\ NextNote(s, n).file.st # "PROCESSING" => ~Telling(mem[s], n)
<1> DEFINE k == FirstUnanswered(s, n)
           calls == mem[s].notes[n]
<1>1. sup[s] /\ k \in Unanswered(s, n) /\ k \in DOMAIN calls BY FirstNote
<1>2. WorkOK(TRUE, mem[s], ssaved[s], sremoved[s]) /\ MemoryInv(mem[s])
  BY <1>1 DEF WorkInv, TypeOK, WorkOK
<1>3. StageOK(TRUE, mem[s], ssaved[s]) /\ TellsOK(mem[s]) BY <1>1 DEF StageOK
<1>4. StageOf(mem[s], ssaved[s], n) = State(mem[s], n) BY <1>2, <1>3, StageIsState
<1>5. calls \in Seq(Note) BY <1>2 DEF MemoryInv, Memory
<1>6. calls[k] \in Note BY <1>1, <1>5
<1>7. /\ calls[k].file.st \in Told(State(mem[s], n))
      /\ k # 1 => calls[k].file.st # "PROCESSING"
  BY <1>1, <1>3 DEF TellsOK
<1>8. NextNote(s, n) = calls[k] BY DEF NextNote
<1>9. calls # <<>> BY <1>1
<1>10. calls[k].file.st = "PROCESSING" => Telling(mem[s], n)
  BY <1>1, <1>7, <1>9 DEF Unanswered, Telling
<1>11. calls[k].file.st # "PROCESSING" => ~Telling(mem[s], n)
  <2> SUFFICES ASSUME Telling(mem[s], n) PROVE calls[k].file.st = "PROCESSING"
    OBVIOUS
  <2>1. 1 \in DOMAIN calls BY <1>5, <1>9
  <2>2. calls[1].res = "sent" /\ calls[1].file.st = "PROCESSING" BY DEF Telling
  <2>3. 1 \in Unanswered(s, n) BY <2>1, <2>2 DEF Unanswered
  <2>4. Unanswered(s, n) \in SUBSET Nat BY <1>5 DEF Unanswered
  <2>5. \E i \in Unanswered(s, n) : \A j \in Unanswered(s, n) : i <= j BY <2>3, <2>4, Smallest
  <2>6. \A j \in Unanswered(s, n) : k <= j BY <2>5 DEF FirstUnanswered
  <2>7. k <= 1 BY <2>3, <2>6
  <2>8. k = 1 BY <1>1, <1>5, <2>7
  <2> QED BY <2>2, <2>8
<1> QED BY <1>4, <1>6, <1>7, <1>8, <1>10, <1>11 DEF Note

\* An answer leaves every file where it is.
LEMMA AnswerStages ==
  ASSUME WorkInv, NEW s \in Slaves, NEW n \in Names, NEW res \in {"ok", "failed"},
         AnswerNote(s, n, res)
  PROVE  \A t \in Slaves, x \in Names :
           StageOf(mem'[t], ssaved'[t], x) = StageOf(mem[t], ssaved[t], x)
<1> DEFINE k == FirstUnanswered(s, n)
           p == Answered(mem[s], n, k, res)
<1>1. mem \in [Slaves -> Memory] /\ MemoryInv(mem[s])
  BY DEF WorkInv, TypeOK, WorkOK
<1>2. k \in DOMAIN mem[s].notes[n] BY FirstNote DEF AnswerNote
<1>3. mem' = [mem EXCEPT ![s] = p] BY <1>1 DEF AnswerNote, Answered
<1> HIDE DEF k
<1>4. p.files = mem[s].files BY <1>1, <1>2, AnsweredMemory
<1> HIDE DEF p
<1>5. \A t \in Slaves : mem'[t].files = mem[t].files BY <1>1, <1>3, <1>4
<1>6. ssaved' = ssaved BY DEF AnswerNote
<1> QED BY <1>5, <1>6 DEF StageOf, State

\* While nobody deletes files, none has been deleted.
LEMMA NothingRemoved ==
  ASSUME MaxDeleted = 0, WorkInv, [Next]_svars, \A s \in Slaves : sremoved[s] = {}
  PROVE  \A s \in Slaves : sremoved'[s] = {}
<1>1. ASSUME NEW s \in Slaves, NEW n \in Names, RpcDelFile(s, n) PROVE FALSE
  <2>1. Cardinality(sremoved[s] \cup {n}) <= 0 BY <1>1 DEF RpcDelFile
  <2>2. sremoved[s] \cup {n} = {n} OBVIOUS
  <2>3. Cardinality({n}) = 1 BY FS_Singleton
  <2> QED BY <2>1, <2>2, <2>3
<1>2. ASSUME NEW s \in Slaves, NEW m, NEW set, ChangeAndReturn(s, m, set) PROVE UNCHANGED sremoved
  BY <1>2 DEF ChangeAndReturn, Return, Fault
<1>3. UNCHANGED sremoved
  <2>1. ASSUME NEW s \in Slaves, RpcStep(s) PROVE UNCHANGED sremoved
    BY <1>1, <1>2, <2>1 DEF RpcStep, RpcAddFile
  <2>2. ASSUME NEW s \in Slaves, CallbackStep(s) PROVE UNCHANGED sremoved
    <3>1. ASSUME NEW n \in Names, NEW report, ProcessingCompleted(s, n, report)
          PROVE  UNCHANGED sremoved
      BY <3>1, <1>2 DEF ProcessingCompleted, Return
    <3>2. ASSUME NEW n \in Names, HandleNotifyStateChangeResult(s, n) PROVE UNCHANGED sremoved
      BY <3>2 DEF HandleNotifyStateChangeResult, Return, Fault
    <3> QED BY <2>2, <3>1, <3>2 DEF CallbackStep
  <2>3. ASSUME NEW s \in Slaves, ProcessStep(s) PROVE UNCHANGED sremoved
    BY <2>3 DEF ProcessStep, Start, Stop, Fault, Crash
  <2>4. ASSUME NEW s \in Slaves, AnyMasterStep(s) PROVE UNCHANGED sremoved
    BY <2>4 DEF AnyMasterStep, AnswerNote
  <2> QED BY <2>1, <2>2, <2>3, <2>4 DEF Next, svars
<1> QED BY <1>3

\* To begin with no file has been anywhere.
LEMMA StageInit ==
  ASSUME Init, NEW s \in Slaves
  PROVE  /\ sremoved[s] = {} /\ StageOK(sup[s], mem[s], ssaved[s])
         /\ \A n \in Names : /\ StageOf(mem[s], ssaved[s], n) = ABSENT
                             /\ ~IsPresent(mem[s], ssaved[s], n)
<1>1. mem[s] = Empty /\ sup[s] = FALSE /\ sremoved[s] = {}
      /\ \A n \in Names : ssaved[s][n] = Absent
  BY DEF Init
<1>2. \A n \in Names : ssaved[s][n].file.st = ABSENT /\ ~Has(Empty, n)
  BY <1>1 DEF Absent, NoFile, Has, Empty
<1> QED BY <1>1, <1>2, EmptyTells DEF StageOK, StageOf, IsPresent, IsBegun, Stages

\* A file that has come anywhere is known.
LEMMA StagePresent ==
  ASSUME NEW m, NEW saved, MemoryInv(m), NEW n \in Names, ~IsPresent(m, saved, n)
  PROVE  StageOf(m, saved, n) = ABSENT
<1>1. m.files[n] = Absent /\ saved[n] = Absent BY DEF IsPresent, Has
<1> QED BY <1>1 DEF StageOf, State, Absent, NoFile, IsBegun, ABSENT
=============================================================================
