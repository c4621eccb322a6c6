-------------------------- MODULE Processor_proofs --------------------------
(***************************************************************************)
(* Proofs about Processor: no part is lost and chunks are never joined,    *)
(* wherever the program crashes and whichever compositions fail; where     *)
(* nothing goes wrong, each part is composed once and ranges are disjoint. *)
(***************************************************************************)
EXTENDS Processor, FiniteSetTheorems, TLAPS

-----------------------------------------------------------------------------
(* First and last parts.                                                   *)

\* A set of natural numbers has a least one: for these intervals are finite,
\* and the strict subset order of finite sets is well founded.
LEMMA Least ==
  ASSUME NEW T \in SUBSET Nat, T # {}
  PROVE  \E m \in T : \A n \in T : m <= n
<1> DEFINE below == {0 .. n : n \in T}
<1>1. IsWellFoundedOn(StrictSubsetOrdering(Nat), FiniteSubsetsOf(Nat))
  BY FS_StrictSubsetOrderingWellFounded
<1>2. below # {} OBVIOUS
<1>3. below \subseteq FiniteSubsetsOf(Nat)
  <2> SUFFICES ASSUME NEW n \in T PROVE 0 .. n \in FiniteSubsetsOf(Nat) OBVIOUS
  <2>1. n \in Nat /\ 0 .. n \subseteq Nat OBVIOUS
  <2>2. IsFiniteSet(0 .. n) BY <2>1, FS_Interval
  <2> QED BY <2>1, <2>2 DEF FiniteSubsetsOf
<1> HIDE DEF below
<1>4. PICK X \in below : \A Y \in below : ~ (<<Y, X>> \in StrictSubsetOrdering(Nat))
  BY <1>1, <1>2, <1>3, WFMin
<1>5. PICK m \in T : X = 0 .. m BY DEF below
<1>6. ASSUME NEW n \in T PROVE m <= n
  <2> SUFFICES ASSUME n < m PROVE FALSE BY <1>5
  <2>1. 0 .. n \in below BY DEF below
  <2>2. 0 .. n \subseteq 0 .. m /\ 0 .. n # 0 .. m
    <3>1. m \in 0 .. m /\ m \notin 0 .. n OBVIOUS
    <3> QED BY <3>1
  <2>3. <<0 .. n, 0 .. m>> \in StrictSubsetOrdering(Nat)
    BY <2>2 DEF StrictSubsetOrdering
  <2> QED BY <1>4, <1>5, <2>1, <2>3
<1> QED BY <1>6

\* A directory with parts has a first one.
LEMMA FirstIsFirst ==
  ASSUME NEW S \in SUBSET Part, S # {}
  PROVE  IsFirst(First(S), S)
<1> DEFINE times == {p.ts : p \in S}
<1>1. times \in SUBSET Nat /\ times # {} BY DEF Part
<1>2. PICK t \in times : \A u \in times : t <= u BY <1>1, Least
<1>3. PICK p \in S : p.ts = t OBVIOUS
<1>4. IsFirst(p, S) BY <1>2, <1>3 DEF IsFirst
<1> QED BY <1>4 DEF First

\* It has a last one if the times of its parts are bounded.
LEMMA LastIsLast ==
  ASSUME NEW S \in SUBSET Part, S # {}, NEW b \in Nat, \A p \in S : p.ts < b
  PROVE  IsLast(Last(S), S)
<1> DEFINE bounds == {n \in Nat : \A p \in S : p.ts <= n}
<1>1. b \in bounds BY DEF Part
<1>2. PICK m \in bounds : \A n \in bounds : m <= n BY <1>1, Least
<1>3. PICK p \in S : p.ts = m
  <2> SUFFICES ASSUME \A p \in S : p.ts # m PROVE FALSE OBVIOUS
  <2>1. \A p \in S : p.ts \in Nat /\ p.ts < m BY DEF Part
  <2>2. m # 0 /\ m - 1 \in Nat BY <2>1
  <2>3. m - 1 \in bounds BY <2>1, <2>2
  <2> QED BY <1>2, <2>2, <2>3
<1>4. IsLast(p, S) BY <1>3 DEF IsLast
<1> QED BY <1>4 DEF Last

-----------------------------------------------------------------------------
(* The invariant.                                                          *)

Working == {"join", "joining", "rename", "consume"}

Contained(d, o) == o.has \subseteq recorded[d] /\ \A p \in o.has : o.begin <= p.ts

\* Parts are recorded in the order of time and consumed in that order; outputs
\* have parts that were recorded at their begin, or later.
FilesInv ==
  \A d \in Dirs :
    /\ IsFiniteSet(recorded[d])
    /\ parts[d] \subseteq recorded[d]
    /\ \A p \in recorded[d] : p.ts < now
    /\ \A p, q \in recorded[d] : p.ts = q.ts => p = q
    /\ \A p \in recorded[d] \ parts[d], q \in parts[d] : p.ts < q.ts
    /\ \A o \in media[d] : Contained(d, o)

\* The selection are the first parts of the directory, without a new chunk
\* among them.
ThreadInv ==
  /\ thread.pc \in {"once"} \cup Working => Here \in Dirs
  /\ thread.pc \in Working =>
       /\ thread.sel \subseteq parts[Here]
       /\ \A p \in thread.sel, q \in parts[Here] \ thread.sel : p.ts < q.ts
  /\ thread.pc \in Working \ {"consume"} => thread.sel # {}
  /\ thread.pc \in {"join", "joining"} =>
       \A p \in thread.sel : p.new => IsFirst(p, thread.sel)

Kept(d, p) == p \in empty[d] \/ \E o \in media[d] : o.whole /\ p \in o.has

\* What is about to be consumed is kept; so is what has been.
SafeInv ==
  /\ thread.pc \in {"rename", "consume"} => \A p \in thread.sel : Kept(Here, p)
  /\ \A d \in Dirs : \A p \in recorded[d] \ parts[d] : Kept(d, p)
  /\ ChunksStayApart

Inv == TypeOK /\ FilesInv /\ ThreadInv /\ SafeInv

-----------------------------------------------------------------------------
(* The selection of GetProcessableFiles.                                   *)

\* It takes the first parts, at least one, and of a new chunk only its start.
LEMMA SelectionIsPrefix ==
  ASSUME NEW S \in SUBSET Part, S # {}, \A p, q \in S : p.ts = q.ts => p = q
  PROVE  /\ Selection(S) \subseteq S
         /\ Selection(S) # {}
         /\ \A p \in Selection(S), q \in S \ Selection(S) : p.ts < q.ts
         /\ \A p \in Selection(S) : p.new => IsFirst(p, Selection(S))
<1>1. IsFirst(First(S), S) BY FirstIsFirst
<1>2. Selection(S) \subseteq S BY DEF Selection
<1>3. First(S) \in Selection(S)
  <2> SUFFICES ASSUME NEW q \in S, Ends(q, S) PROVE First(S).ts < q.ts
    BY <1>1 DEF Selection, IsFirst
  <2>1. q # First(S) BY DEF Ends
  <2>2. First(S) \in S /\ First(S).ts <= q.ts BY <1>1 DEF IsFirst
  <2>3. First(S).ts # q.ts BY <2>1, <2>2
  <2> QED BY <2>2, <2>3 DEF Part
<1>4. ASSUME NEW p \in Selection(S), NEW q \in S \ Selection(S) PROVE p.ts < q.ts
  <2>1. PICK r \in S : Ends(r, S) /\ ~ (q.ts < r.ts) BY DEF Selection
  <2>2. p.ts < r.ts BY <2>1 DEF Selection
  <2> QED BY <2>1, <2>2, <1>2 DEF Part
<1>5. ASSUME NEW p \in Selection(S), p.new PROVE IsFirst(p, Selection(S))
  <2>1. ~ Ends(p, S) BY <1>2 DEF Selection, Part
  <2>2. p = First(S) BY <2>1, <1>5 DEF Ends
  <2> QED BY <2>2, <1>1, <1>2 DEF IsFirst
<1> QED BY <1>2, <1>3, <1>4, <1>5

\* The next time is a time.
LEMMA NextTsType ==
  ASSUME NEW S \in SUBSET Part, S # {}, NEW b \in Nat, \A p \in S : p.ts < b
  PROVE  NextTs(S) \in Nat
<1> DEFINE rest == S \ Selection(S)
           p == IF rest = {} THEN Last(S) ELSE First(rest)
<1>1. CASE rest = {}
  <2>1. Last(S) \in S BY LastIsLast DEF IsLast
  <2> QED BY <2>1, <1>1 DEF NextTs, Part
<1>2. CASE rest # {}
  <2>1. rest \in SUBSET Part OBVIOUS
  <2>2. IsFirst(First(rest), rest) BY <2>1, <1>2, FirstIsFirst
  <2>3. First(rest) \in S BY <2>2 DEF IsFirst
  <2> QED BY <2>3, <1>2 DEF NextTs, Part
<1> QED BY <1>1, <1>2

\* The begin of an output is the time of the first part selected.
LEMMA BeginIsFirst ==
  ASSUME TypeOK, thread.sel # {}
  PROVE  Begin \in Nat /\ IsFirst(First(thread.sel), thread.sel)
<1>1. thread.sel \in SUBSET Part BY DEF TypeOK
<1>2. IsFirst(First(thread.sel), thread.sel) BY <1>1, FirstIsFirst
<1> QED BY <1>1, <1>2 DEF Begin, IsFirst, Part

\* A tick leaves a part of this time in a directory, or none.
SavesOnce(saved) ==
  /\ parts' = [d \in Dirs |-> parts[d] \cup saved[d]]
  /\ recorded' = [d \in Dirs |-> recorded[d] \cup saved[d]]
  /\ \A d \in Dirs : saved[d] = {} \/ \E p \in Part : p.ts = now /\ saved[d] = {p}

\* The passing of time saves at most one part in each directory.
LEMMA TickSaves ==
  ASSUME TypeOK, Tick
  PROVE  \E saved \in [Dirs -> SUBSET Part] : SavesOnce(saved)
<1>1. PICK savers \in SUBSET Dirs : \E chunk \in [savers -> BOOLEAN] :
        LET Saved(d) == IF d \in savers THEN {[ts |-> now, new |-> chunk[d]]} ELSE {}
        IN  /\ parts' = [d \in Dirs |-> parts[d] \cup Saved(d)]
            /\ recorded' = [d \in Dirs |-> recorded[d] \cup Saved(d)]
  BY DEF Tick
<1>2. PICK chunk \in [savers -> BOOLEAN] :
        LET Saved(d) == IF d \in savers THEN {[ts |-> now, new |-> chunk[d]]} ELSE {}
        IN  /\ parts' = [d \in Dirs |-> parts[d] \cup Saved(d)]
            /\ recorded' = [d \in Dirs |-> recorded[d] \cup Saved(d)]
  BY <1>1
<1> DEFINE saved == [d \in Dirs |-> IF d \in savers THEN {[ts |-> now, new |-> chunk[d]]} ELSE {}]
<1>3. \A d \in savers : [ts |-> now, new |-> chunk[d]] \in Part BY DEF Part, TypeOK
<1>4. saved \in [Dirs -> SUBSET Part] BY <1>3
<1>5. SavesOnce(saved) BY <1>2, <1>3 DEF SavesOnce
<1> QED BY <1>4, <1>5

-----------------------------------------------------------------------------
(* Types.                                                                  *)

\* Every step keeps the types.
LEMMA TypeStep == Inv /\ [Next]_pvars => TypeOK'
<1> SUFFICES ASSUME Inv, [Next]_pvars PROVE TypeOK' OBVIOUS
<1> USE DEF Inv, Places
<1>1. CASE ListDirs BY <1>1 DEF ListDirs, TypeOK
<1>2. CASE NextDir
  <2>1. CASE \E d \in thread.todo :
               thread' = [thread EXCEPT !.pc = "once", !.todo = @ \ {d}, !.dir = d]
    BY <1>2, <2>1 DEF NextDir, TypeOK
  <2>2. CASE Goto("wait") BY <1>2, <2>2 DEF NextDir, Goto, TypeOK
  <2> QED BY <1>2, <2>1, <2>2 DEF NextDir
<1>3. CASE Choose
  <2>1. CASE Goto("dirs") BY <1>3, <2>1 DEF Choose, Goto, TypeOK
  <2>2. CASE Processable(parts[Here]) /\
             thread' = [thread EXCEPT !.pc = "join", !.sel = Selection(parts[Here]),
                                      !.next = NextTs(parts[Here])]
    <3>1. Here \in Dirs BY <1>3 DEF Choose, ThreadInv
    <3>2. parts[Here] \in SUBSET Part /\ parts[Here] # {}
      BY <2>2, <3>1 DEF TypeOK, Processable
    <3>3. now \in Nat /\ \A p \in parts[Here] : p.ts < now
      BY <3>1 DEF TypeOK, FilesInv
    <3>4. NextTs(parts[Here]) \in Nat BY <3>2, <3>3, NextTsType
    <3>5. Selection(parts[Here]) \in SUBSET Part BY <3>2 DEF Selection
    <3> QED BY <1>3, <2>2, <3>4, <3>5 DEF Choose, TypeOK
  <2> QED BY <1>3, <2>1, <2>2 DEF Choose
<1>4. CASE JoinBegins
  <2>1. Here \in Dirs /\ thread.sel # {} BY <1>4 DEF JoinBegins, ThreadInv, Working
  <2>2. Begin \in Nat BY <2>1, BeginIsFirst
  <2>3. [begin |-> Begin, end |-> thread.next, has |-> {}, ms |-> 0,
                 whole |-> FALSE] \in Output
    BY <2>2 DEF Output, TypeOK
  <2> QED BY <1>4, <2>1, <2>3 DEF JoinBegins, Goto, Without, TypeOK
<1>5. CASE JoinEnds
  <2>1. Here \in Dirs /\ thread.sel # {} BY <1>5 DEF JoinEnds, ThreadInv, Working
  <2>2. Begin \in Nat BY <2>1, BeginIsFirst
  <2>3. \A ms \in Lengths :
          [begin |-> Begin, end |-> thread.next, has |-> thread.sel, ms |-> ms,
           whole |-> TRUE] \in Output
    BY <2>2, ProcessorAssumption DEF Output, TypeOK
  <2> QED BY <1>5, <2>1, <2>3 DEF JoinEnds, Goto, Without, TypeOK
<1>6. CASE JoinIsEmpty
  BY <1>6 DEF JoinIsEmpty, Goto, Without, TypeOK
<1>7. CASE JoinFails BY <1>7 DEF JoinFails, Goto, TypeOK
<1>8. CASE Rename
  <2>1. Here \in Dirs /\ thread.sel # {} BY <1>8 DEF Rename, ThreadInv, Working
  <2>2. Begin \in Nat BY <2>1, BeginIsFirst
  <2>3. \A o \in media[Here] : [o EXCEPT !.end = Begin + o.ms] \in Output
    BY <2>1, <2>2 DEF Output, TypeOK
  <2> QED BY <1>8, <2>1, <2>3 DEF Rename, Goto, TypeOK
<1>9. CASE Consume BY <1>9 DEF Consume, Goto, TypeOK
<1>10. CASE Wait BY <1>10 DEF Wait, Goto, Idle, TypeOK
<1>11. CASE Start
  <2>1. thread' = [Idle EXCEPT !.pc = "list"] BY <1>11 DEF Start
  <2>2. thread' \in [pc : Places, todo : SUBSET Dirs, dir : Dirs \cup {"none"},
                     sel : SUBSET Part, next : Nat]
    BY <2>1 DEF Idle
  <2>3. UNCHANGED <<now, parts, media, recorded, empty, disturbed>> /\ stopping' = FALSE
        /\ starts' = starts + 1
    BY <1>11 DEF Start
  <2>4. starts' \in Nat BY <2>3 DEF TypeOK
  <2> QED BY <2>2, <2>3, <2>4 DEF TypeOK
<1>12. CASE Stop BY <1>12 DEF Stop, TypeOK
<1>13. CASE Crash BY <1>13 DEF Crash, Idle, TypeOK
<1>14. CASE Tick
  <2>1. PICK saved \in [Dirs -> SUBSET Part] : SavesOnce(saved) BY <1>14, TickSaves
  <2> QED BY <1>14, <2>1 DEF Tick, SavesOnce, TypeOK
<1>15. CASE UNCHANGED pvars BY <1>15 DEF pvars, TypeOK
<1> QED
  BY <1>1, <1>2, <1>3, <1>4, <1>5, <1>6, <1>7, <1>8, <1>9, <1>10, <1>11, <1>12, <1>13,
     <1>14, <1>15 DEF Next, ThreadStep

-----------------------------------------------------------------------------
(* What renaming and consuming do.                                         *)

\* Renaming changes no content and no begin, and it takes away no output.
LEMMA RenameKeeps ==
  ASSUME TypeOK, Rename
  PROVE  \A d \in Dirs :
           /\ \A o \in media'[d] : \E old \in media[d] :
                o.has = old.has /\ o.begin = old.begin /\ o.whole = old.whole
           /\ \A old \in media[d] : \E o \in media'[d] :
                o.has = old.has /\ o.begin = old.begin /\ o.whole = old.whole
<1> DEFINE moved == {o \in media[Here] :
                       /\ Named(o, Begin, 0)
                       /\ \A p \in media[Here] : ~Named(p, Begin, Begin + o.ms)}
           new == (media[Here] \ moved) \cup {[o EXCEPT !.end = Begin + o.ms] : o \in moved}
<1> SUFFICES ASSUME NEW d \in Dirs
             PROVE  /\ \A o \in media'[d] : \E old \in media[d] :
                         o.has = old.has /\ o.begin = old.begin /\ o.whole = old.whole
                    /\ \A old \in media[d] : \E o \in media'[d] :
                         o.has = old.has /\ o.begin = old.begin /\ o.whole = old.whole
  OBVIOUS
<1>1. media'[d] = media[d] \/ (d = Here /\ media'[d] = new)
  <2>1. media' = [media EXCEPT ![Here] = new] BY DEF Rename
  <2> HIDE DEF new
  <2> QED BY <2>1 DEF TypeOK
<1>2. \A old \in media[d] : LET o == [old EXCEPT !.end = Begin + old.ms]
                            IN  o.has = old.has /\ o.begin = old.begin /\ o.whole = old.whole
  BY DEF TypeOK, Output
<1>3. moved \subseteq media[Here] OBVIOUS
<1> HIDE DEF moved
<1> QED BY <1>1, <1>2, <1>3

\* The part that is consumed is the oldest of its directory.
LEMMA VictimIsOldest ==
  ASSUME Inv, thread.pc = "consume", NEW p \in thread.sel, Victim(p)
  PROVE  \A q \in parts[Here] \ {p} : p.ts < q.ts
<1>1. Here \in Dirs /\ thread.sel \subseteq parts[Here] /\ parts[Here] \subseteq recorded[Here]
  BY DEF Inv, ThreadInv, FilesInv, Working
<1> SUFFICES ASSUME NEW q \in parts[Here], q # p PROVE p.ts < q.ts OBVIOUS
<1>2. p.ts \in Nat /\ q.ts \in Nat BY <1>1 DEF Inv, TypeOK, Part
<1>3. p.ts # q.ts BY <1>1 DEF Inv, FilesInv
<1>4. CASE q \in thread.sel BY <1>2, <1>3, <1>4 DEF Victim, IsFirst
<1>5. CASE q \notin thread.sel BY <1>5 DEF Inv, ThreadInv, Working
<1> QED BY <1>4, <1>5

-----------------------------------------------------------------------------
(* Files.                                                                  *)

\* Steps that only change outputs.
LEMMA OutputsChange ==
  ASSUME FilesInv, UNCHANGED <<now, parts, recorded>>,
         \A d \in Dirs : \A o \in media'[d] : Contained(d, o)
  PROVE  FilesInv'
BY DEF FilesInv, Contained

\* Every step keeps FilesInv.
LEMMA FilesStep == Inv /\ [Next]_pvars => FilesInv'
<1> SUFFICES ASSUME Inv, [Next]_pvars PROVE FilesInv' OBVIOUS
<1> USE DEF Inv
<1>1. CASE UNCHANGED <<now, parts, media, recorded>>
  BY <1>1 DEF FilesInv, Contained
<1>2. CASE JoinBegins
  <2> DEFINE new == [begin |-> Begin, end |-> thread.next, has |-> {}, ms |-> 0,
                 whole |-> FALSE]
  <2>1. \A d \in Dirs : \A o \in media'[d] : o \in media[d] \/ o = new
    BY <1>2 DEF JoinBegins, Without, TypeOK
  <2>2. \A d \in Dirs : Contained(d, new) BY DEF Contained
  <2> HIDE DEF new
  <2>3. \A d \in Dirs : \A o \in media'[d] : Contained(d, o) BY <2>1, <2>2 DEF FilesInv
  <2> QED BY <1>2, <2>3, OutputsChange DEF JoinBegins
<1>3. CASE JoinEnds
  <2>0. PICK ms \in Lengths : media' = [media EXCEPT ![Here] = Without(Begin, thread.next) \cup
          {[begin |-> Begin, end |-> thread.next, has |-> thread.sel, ms |-> ms,
            whole |-> TRUE]}]
    BY <1>3 DEF JoinEnds
  <2> DEFINE new == [begin |-> Begin, end |-> thread.next, has |-> thread.sel, ms |-> ms,
                     whole |-> TRUE]
  <2>1. Here \in Dirs /\ thread.sel # {} /\ thread.sel \subseteq recorded[Here]
    BY <1>3 DEF JoinEnds, ThreadInv, FilesInv, Working
  <2>2. \A d \in Dirs : \A o \in media'[d] : o \in media[d] \/ (d = Here /\ o = new)
    BY <2>0 DEF Without, TypeOK
  <2>3. \A p \in thread.sel : Begin <= p.ts BY <2>1, BeginIsFirst DEF IsFirst, Begin
  <2>4. Contained(Here, new) BY <2>1, <2>3 DEF Contained
  <2> HIDE DEF new
  <2>5. \A d \in Dirs : \A o \in media'[d] : Contained(d, o) BY <2>2, <2>4 DEF FilesInv
  <2> QED BY <1>3, <2>5, OutputsChange DEF JoinEnds
<1>4. CASE JoinIsEmpty
  <2>1. \A d \in Dirs : \A o \in media'[d] : o \in media[d]
    BY <1>4 DEF JoinIsEmpty, Without, TypeOK
  <2>2. \A d \in Dirs : \A o \in media'[d] : Contained(d, o) BY <2>1 DEF FilesInv
  <2> QED BY <1>4, <2>2, OutputsChange DEF JoinIsEmpty
<1>5. CASE Rename
  <2>1. \A d \in Dirs : \A o \in media'[d] :
          \E old \in media[d] : o.has = old.has /\ o.begin = old.begin
    BY <1>5, RenameKeeps
  <2>2. \A d \in Dirs : \A o \in media'[d] : Contained(d, o)
    BY <2>1 DEF FilesInv, Contained
  <2> QED BY <1>5, <2>2, OutputsChange DEF Rename
<1>6. CASE Consume
  <2>1. CASE UNCHANGED parts BY <1>6, <2>1, <1>1 DEF Consume
  <2>2. ASSUME NEW p \in thread.sel, Victim(p), parts' = [parts EXCEPT ![Here] = @ \ {p}]
        PROVE  FilesInv'
    <3>1. Here \in Dirs /\ thread.sel \subseteq parts[Here]
      BY <1>6 DEF Consume, ThreadInv, Working
    <3>2. \A q \in parts[Here] \ {p} : p.ts < q.ts BY <1>6, <2>2, VictimIsOldest DEF Consume
    <3>3. UNCHANGED <<now, media, recorded>> BY <1>6 DEF Consume
    <3> SUFFICES ASSUME NEW d \in Dirs
                 PROVE  /\ parts'[d] \subseteq recorded[d]
                        /\ \A a \in recorded[d] \ parts'[d], b \in parts'[d] : a.ts < b.ts
      BY <3>3 DEF FilesInv, Contained
    <3>4. CASE d = Here
      <4>1. parts'[d] = parts[d] \ {p} BY <2>2, <3>1, <3>4 DEF TypeOK
      <4> QED BY <4>1, <3>2, <3>4 DEF FilesInv
    <3>5. CASE d # Here
      <4>1. parts'[d] = parts[d] BY <2>2, <3>5 DEF TypeOK
      <4> QED BY <4>1 DEF FilesInv
    <3> QED BY <3>4, <3>5
  <2> QED BY <1>6, <2>1, <2>2 DEF Consume
<1>7. CASE Tick
  <2>1. PICK saved \in [Dirs -> SUBSET Part] : SavesOnce(saved) BY <1>7, TickSaves
  <2>2. now' = now + 1 /\ UNCHANGED media /\ now \in Nat BY <1>7 DEF Tick, TypeOK
  <2> SUFFICES ASSUME NEW d \in Dirs
               PROVE  /\ IsFiniteSet(recorded'[d])
                      /\ parts'[d] \subseteq recorded'[d]
                      /\ \A p \in recorded'[d] : p.ts < now'
                      /\ \A p, q \in recorded'[d] : p.ts = q.ts => p = q
                      /\ \A p \in recorded'[d] \ parts'[d], q \in parts'[d] : p.ts < q.ts
                      /\ \A o \in media'[d] : Contained(d, o)'
    BY DEF FilesInv
  <2>3. parts'[d] = parts[d] \cup saved[d] /\ recorded'[d] = recorded[d] \cup saved[d]
    BY <2>1 DEF SavesOnce
  <2>4. \A o \in media'[d] : Contained(d, o)' BY <2>2, <2>3 DEF FilesInv, Contained
  <2>5. CASE saved[d] = {}
    <3>1. parts'[d] = parts[d] /\ recorded'[d] = recorded[d] BY <2>3, <2>5
    <3>2. \A p \in recorded[d] : p.ts \in Nat BY DEF TypeOK, Part
    <3> QED BY <2>2, <2>4, <3>1, <3>2 DEF FilesInv
  <2>6. CASE saved[d] # {}
    <3>1. PICK new \in Part : new.ts = now /\ saved[d] = {new} BY <2>1, <2>6 DEF SavesOnce
    <3>2. parts'[d] = parts[d] \cup {new} /\ recorded'[d] = recorded[d] \cup {new}
      BY <2>3, <3>1
    <3>3. \A p \in recorded[d] : p.ts \in Nat /\ p.ts < now BY DEF TypeOK, Part, FilesInv
    <3>4. IsFiniteSet(recorded'[d])
      <4>1. IsFiniteSet(recorded[d]) BY DEF FilesInv
      <4> QED BY <4>1, <3>2, FS_AddElement
    <3>5. \A p \in recorded'[d] : p.ts < now' BY <2>2, <3>1, <3>2, <3>3
    <3>6. \A p, q \in recorded'[d] : p.ts = q.ts => p = q
      BY <2>2, <3>1, <3>2, <3>3 DEF FilesInv
    <3>7. \A p \in recorded'[d] \ parts'[d], q \in parts'[d] : p.ts < q.ts
      BY <2>2, <3>1, <3>2, <3>3 DEF FilesInv
    <3>8. parts'[d] \subseteq recorded'[d] BY <3>2 DEF FilesInv
    <3> QED BY <2>4, <3>4, <3>5, <3>6, <3>7, <3>8
  <2> QED BY <2>5, <2>6
<1> QED
  BY <1>1, <1>2, <1>3, <1>4, <1>5, <1>6, <1>7
  DEF Next, ThreadStep, ListDirs, NextDir, Choose, JoinFails, Wait, Start, Stop, Crash, pvars

-----------------------------------------------------------------------------
(* The thread.                                                             *)

\* Steps that leave the parts alone, or add parts that are younger than all.
LEMMA ThreadStays ==
  ASSUME Inv, UNCHANGED thread,
         \A d \in Dirs : /\ parts[d] \subseteq parts'[d]
                         /\ \A q \in parts'[d] : q \in parts[d] \/ (q.ts \in Nat /\ now <= q.ts)
  PROVE  ThreadInv'
<1> USE DEF Here
<1>1. CASE thread.pc \in Working
  <2>1. Here \in Dirs /\ thread.sel \subseteq parts[Here] /\ parts[Here] \subseteq recorded[Here]
    BY <1>1 DEF Inv, ThreadInv, FilesInv
  <2>2. \A p \in thread.sel : p.ts \in Nat /\ p.ts < now BY <2>1 DEF Inv, FilesInv, TypeOK, Part
  <2>3. ASSUME NEW p \in thread.sel, NEW q \in parts'[Here] \ thread.sel PROVE p.ts < q.ts
    <3>1. CASE q \in parts[Here] BY <1>1, <3>1 DEF Inv, ThreadInv
    <3>2. CASE q.ts \in Nat /\ now <= q.ts BY <2>2, <3>2 DEF Inv, TypeOK
    <3> QED BY <2>1, <3>1, <3>2
  <2> QED BY <1>1, <2>1, <2>3 DEF Inv, ThreadInv, IsFirst
<1>2. CASE thread.pc \notin Working BY <1>2 DEF Inv, ThreadInv, Working
<1> QED BY <1>1, <1>2

\* Every step keeps ThreadInv.
LEMMA ThreadInvStep == Inv /\ [Next]_pvars => ThreadInv'
<1> SUFFICES ASSUME Inv, [Next]_pvars PROVE ThreadInv' OBVIOUS
<1> USE DEF Inv, Here
<1>1. CASE UNCHANGED <<thread, parts>>
  <2>1. \A d \in Dirs : parts'[d] = parts[d] BY <1>1
  <2> QED BY <1>1, <2>1, ThreadStays
<1>2. CASE thread'.pc \in {"off", "list", "dirs", "wait"}
  BY <1>2 DEF ThreadInv, Working
<1>3. CASE NextDir
  BY <1>2, <1>3 DEF NextDir, Goto, ThreadInv, TypeOK, Working
<1>4. CASE Choose
  <2>1. CASE Goto("dirs") BY <1>2, <2>1 DEF Goto, TypeOK
  <2>2. CASE Processable(parts[Here]) /\
             thread' = [thread EXCEPT !.pc = "join", !.sel = Selection(parts[Here]),
                                      !.next = NextTs(parts[Here])]
    <3>1. Here \in Dirs /\ UNCHANGED parts BY <1>4 DEF Choose, ThreadInv
    <3>2. parts[Here] \in SUBSET Part /\ parts[Here] # {}
      BY <2>2, <3>1 DEF TypeOK, Processable
    <3>3. \A p, q \in parts[Here] : p.ts = q.ts => p = q BY <3>1 DEF FilesInv
    <3>4. thread'.pc = "join" /\ thread'.dir = Here /\ thread'.sel = Selection(parts[Here])
      BY <2>2 DEF TypeOK
    <3> QED BY <3>1, <3>2, <3>3, <3>4, SelectionIsPrefix DEF ThreadInv, Working
  <2> QED BY <1>4, <2>1, <2>2 DEF Choose
<1>5. CASE JoinBegins BY <1>5 DEF JoinBegins, Goto, ThreadInv, Working, TypeOK
<1>6. CASE JoinEnds
  <2>1. thread' = [thread EXCEPT !.pc = "rename"] \/ thread' = [thread EXCEPT !.pc = "consume"]
    BY <1>6 DEF JoinEnds, Goto
  <2> QED BY <1>6, <2>1 DEF JoinEnds, ThreadInv, Working, TypeOK
<1>7. CASE JoinIsEmpty BY <1>7 DEF JoinIsEmpty, Goto, ThreadInv, Working, TypeOK
<1>8. CASE JoinFails BY <1>2, <1>8 DEF JoinFails, Goto, TypeOK
<1>9. CASE Rename BY <1>9 DEF Rename, Goto, ThreadInv, Working, TypeOK
<1>10. CASE Consume
  <2>1. Here \in Dirs /\ thread.sel \subseteq parts[Here]
    BY <1>10 DEF Consume, ThreadInv, Working
  <2>2. ASSUME NEW p \in thread.sel, parts' = [parts EXCEPT ![Here] = @ \ {p}],
               thread' = [thread EXCEPT !.sel = @ \ {p}]
        PROVE  ThreadInv'
    <3>1. thread'.pc = "consume" /\ thread'.dir = Here /\ thread'.sel = thread.sel \ {p}
      BY <1>10, <2>2 DEF Consume, TypeOK
    <3>2. parts'[Here] = parts[Here] \ {p} BY <2>1, <2>2 DEF TypeOK
    <3> QED BY <1>10, <2>1, <3>1, <3>2 DEF Consume, ThreadInv, Working
  <2>3. CASE Goto("once") BY <2>1, <2>3 DEF Goto, ThreadInv, Working, TypeOK
  <2> QED BY <1>10, <2>2, <2>3 DEF Consume
<1>11. CASE ListDirs \/ Wait \/ Start \/ Crash
  <2>1. CASE ListDirs BY <1>2, <2>1 DEF ListDirs, TypeOK
  <2>2. CASE Wait BY <1>2, <2>2 DEF Wait, Goto, Idle, TypeOK
  <2>3. CASE Start BY <1>2, <2>3 DEF Start, Idle
  <2>4. CASE Crash BY <1>2, <2>4 DEF Crash, Idle
  <2> QED BY <1>11, <2>1, <2>2, <2>3, <2>4
<1>12. CASE Tick
  <2>1. PICK saved \in [Dirs -> SUBSET Part] : SavesOnce(saved) BY <1>12, TickSaves
  <2>2. UNCHANGED thread /\ now \in Nat BY <1>12 DEF Tick, TypeOK
  <2>3. \A d \in Dirs : parts'[d] = parts[d] \cup saved[d] BY <2>1 DEF SavesOnce
  <2>4. \A d \in Dirs : \A q \in saved[d] : q.ts \in Nat /\ now <= q.ts
    BY <2>1, <2>2 DEF SavesOnce
  <2> QED BY <2>2, <2>3, <2>4, ThreadStays
<1>13. CASE Stop BY <1>1, <1>13 DEF Stop
<1>14. CASE UNCHANGED pvars BY <1>1, <1>14 DEF pvars
<1> QED
  BY <1>3, <1>4, <1>5, <1>6, <1>7, <1>8, <1>9, <1>10, <1>11, <1>12, <1>13, <1>14
  DEF Next, ThreadStep

-----------------------------------------------------------------------------
(* What is kept.                                                           *)

\* A part that is kept stays so if its outputs stay, whatever their names.
LEMMA StaysKept ==
  ASSUME NEW d \in Dirs, NEW p, Kept(d, p), empty[d] \subseteq empty'[d],
         \A old \in media[d] : old.whole /\ p \in old.has =>
           \E o \in media'[d] : o.has = old.has /\ o.whole = old.whole
  PROVE  Kept(d, p)'
BY DEF Kept

\* A composition only replaces outputs that begin at the first part it
\* composes: the parts that were consumed before are older, and in others.
LEMMA OthersAreReplaced ==
  ASSUME Inv, thread.pc \in {"join", "joining"}, NEW p \in recorded[Here] \ parts[Here],
         NEW o \in media[Here], p \in o.has
  PROVE  o \in Without(Begin, thread.next)
<1>1. Here \in Dirs /\ thread.sel \subseteq parts[Here] /\ thread.sel # {}
  BY DEF Inv, ThreadInv, Working
<1>2. Begin \in Nat /\ First(thread.sel) \in parts[Here]
  BY <1>1, BeginIsFirst DEF Inv, IsFirst
<1>3. p.ts < Begin BY <1>1, <1>2 DEF Inv, FilesInv, Begin
<1>4. o.begin <= p.ts BY <1>1 DEF Inv, FilesInv, Contained
<1>5. o.begin \in Nat /\ p.ts \in Nat BY <1>1 DEF Inv, TypeOK, Output, Part
<1> QED BY <1>2, <1>3, <1>4, <1>5 DEF Without, Named

\* Steps that leave the files alone and do not come to consume what is not kept.
LEMMA FilesStay ==
  ASSUME Inv, UNCHANGED <<parts, media, recorded, empty>>,
         thread'.pc \in {"rename", "consume"} =>
           /\ thread'.dir = thread.dir /\ thread'.sel \subseteq thread.sel
           /\ thread.pc \in {"rename", "consume"}
  PROVE  SafeInv'
BY DEF Inv, SafeInv, Kept, ChunksStayApart, Here

\* Every step keeps SafeInv.
LEMMA SafeStep == Inv /\ [Next]_pvars => SafeInv'
<1> SUFFICES ASSUME Inv, [Next]_pvars PROVE SafeInv' OBVIOUS
<1> USE DEF Inv
<1>1. CASE ListDirs \/ NextDir \/ Choose \/ JoinFails \/ Wait
  <2>1. CASE ListDirs BY <2>1, FilesStay DEF ListDirs, TypeOK
  <2>2. CASE NextDir BY <2>2, FilesStay DEF NextDir, Goto, TypeOK
  <2>3. CASE Choose BY <2>3, FilesStay DEF Choose, Goto, TypeOK
  <2>4. CASE JoinFails BY <2>4, FilesStay DEF JoinFails, Goto, TypeOK
  <2>5. CASE Wait BY <2>5, FilesStay DEF Wait, Goto, Idle, TypeOK
  <2> QED BY <1>1, <2>1, <2>2, <2>3, <2>4, <2>5
<1>2. CASE Start \/ Stop \/ Crash \/ UNCHANGED pvars
  <2>1. CASE Start BY <2>1, FilesStay DEF Start, Idle
  <2>2. CASE Stop BY <2>2, FilesStay DEF Stop
  <2>3. CASE Crash BY <2>3, FilesStay DEF Crash, Idle
  <2>4. CASE UNCHANGED pvars BY <2>4, FilesStay DEF pvars
  <2> QED BY <1>2, <2>1, <2>2, <2>3, <2>4
<1>3. CASE JoinBegins
  <2> DEFINE new == [begin |-> Begin, end |-> thread.next, has |-> {}, ms |-> 0,
                 whole |-> FALSE]
  <2>1. Here \in Dirs BY <1>3 DEF JoinBegins, ThreadInv, Working
  <2>2. thread'.pc = "joining" /\ thread'.dir = Here /\ UNCHANGED <<parts, recorded, empty>>
    BY <1>3 DEF JoinBegins, Goto, TypeOK, Here
  <2>3. media'[Here] = Without(Begin, thread.next) \cup {new}
        /\ \A d \in Dirs \ {Here} : media'[d] = media[d]
    BY <1>3, <2>1 DEF JoinBegins, TypeOK
  <2>4. ASSUME NEW d \in Dirs, NEW p \in recorded[d] \ parts[d] PROVE Kept(d, p)'
    <3>1. Kept(d, p) BY DEF SafeInv
    <3>2. \A o \in media[d] : p \in o.has => o \in media'[d]
      BY <1>3, <2>3, OthersAreReplaced DEF JoinBegins
    <3> QED BY <2>2, <3>1, <3>2, StaysKept
  <2>5. ChunksStayApart'
    <3>1. \A d \in Dirs : \A o \in media'[d] : o \in media[d] \/ o.has = {}
      BY <2>3 DEF Without
    <3> QED BY <3>1 DEF SafeInv, ChunksStayApart
  <2> QED BY <2>2, <2>4, <2>5 DEF SafeInv
<1>4. CASE JoinEnds
  <2>0. PICK ms \in Lengths : media' = [media EXCEPT ![Here] = Without(Begin, thread.next) \cup
          {[begin |-> Begin, end |-> thread.next, has |-> thread.sel, ms |-> ms,
            whole |-> TRUE]}]
    BY <1>4 DEF JoinEnds
  <2> DEFINE new == [begin |-> Begin, end |-> thread.next, has |-> thread.sel, ms |-> ms,
                     whole |-> TRUE]
  <2>1. Here \in Dirs /\ thread.sel # {} BY <1>4 DEF JoinEnds, ThreadInv, Working
  <2>2. thread'.dir = Here /\ thread'.sel = thread.sel /\ UNCHANGED <<parts, recorded, empty>>
    BY <1>4 DEF JoinEnds, Goto, TypeOK, Here
  <2>3. media'[Here] = Without(Begin, thread.next) \cup {new}
        /\ \A d \in Dirs \ {Here} : media'[d] = media[d]
    BY <2>0, <2>1 DEF TypeOK
  <2>4. ASSUME NEW d \in Dirs, NEW p \in recorded[d] \ parts[d] PROVE Kept(d, p)'
    <3>1. Kept(d, p) BY DEF SafeInv
    <3>2. \A o \in media[d] : p \in o.has => o \in media'[d]
      BY <1>4, <2>3, OthersAreReplaced DEF JoinEnds
    <3> QED BY <2>2, <3>1, <3>2, StaysKept
  <2>5. ChunksStayApart'
    <3>1. ASSUME NEW p \in thread.sel, p.new PROVE p.ts = Begin
      <4>1. IsFirst(p, thread.sel) BY <1>4, <3>1 DEF JoinEnds, ThreadInv
      <4>2. IsFirst(First(thread.sel), thread.sel) BY <2>1, BeginIsFirst
      <4>3. \A q \in thread.sel : q.ts \in Nat BY DEF TypeOK, Part
      <4> QED BY <4>1, <4>2, <4>3 DEF IsFirst, Begin
    <3>2. \A p \in new.has : p.new => p.ts = new.begin BY <3>1
    <3>3. \A d \in Dirs : \A o \in media'[d] : o \in media[d] \/ o = new
      BY <2>3 DEF Without
    <3> HIDE DEF new
    <3> QED BY <3>2, <3>3 DEF SafeInv, ChunksStayApart
  <2>6. \A p \in thread.sel : Kept(Here, p)'
    <3>1. new \in media'[Here] /\ new.whole /\ new.has = thread.sel BY <2>3
    <3> HIDE DEF new
    <3> QED BY <2>2, <3>1 DEF Kept, Here
  <2> QED BY <2>2, <2>4, <2>5, <2>6 DEF SafeInv, Here
<1>5. CASE JoinIsEmpty
  <2>1. Here \in Dirs BY <1>5 DEF JoinIsEmpty, ThreadInv, Working
  <2>2. thread'.dir = Here /\ thread'.sel = thread.sel /\ UNCHANGED <<parts, recorded>>
    BY <1>5 DEF JoinIsEmpty, Goto, TypeOK, Here
  <2>3. media'[Here] = Without(Begin, thread.next)
        /\ \A d \in Dirs \ {Here} : media'[d] = media[d]
    BY <1>5, <2>1 DEF JoinIsEmpty, TypeOK
  <2>4. thread.sel \subseteq empty'[Here] /\ \A d \in Dirs : empty[d] \subseteq empty'[d]
    BY <1>5, <2>1 DEF JoinIsEmpty, TypeOK
  <2>5. ASSUME NEW d \in Dirs, NEW p \in recorded[d] \ parts[d] PROVE Kept(d, p)'
    <3>1. Kept(d, p) BY DEF SafeInv
    <3>2. \A o \in media[d] : p \in o.has => o \in media'[d]
      BY <1>5, <2>3, OthersAreReplaced DEF JoinIsEmpty
    <3> QED BY <2>4, <3>1, <3>2, StaysKept
  <2>6. ChunksStayApart'
    <3>1. \A d \in Dirs : media'[d] \subseteq media[d] BY <2>3 DEF Without
    <3> QED BY <3>1 DEF SafeInv, ChunksStayApart
  <2>7. \A p \in thread.sel : Kept(Here, p)' BY <2>2, <2>4 DEF Kept, Here
  <2> QED BY <2>2, <2>5, <2>6, <2>7 DEF SafeInv, Here
<1>6. CASE Rename
  <2>1. Here \in Dirs /\ thread.sel \subseteq recorded[Here]
    BY <1>6 DEF Rename, ThreadInv, FilesInv, Working
  <2>2. thread'.dir = Here /\ thread'.sel = thread.sel /\ UNCHANGED <<parts, recorded, empty>>
    BY <1>6 DEF Rename, Goto, TypeOK, Here
  <2>3. ASSUME NEW d \in Dirs, NEW p, Kept(d, p) PROVE Kept(d, p)'
    BY <1>6, <2>2, <2>3, RenameKeeps, StaysKept
  <2>4. ChunksStayApart' BY <1>6, RenameKeeps DEF SafeInv, ChunksStayApart
  <2>5. \A p \in thread.sel : Kept(Here, p)'
    <3>1. \A p \in thread.sel : Kept(Here, p) BY <1>6 DEF Rename, SafeInv
    <3>2. \A d \in Dirs : \A p : Kept(d, p) => Kept(d, p)' BY <2>3
    <3> QED BY <2>1, <2>2, <3>1, <3>2 DEF Here
  <2>6. \A d \in Dirs : \A p \in recorded[d] \ parts[d] : Kept(d, p)'
    BY <2>3 DEF SafeInv
  <2> QED BY <2>2, <2>4, <2>5, <2>6 DEF SafeInv, Here
<1>7. CASE Consume
  <2>1. Here \in Dirs /\ thread.sel \subseteq parts[Here]
    BY <1>7 DEF Consume, ThreadInv, Working
  <2>2. UNCHANGED <<media, recorded, empty>> BY <1>7 DEF Consume
  <2>3. CASE UNCHANGED parts /\ Goto("once")
    BY <1>7, <2>3, FilesStay DEF Consume, Goto, TypeOK
  <2>4. ASSUME NEW p \in thread.sel, parts' = [parts EXCEPT ![Here] = @ \ {p}],
               thread' = [thread EXCEPT !.sel = @ \ {p}]
        PROVE  SafeInv'
    <3>1. thread'.dir = Here /\ thread'.sel \subseteq thread.sel
      BY <2>4 DEF TypeOK, Here
    <3>2. \A q \in thread.sel : Kept(Here, q) BY <1>7 DEF Consume, SafeInv
    <3>3. \A d \in Dirs : \A q \in recorded[d] \ parts'[d] : Kept(d, q)
      BY <2>1, <2>4, <3>2 DEF SafeInv, TypeOK
    <3>4. ChunksStayApart' BY <2>2 DEF SafeInv, ChunksStayApart
    <3>5. \A d \in Dirs : \A q : Kept(d, q) => Kept(d, q)' BY <2>2 DEF Kept
    <3> QED BY <2>1, <2>2, <3>1, <3>2, <3>3, <3>4, <3>5 DEF SafeInv, Here
  <2> QED BY <1>7, <2>3, <2>4 DEF Consume
<1>8. CASE Tick
  <2>1. PICK saved \in [Dirs -> SUBSET Part] : SavesOnce(saved) BY <1>8, TickSaves
  <2>2. UNCHANGED <<thread, media, empty>> BY <1>8 DEF Tick
  <2>3. \A d \in Dirs : recorded'[d] \ parts'[d] \subseteq recorded[d] \ parts[d]
    BY <2>1 DEF SavesOnce
  <2> QED BY <2>2, <2>3 DEF SafeInv, Kept, ChunksStayApart, Here
<1> QED
  BY <1>1, <1>2, <1>3, <1>4, <1>5, <1>6, <1>7, <1>8 DEF Next, ThreadStep

-----------------------------------------------------------------------------
(* The theorems.                                                           *)

\* The invariant holds before the thread has done anything.
LEMMA InitInv == Init => Inv
<1> SUFFICES ASSUME Init PROVE Inv OBVIOUS
<1>1. TypeOK BY DEF Init, TypeOK, Idle, Places
<1>2. FilesInv BY FS_EmptySet DEF Init, FilesInv
<1>3. ThreadInv BY DEF Init, ThreadInv, Idle, Working
<1>4. SafeInv BY DEF Init, SafeInv, ChunksStayApart, Idle
<1> QED BY <1>1, <1>2, <1>3, <1>4 DEF Inv

\* The invariant the next theorems follow from.
LEMMA Invariance == Spec => []Inv
<1>1. Inv /\ [Next]_pvars => Inv'
  BY TypeStep, FilesStep, ThreadInvStep, SafeStep DEF Inv
<1> QED BY InitInv, <1>1, PTL DEF Spec

\* Every part, output and local variable of the thread keeps its type.
THEOREM RecordingTypes == Spec => []TypeOK
<1>1. Inv => TypeOK BY DEF Inv
<1> QED BY <1>1, Invariance, PTL

\* However many directories and parts there are, whichever compositions fail
\* and wherever the program crashes and is started again, a part that was
\* recorded is in its directory, or in a complete output, or had no media.
THEOREM PartsAreKept == Spec => []NothingIsLost
<1>1. Inv => NothingIsLost BY DEF Inv, SafeInv, NothingIsLost, Kept
<1> QED BY <1>1, Invariance, PTL

\* No output continues over the begin of a chunk of its saver.
THEOREM ChunksAreApart == Spec => []ChunksStayApart
<1>1. Inv => ChunksStayApart BY DEF Inv, SafeInv
<1> QED BY <1>1, Invariance, PTL

-----------------------------------------------------------------------------
(* A run without a crash or a failed composition.                          *)

\* Whether the output of directory d is being written or waits for its name.
AtWork(d) == thread.pc \in {"joining", "rename"} /\ Here = d
IsCurrent(o) ==
  /\ Named(o, Begin, thread.next)
  /\ o.has = IF thread.pc = "joining" THEN {} ELSE thread.sel
  /\ o.whole = (thread.pc = "rename")

\* The parts of directory d that are in no output.
Left(d) == IF thread.pc = "consume" /\ Here = d THEN parts[d] \ thread.sel ELSE parts[d]

\* An output that is ready begins before every part that is left, and ends
\* before them unless its media is too long.
Done(d, o) ==
  /\ o.whole /\ o.end # 0 /\ o.begin < now
  /\ \A p \in Left(d) : o.begin < p.ts /\ p \notin o.has
  /\ \/ TooLong(o)
     \/ o.end <= now /\ \A p \in Left(d) : o.end <= p.ts

Apart(a, b) ==
  /\ a.has \cap b.has = {}
  /\ a.end # 0 /\ a.begin <= b.begin => a.end <= b.begin \/ TooLong(a)

\* The end of the next output, if it is known, is before what it leaves.
NextInv ==
  /\ thread.pc = "rename" => thread.next = 0
  /\ thread.pc \in {"join", "joining"} /\ thread.next # 0 =>
       thread.next <= now /\ \A q \in parts[Here] \ thread.sel : thread.next <= q.ts

OnceInv ==
  /\ now >= 1 /\ \A d \in Dirs : \A p \in recorded[d] : p.ts >= 1
  /\ NextInv
  /\ \A d \in Dirs : \A o \in media[d] : Done(d, o) \/ (AtWork(d) /\ IsCurrent(o))
  /\ \A d \in Dirs : \A a, b \in media[d] : a # b => Apart(a, b)

\* The next time is not after a part that is not selected, nor in the future.
LEMMA NextTsIsNext ==
  ASSUME NEW S \in SUBSET Part, S # {}, NEW b \in Nat, \A p \in S : p.ts < b, NextTs(S) # 0
  PROVE  NextTs(S) <= b /\ \A q \in S \ Selection(S) : NextTs(S) <= q.ts
<1> DEFINE rest == S \ Selection(S)
<1>1. CASE rest = {}
  <2>1. Last(S) \in S BY LastIsLast DEF IsLast
  <2>2. NextTs(S) = Last(S).ts BY <1>1 DEF NextTs
  <2>3. Last(S).ts < b /\ Last(S).ts \in Nat BY <2>1 DEF Part
  <2> QED BY <1>1, <2>2, <2>3
<1>2. CASE rest # {}
  <2>1. rest \in SUBSET Part OBVIOUS
  <2>2. IsFirst(First(rest), rest) BY <2>1, <1>2, FirstIsFirst
  <2>3. NextTs(S) = First(rest).ts BY <1>2 DEF NextTs
  <2>4. First(rest).ts < b /\ First(rest).ts \in Nat BY <2>2 DEF Part, IsFirst
  <2> QED BY <2>2, <2>3, <2>4 DEF IsFirst
<1> QED BY <1>1, <1>2

\* The units of time that parts take fit between the first one and any time
\* after the last one.
LEMMA PartsFit ==
  ASSUME NEW S \in SUBSET Part, IsFiniteSet(S), S # {}, \A p, q \in S : p.ts = q.ts => p = q,
         NEW c \in Nat, \A p \in S : p.ts < c
  PROVE  First(S).ts + Cardinality(S) <= c
<1> DEFINE b == First(S).ts
           T == {p.ts : p \in S}
           f == [p \in S |-> p.ts]
           B == b .. c - 1
<1>1. IsFirst(First(S), S) BY FirstIsFirst
<1>2. b \in Nat /\ b < c /\ \A p \in S : p.ts \in Nat /\ b <= p.ts
  BY <1>1 DEF IsFirst, Part
<1> HIDE DEF b
<1>3. f \in Bijection(S, T) BY DEF Bijection, Injection, Surjection, IsInjective
<1>4. ExistsBijection(S, T) BY <1>3 DEF ExistsBijection
<1>5. IsFiniteSet(T) /\ Cardinality(T) = Cardinality(S) BY <1>4, FS_Bijection
<1>6. T \subseteq B BY <1>2
<1>7. IsFiniteSet(B) /\ Cardinality(B) = c - b
  <2>1. IsFiniteSet(B) /\ Cardinality(B) = IF b > c - 1 THEN 0 ELSE (c - 1) - b + 1
    BY <1>2, FS_Interval
  <2>2. ~(b > c - 1) /\ (c - 1) - b + 1 = c - b BY <1>2
  <2> QED BY <2>1, <2>2
<1>8. Cardinality(T) <= Cardinality(B) BY <1>6, <1>7, FS_Subset
<1>9. Cardinality(T) \in Nat BY <1>5, FS_CardinalityType
<1> HIDE DEF T, B, f
<1>10. b + Cardinality(S) <= c BY <1>2, <1>5, <1>7, <1>8, <1>9
<1> QED BY <1>10 DEF b

\* Steps that write no output: what is left does not grow, and an output at
\* work stays so.
LEMMA QuietStep ==
  ASSUME OnceInv, UNCHANGED <<now, media, recorded>>, NextInv',
         \A d \in Dirs : Left(d)' \subseteq Left(d),
         \A d \in Dirs : AtWork(d) => AtWork(d)' /\ \A o : IsCurrent(o) => IsCurrent(o)'
  PROVE  OnceInv'
<1>1. \A d \in Dirs : \A o : Done(d, o) => Done(d, o)' BY DEF Done
<1>2. \A d \in Dirs : \A o \in media[d] : Done(d, o)' \/ (AtWork(d)' /\ IsCurrent(o)')
  BY <1>1 DEF OnceInv
<1>3. \A d \in Dirs : media'[d] = media[d] OBVIOUS
<1>4. \A d \in Dirs : \A o \in media'[d] : Done(d, o)' \/ (AtWork(d)' /\ IsCurrent(o)')
  BY <1>2, <1>3
<1>5. now' >= 1 /\ \A d \in Dirs : \A p \in recorded'[d] : p.ts >= 1 BY DEF OnceInv
<1>6. \A d \in Dirs : \A a, b \in media'[d] : a # b => Apart(a, b) BY <1>3 DEF OnceInv
<1> QED BY <1>4, <1>5, <1>6 DEF OnceInv, Apart

\* The outputs that are done come before the first part of the selection.
LEMMA DoneIsBefore ==
  ASSUME Inv, OnceInv, thread.pc \in {"join", "joining", "rename"}, NEW o \in media[Here],
         Done(Here, o)
  PROVE  /\ Begin \in Nat /\ o.begin < Begin /\ (o.end <= Begin \/ TooLong(o)) /\ o.end # 0
         /\ o.has \cap thread.sel = {}
<1>1. Here \in Dirs /\ thread.sel \subseteq parts[Here] /\ thread.sel # {}
  BY DEF Inv, ThreadInv, Working
<1>2. Left(Here) = parts[Here] BY DEF Left
<1>3. Begin \in Nat /\ First(thread.sel) \in thread.sel BY <1>1, BeginIsFirst DEF Inv, IsFirst
<1>4. First(thread.sel) \in Left(Here) BY <1>1, <1>2, <1>3
<1>5. o.begin < Begin /\ (o.end <= Begin \/ TooLong(o)) /\ o.end # 0 BY <1>4 DEF Done, Begin
<1>6. o.has \cap thread.sel = {} BY <1>1, <1>2 DEF Done
<1> QED BY <1>3, <1>5, <1>6

\* Steps that write the output of the selection, or remove it: 'new' is what
\* becomes of it.
LEMMA WriteStep ==
  ASSUME Inv, OnceInv, thread.pc \in {"join", "joining", "rename"},
         thread'.pc \in {"joining", "rename", "consume"},
         thread'.dir = thread.dir, thread'.sel = thread.sel, thread'.next = thread.next,
         UNCHANGED <<now, parts, recorded>>, NextInv',
         \A d \in Dirs \ {Here} : media'[d] = media[d],
         NEW new, new.begin = Begin, new.has \subseteq thread.sel,
         \A o \in media'[Here] :
           \/ o \in media[Here] /\ Done(Here, o)
           \/ o = new /\ (Done(Here, new)' \/ (thread'.pc # "consume" /\ IsCurrent(new)'))
  PROVE  OnceInv'
<1>1. Here \in Dirs /\ thread.sel \subseteq parts[Here] BY DEF Inv, ThreadInv, Working
<1>2. Here' = Here /\ \A d \in Dirs : parts'[d] = parts[d] BY DEF Here
<1>3. \A d \in Dirs : Left(d)' \subseteq Left(d) /\ (d # Here => ~AtWork(d))
  BY <1>2 DEF Left, AtWork
<1>4. \A d \in Dirs : \A o : Done(d, o) => Done(d, o)' BY <1>3 DEF Done
<1>5. ASSUME NEW d \in Dirs, NEW o \in media'[d] PROVE Done(d, o)' \/ (AtWork(d)' /\ IsCurrent(o)')
  <2>1. CASE d = Here BY <1>2, <1>4, <1>5, <2>1 DEF AtWork
  <2>2. CASE d # Here
    <3>1. o \in media[d] BY <1>5, <2>2
    <3>2. Done(d, o) BY <1>3, <2>2, <3>1 DEF OnceInv
    <3> QED BY <1>4, <3>2
  <2> QED BY <2>1, <2>2
<1>6. ASSUME NEW o \in media[Here], Done(Here, o) PROVE Apart(o, new) /\ Apart(new, o)
  <2>1. /\ Begin \in Nat /\ o.begin < Begin /\ (o.end <= Begin \/ TooLong(o))
        /\ o.has \cap thread.sel = {}
    BY <1>6, DoneIsBefore
  <2>2. o.begin \in Nat BY <1>1 DEF Inv, TypeOK, Output
  <2>3. o.has \cap new.has = {} BY <2>1
  <2>4. (o.end <= new.begin \/ TooLong(o)) /\ ~(new.begin <= o.begin) BY <2>1, <2>2
  <2> QED BY <2>3, <2>4 DEF Apart
<1>7. ASSUME NEW d \in Dirs, NEW a \in media'[d], NEW b \in media'[d], a # b PROVE Apart(a, b)
  <2>1. CASE d # Here BY <1>7, <2>1 DEF OnceInv
  <2>2. CASE d = Here
    <3>1. CASE a \in media[Here] /\ Done(Here, a) /\ b \in media[Here] /\ Done(Here, b)
      BY <1>1, <1>7, <3>1 DEF OnceInv
    <3>2. CASE a \in media[Here] /\ Done(Here, a) /\ b = new BY <1>6, <3>2
    <3>3. CASE a = new /\ b \in media[Here] /\ Done(Here, b) BY <1>6, <3>3
    <3>4. CASE a = new /\ b = new BY <1>7, <3>4
    <3> QED BY <1>7, <2>2, <3>1, <3>2, <3>3, <3>4
  <2> QED BY <2>1, <2>2
<1>8. now' >= 1 /\ \A d \in Dirs : \A p \in recorded'[d] : p.ts >= 1 BY DEF OnceInv
<1> QED BY <1>5, <1>7, <1>8 DEF OnceInv, Apart

\* The name that the end of a chunk gets.
LEMMA RenamedIsDone ==
  ASSUME Inv, OnceInv, thread.pc = "rename", NEW ms \in Nat
  PROVE  LET end == Begin + ms
         IN  /\ Begin \in Nat /\ Begin < now /\ end # 0
             /\ \A q \in parts[Here] \ thread.sel : Begin < q.ts
             /\ \/ ms > Cardinality(thread.sel)
                \/ end <= now /\ \A q \in parts[Here] \ thread.sel : end <= q.ts
<1>1. /\ Here \in Dirs /\ thread.sel \subseteq parts[Here] /\ thread.sel # {}
      /\ \A p \in thread.sel, q \in parts[Here] \ thread.sel : p.ts < q.ts
  BY DEF Inv, ThreadInv, Working
<1>2. /\ parts[Here] \subseteq recorded[Here] /\ IsFiniteSet(recorded[Here])
      /\ \A p \in recorded[Here] : p.ts < now /\ p \in Part /\ p.ts >= 1
      /\ \A p, q \in recorded[Here] : p.ts = q.ts => p = q
      /\ now \in Nat /\ thread.sel \in SUBSET Part
  BY <1>1 DEF Inv, FilesInv, TypeOK, OnceInv
<1>3. IsFiniteSet(thread.sel) /\ Cardinality(thread.sel) \in Nat
  <2>1. thread.sel \subseteq recorded[Here] BY <1>1, <1>2
  <2>2. IsFiniteSet(thread.sel) BY <1>2, <2>1, FS_Subset
  <2> QED BY <2>2, FS_CardinalityType
<1>4. Begin \in Nat /\ First(thread.sel) \in thread.sel BY <1>1, BeginIsFirst DEF Inv, IsFirst
<1>5. \A p, q \in thread.sel : p.ts = q.ts => p = q BY <1>1, <1>2
<1>6. Begin + Cardinality(thread.sel) <= now
  <2>1. \A p \in thread.sel : p.ts < now BY <1>1, <1>2
  <2> QED BY <1>1, <1>2, <1>3, <1>5, <2>1, PartsFit DEF Begin
<1>7. ASSUME NEW q \in parts[Here] \ thread.sel
      PROVE  /\ Begin < q.ts /\ q.ts \in Nat
             /\ Begin + Cardinality(thread.sel) <= q.ts
  <2>1. q.ts \in Nat /\ \A p \in thread.sel : p.ts < q.ts BY <1>1, <1>2 DEF Part
  <2>2. Begin + Cardinality(thread.sel) <= q.ts
    BY <1>1, <1>2, <1>3, <1>5, <2>1, PartsFit DEF Begin
  <2>3. Begin < q.ts BY <1>4, <2>1 DEF Begin
  <2> QED BY <2>1, <2>2, <2>3
<1>8. Begin < now /\ Begin >= 1 BY <1>1, <1>2, <1>4 DEF Begin
<1> DEFINE count == Cardinality(thread.sel)
<1>9. count \in Nat /\ Begin + count <= now
      /\ \A q \in parts[Here] \ thread.sel : q.ts \in Nat /\ Begin + count <= q.ts
  BY <1>3, <1>6, <1>7
<1> HIDE DEF count
<1>10. Begin + ms # 0 BY <1>4, <1>8
<1>11. CASE ms > count BY <1>4, <1>7, <1>8, <1>10, <1>11 DEF count
<1>12. CASE ms <= count
  <2>1. Begin + ms <= now BY <1>2, <1>4, <1>9, <1>12
  <2>2. \A q \in parts[Here] \ thread.sel : Begin + ms <= q.ts BY <1>4, <1>9, <1>12
  <2> QED BY <1>4, <1>7, <1>8, <1>10, <2>1, <2>2
<1> QED BY <1>9, <1>11, <1>12

\* A step of a run that nothing disturbs.
LEMMA OnceStep ==
  ASSUME Inv, OnceInv, [Next]_pvars, ~disturbed'
  PROVE  OnceInv'
<1> DEFINE At == {"joining", "rename", "consume"}
<1>1. ASSUME UNCHANGED <<now, parts, media, recorded>>, thread.pc \notin At, thread'.pc \notin At,
             thread'.pc # "join"
      PROVE  OnceInv'
  <2>1. \A d \in Dirs : Left(d)' \subseteq Left(d) /\ ~AtWork(d) BY <1>1 DEF Left, AtWork
  <2>2. NextInv' BY <1>1 DEF NextInv
  <2> QED BY <1>1, <2>1, <2>2, QuietStep
<1>2. CASE ListDirs BY <1>1, <1>2 DEF ListDirs, Inv, TypeOK
<1>3. CASE NextDir BY <1>1, <1>3 DEF NextDir, Goto, Inv, TypeOK
<1>4. CASE Choose
  <2>1. CASE Goto("dirs") BY <1>1, <1>4, <2>1 DEF Choose, Goto, Inv, TypeOK
  <2>2. CASE Processable(parts[Here]) /\
             thread' = [thread EXCEPT !.pc = "join", !.sel = Selection(parts[Here]),
                                      !.next = NextTs(parts[Here])]
    <3>1. /\ Here \in Dirs /\ thread.pc = "once" /\ UNCHANGED <<now, parts, media, recorded>>
      BY <1>4 DEF Choose, Inv, ThreadInv
    <3>2. parts[Here] \in SUBSET Part /\ parts[Here] # {} /\ now \in Nat
          /\ \A p \in parts[Here] : p.ts < now
      BY <2>2, <3>1 DEF Inv, TypeOK, FilesInv, Processable
    <3>3. /\ thread'.pc = "join" /\ Here' = Here
          /\ thread'.sel = Selection(parts[Here]) /\ thread'.next = NextTs(parts[Here])
      BY <2>2 DEF Inv, TypeOK, Here
    <3>4. NextInv' BY <3>1, <3>2, <3>3, NextTsIsNext DEF NextInv
    <3>5. \A d \in Dirs : Left(d)' \subseteq Left(d) /\ ~AtWork(d)
      BY <3>1, <3>3 DEF Left, AtWork
    <3> QED BY <3>1, <3>4, <3>5, QuietStep
  <2> QED BY <1>4, <2>1, <2>2 DEF Choose
<1>5. CASE JoinBegins
  <2> DEFINE new == [begin |-> Begin, end |-> thread.next, has |-> {}, ms |-> 0,
                 whole |-> FALSE]
  <2>1. /\ thread.pc = "join" /\ thread'.pc = "joining" /\ thread'.dir = thread.dir
        /\ thread'.sel = thread.sel /\ thread'.next = thread.next
        /\ UNCHANGED <<now, parts, recorded>>
    BY <1>5 DEF JoinBegins, Goto, Inv, TypeOK
  <2>2. Here \in Dirs BY <2>1 DEF Inv, ThreadInv, Working
  <2>3. media'[Here] = Without(Begin, thread.next) \cup {new}
        /\ \A d \in Dirs \ {Here} : media'[d] = media[d]
    BY <1>5, <2>2 DEF JoinBegins, Inv, TypeOK
  <2>4. NextInv' BY <2>1 DEF NextInv, OnceInv, Here
  <2>5. Begin' = Begin BY <2>1 DEF Begin
  <2>6. PICK x : x = new OBVIOUS
  <2>7. x.begin = Begin /\ x.end = thread.next /\ x.has = {} /\ x.whole = FALSE BY <2>6
  <2> HIDE DEF new
  <2>8. IsCurrent(x)' BY <2>1, <2>5, <2>7 DEF IsCurrent, Named
  <2>9. \A o \in media[Here] : Done(Here, o) BY <2>1, <2>2 DEF OnceInv, AtWork
  <2>10. \A o \in media'[Here] : (o \in media[Here] /\ Done(Here, o)) \/ o = x
    BY <2>3, <2>6, <2>9 DEF Without
  <2> QED BY <2>1, <2>3, <2>4, <2>7, <2>8, <2>10, WriteStep
<1>6. CASE JoinEnds
  <2>0. PICK ms \in Lengths : media' = [media EXCEPT ![Here] = Without(Begin, thread.next) \cup
          {[begin |-> Begin, end |-> thread.next, has |-> thread.sel, ms |-> ms,
            whole |-> TRUE]}]
    BY <1>6 DEF JoinEnds
  <2> DEFINE new == [begin |-> Begin, end |-> thread.next, has |-> thread.sel, ms |-> ms,
                     whole |-> TRUE]
  <2>1. /\ thread.pc = "joining" /\ thread'.dir = thread.dir
        /\ thread'.pc = IF thread.next = 0 THEN "rename" ELSE "consume"
        /\ thread'.sel = thread.sel /\ thread'.next = thread.next
        /\ UNCHANGED <<now, parts, recorded>>
    BY <1>6 DEF JoinEnds, Goto, Inv, TypeOK
  <2>2. /\ Here \in Dirs /\ Here' = Here /\ thread.sel # {} /\ thread.sel \subseteq parts[Here]
        /\ \A p \in thread.sel, q \in parts[Here] \ thread.sel : p.ts < q.ts
    BY <2>1 DEF Inv, ThreadInv, Working, Here
  <2>3. media'[Here] = Without(Begin, thread.next) \cup {new}
        /\ \A d \in Dirs \ {Here} : media'[d] = media[d]
    BY <2>0, <2>2 DEF Inv, TypeOK
  <2>4. NextInv' BY <2>1 DEF NextInv
  <2>5. Begin' = Begin BY <2>1 DEF Begin
  <2>6. PICK x : x = new OBVIOUS
  <2>7. x.whole = TRUE /\ x.end = thread.next /\ x.begin = Begin /\ x.has = thread.sel BY <2>6
  <2>8. thread.next = 0 => IsCurrent(x)' BY <2>1, <2>5, <2>7 DEF IsCurrent, Named
  <2>9. \A o \in media'[Here] : (o \in media[Here] /\ Done(Here, o)) \/ o = x
    <3>1. \A o \in media[Here] : Done(Here, o) \/ Named(o, Begin, thread.next)
      BY <2>2 DEF OnceInv, IsCurrent
    <3> HIDE DEF new
    <3> QED BY <2>3, <2>6, <3>1 DEF Without
  <2> HIDE DEF new
  <2>10. thread.next # 0 => Done(Here, x)'
    <3> SUFFICES ASSUME thread.next # 0 PROVE Done(Here, x)' OBVIOUS
    <3>1. Left(Here)' = parts[Here] \ thread.sel BY <2>1, <2>2 DEF Left, Here
    <3>2. thread.next <= now /\ \A q \in parts[Here] \ thread.sel : thread.next <= q.ts
      BY <2>1 DEF OnceInv, NextInv
    <3>3. First(thread.sel) \in thread.sel BY <2>2, BeginIsFirst DEF Inv, IsFirst
    <3>4. Begin < now BY <2>2, <3>3 DEF Inv, FilesInv, Begin
    <3>5. \A q \in parts[Here] \ thread.sel : Begin < q.ts BY <2>2, <3>3 DEF Begin
    <3>6. \A q \in Left(Here)' : x.begin < q.ts /\ x.end <= q.ts /\ q \notin x.has
      BY <2>7, <3>1, <3>2, <3>5
    <3>7. x.whole /\ x.end # 0 /\ x.begin < now' /\ x.end <= now'
      BY <2>1, <2>7, <3>2, <3>4
    <3> QED BY <2>2, <3>6, <3>7 DEF Done
  <2>11. thread'.pc \in {"rename", "consume"} /\ (thread'.pc = "consume" => thread.next # 0)
    BY <2>1
  <2>12. Done(Here, x)' \/ (thread'.pc # "consume" /\ IsCurrent(x)')
    <3>1. CASE thread.next = 0 BY <2>1, <2>8, <3>1
    <3>2. CASE thread.next # 0 BY <2>10, <3>2
    <3> QED BY <3>1, <3>2
  <2>13. x.has \subseteq thread.sel BY <2>7
  <2> QED BY <2>1, <2>3, <2>4, <2>7, <2>9, <2>11, <2>12, <2>13, WriteStep
<1>7. CASE JoinIsEmpty
  <2>1. /\ thread.pc = "joining" /\ thread'.dir = thread.dir /\ thread'.pc = "consume"
        /\ thread'.sel = thread.sel /\ thread'.next = thread.next
        /\ UNCHANGED <<now, parts, recorded>>
    BY <1>7 DEF JoinIsEmpty, Goto, Inv, TypeOK
  <2>2. Here \in Dirs BY <2>1 DEF Inv, ThreadInv, Working
  <2>3. media'[Here] = Without(Begin, thread.next)
        /\ \A d \in Dirs \ {Here} : media'[d] = media[d]
    BY <1>7, <2>2 DEF JoinIsEmpty, Inv, TypeOK
  <2>4. NextInv' BY <2>1 DEF NextInv
  <2>5. \A o \in media'[Here] : o \in media[Here] /\ Done(Here, o)
    <3>1. \A o \in media[Here] : Done(Here, o) \/ Named(o, Begin, thread.next)
      BY <2>2 DEF OnceInv, IsCurrent
    <3> QED BY <2>3, <3>1 DEF Without
  <2> DEFINE new == [begin |-> Begin, has |-> {}]
  <2>6. new.begin = Begin /\ new.has \subseteq thread.sel OBVIOUS
  <2> HIDE DEF new
  <2> QED BY <2>1, <2>3, <2>4, <2>5, <2>6, WriteStep
<1>8. CASE JoinFails BY <1>8 DEF JoinFails
<1>9. CASE Rename
  <2> DEFINE Movable(o) == /\ Named(o, Begin, 0)
                           /\ \A p \in media[Here] : ~Named(p, Begin, Begin + o.ms)
             moved == {o \in media[Here] : Movable(o)}
             named == {[o EXCEPT !.end = Begin + o.ms] : o \in moved}
  <2>1. /\ thread.pc = "rename" /\ thread'.dir = thread.dir /\ thread'.pc = "consume"
        /\ thread'.sel = thread.sel /\ thread'.next = thread.next
        /\ UNCHANGED <<now, parts, recorded>>
    BY <1>9 DEF Rename, Goto, Inv, TypeOK
  <2>2. Here \in Dirs /\ Here' = Here /\ thread.next = 0 /\ thread.sel # {}
    BY <2>1 DEF Inv, ThreadInv, Working, OnceInv, NextInv, Here
  <2>3. \A o \in media[Here] : (Done(Here, o) /\ o.begin < Begin) \/ IsCurrent(o)
    BY <2>1, <2>2, DoneIsBefore DEF OnceInv
  <2>4. Begin \in Nat BY <2>1, <2>2, RenamedIsDone
  <2>5. \A o \in media[Here] : o.begin = Begin => IsCurrent(o) BY <2>3, <2>4
  <2>6. \A o \in media[Here] :
          IsCurrent(o) => /\ o.begin = Begin /\ o.end = 0 /\ o.has = thread.sel /\ o.whole
                          /\ o.ms \in Nat
    BY <2>1, <2>2 DEF IsCurrent, Named, Inv, TypeOK, Output
  <2>7. \A a, b \in media[Here] : IsCurrent(a) /\ IsCurrent(b) => a = b
    <3> SUFFICES ASSUME NEW a \in media[Here], NEW b \in media[Here], IsCurrent(a), IsCurrent(b),
                        a # b
                 PROVE  FALSE
      OBVIOUS
    <3>1. a.has \cap b.has = {} BY <2>2 DEF OnceInv, Apart
    <3>2. a.has = thread.sel /\ b.has = thread.sel BY <2>6
    <3> QED BY <2>2, <3>1, <3>2
  <2>8. media'[Here] = (media[Here] \ moved) \cup named
        /\ \A d \in Dirs \ {Here} : media'[d] = media[d]
    <3>1. media' = [media EXCEPT ![Here] = (media[Here] \ moved) \cup named] BY <1>9 DEF Rename
    <3> HIDE DEF moved, named
    <3> QED BY <2>2, <3>1 DEF Inv, TypeOK
  <2>9. \A o \in media[Here] : o \in moved <=> IsCurrent(o)
    <3>1. ASSUME NEW o \in media[Here], IsCurrent(o) PROVE Movable(o)
      <4>1. Named(o, Begin, 0) BY <2>6, <3>1 DEF Named
      <4>2. ASSUME NEW p \in media[Here], Named(p, Begin, Begin + o.ms) PROVE FALSE
        <5>1. p.end = 0 /\ p.end = Begin + o.ms BY <2>5, <2>6, <4>2 DEF Named
        <5>2. o.ms \in Nat BY <2>6, <3>1
        <5>3. Begin + o.ms # 0 BY <2>1, <5>2, RenamedIsDone
        <5> QED BY <5>1, <5>3
      <4> QED BY <4>1, <4>2
    <3>2. ASSUME NEW o \in media[Here], Movable(o) PROVE IsCurrent(o)
      BY <2>5, <3>2 DEF Named
    <3> HIDE DEF Movable
    <3> QED BY <3>1, <3>2
  <2> HIDE DEF moved
  <2>10. ASSUME NEW o \in media[Here], IsCurrent(o),
                NEW x, x = [o EXCEPT !.end = Begin + o.ms]
         PROVE  Done(Here, x)' /\ x.begin = Begin /\ x.has \subseteq thread.sel
    <3>1. o.ms \in Nat /\ o \in Output BY <2>2, <2>10 DEF Inv, TypeOK, Output
    <3>2. /\ x.begin = o.begin /\ x.has = o.has /\ x.whole = o.whole /\ x.ms = o.ms
          /\ x.end = Begin + o.ms
      BY <2>10, <3>1 DEF Output
    <3>3. x.begin = Begin /\ x.has = thread.sel /\ x.whole BY <2>6, <2>10, <3>2
    <3>4. Left(Here)' = parts[Here] \ thread.sel BY <2>1, <2>2 DEF Left, Here
    <3>5. Begin < now /\ Begin + o.ms # 0
          /\ \A q \in parts[Here] \ thread.sel : Begin < q.ts
      BY <2>1, <3>1, RenamedIsDone
    <3>6. TooLong(x) \/ (/\ Begin + o.ms <= now
                        /\ \A q \in parts[Here] \ thread.sel : Begin + o.ms <= q.ts)
      <4>1. CASE o.ms > Cardinality(thread.sel) BY <3>2, <3>3, <4>1 DEF TooLong
      <4>2. CASE ~(o.ms > Cardinality(thread.sel)) BY <2>1, <3>1, <4>2, RenamedIsDone
      <4> QED BY <4>1, <4>2
    <3>7. x.whole /\ x.end # 0 /\ x.begin < now' BY <2>1, <3>2, <3>3, <3>5
    <3>8. \A q \in Left(Here)' : x.begin < q.ts /\ q \notin x.has BY <3>3, <3>4, <3>5
    <3>9. TooLong(x) \/ (x.end <= now' /\ \A q \in Left(Here)' : x.end <= q.ts)
      BY <2>1, <3>2, <3>4, <3>6
    <3>10. Done(Here, x)' BY <2>2, <3>7, <3>8, <3>9 DEF Done
    <3> QED BY <3>3, <3>10
  <2>11. NextInv' BY <2>1 DEF NextInv
  <2>12. CASE \E o \in media[Here] : IsCurrent(o)
    <3>1. PICK o \in media[Here] : IsCurrent(o) BY <2>12
    <3>2. PICK x : x = [o EXCEPT !.end = Begin + o.ms] OBVIOUS
    <3>3. Done(Here, x)' /\ x.begin = Begin /\ x.has \subseteq thread.sel BY <2>10, <3>1, <3>2
    <3>4. moved = {o} BY <2>7, <2>9, <3>1 DEF moved
    <3>5. named = {x} BY <3>2, <3>4
    <3>6. \A y \in media'[Here] : (y \in media[Here] /\ Done(Here, y)) \/ y = x
      BY <2>3, <2>7, <2>8, <3>1, <3>4, <3>5
    <3> QED BY <2>1, <2>8, <2>11, <3>3, <3>6, WriteStep
  <2>13. CASE ~ \E o \in media[Here] : IsCurrent(o)
    <3>1. moved = {} BY <2>9, <2>13 DEF moved
    <3>2. media'[Here] = media[Here] BY <2>8, <3>1
    <3>3. \A o \in media'[Here] : o \in media[Here] /\ Done(Here, o) BY <2>3, <2>13, <3>2
    <3> DEFINE new == [begin |-> Begin, has |-> {}]
    <3>4. PICK x : x = new OBVIOUS
    <3>5. x.begin = Begin /\ x.has \subseteq thread.sel BY <3>4
    <3> QED BY <2>1, <2>8, <2>11, <3>3, <3>5, WriteStep
  <2> QED BY <2>12, <2>13
<1>10. CASE Consume
  <2>1. thread.pc = "consume" /\ UNCHANGED <<now, media, recorded>> BY <1>10 DEF Consume
  <2>2. Here \in Dirs /\ thread.sel \subseteq parts[Here] BY <2>1 DEF Inv, ThreadInv, Working
  <2>3. \A d \in Dirs : ~AtWork(d) BY <2>1 DEF AtWork
  <2>4. CASE \E p \in thread.sel : /\ parts' = [parts EXCEPT ![Here] = @ \ {p}]
                                   /\ thread' = [thread EXCEPT !.sel = @ \ {p}]
    <3>1. PICK p \in thread.sel : /\ parts' = [parts EXCEPT ![Here] = @ \ {p}]
                                  /\ thread' = [thread EXCEPT !.sel = @ \ {p}]
      BY <2>4
    <3>2. thread'.pc = "consume" /\ thread'.sel = thread.sel \ {p} /\ Here' = Here
      BY <2>1, <3>1 DEF Inv, TypeOK, Here
    <3>3. \A d \in Dirs : parts'[d] = IF d = Here THEN parts[d] \ {p} ELSE parts[d]
      BY <2>2, <3>1 DEF Inv, TypeOK
    <3>4. \A d \in Dirs : Left(d)' \subseteq Left(d) BY <2>1, <3>2, <3>3 DEF Left
    <3>5. NextInv' BY <3>2 DEF NextInv
    <3> QED BY <2>1, <2>3, <3>4, <3>5, QuietStep
  <2>5. CASE thread.sel = {} /\ Goto("once") /\ UNCHANGED parts
    <3>1. thread'.pc = "once" BY <2>5 DEF Goto, Inv, TypeOK
    <3>2. \A d \in Dirs : Left(d)' \subseteq Left(d) BY <2>1, <2>5, <3>1 DEF Left
    <3>3. NextInv' BY <3>1 DEF NextInv
    <3> QED BY <2>1, <2>3, <3>2, <3>3, QuietStep
  <2> QED BY <1>10, <2>4, <2>5 DEF Consume
<1>11. CASE Wait BY <1>1, <1>11 DEF Wait, Goto, Idle, Inv, TypeOK
<1>12. CASE Start BY <1>1, <1>12 DEF Start, Idle
<1>13. CASE Crash BY <1>13 DEF Crash
<1>14. CASE Stop \/ UNCHANGED pvars
  <2>1. UNCHANGED <<now, parts, media, recorded, thread>> BY <1>14 DEF Stop, pvars
  <2>2. NextInv' BY <2>1 DEF OnceInv, NextInv, Here
  <2>3. \A d \in Dirs : /\ Left(d)' \subseteq Left(d)
                        /\ AtWork(d) => AtWork(d)' /\ \A o : IsCurrent(o) => IsCurrent(o)'
    BY <2>1 DEF Left, AtWork, IsCurrent, Begin, Here
  <2> QED BY <2>1, <2>2, <2>3, QuietStep
<1>15. CASE Tick
  <2>1. PICK saved \in [Dirs -> SUBSET Part] : SavesOnce(saved) BY <1>15, TickSaves DEF Inv
  <2>2. UNCHANGED <<thread, media>> /\ now' = now + 1 /\ now \in Nat /\ now >= 1
    BY <1>15 DEF Tick, Inv, TypeOK, OnceInv
  <2>3. \A d \in Dirs : /\ parts'[d] = parts[d] \cup saved[d]
                        /\ recorded'[d] = recorded[d] \cup saved[d]
                        /\ \A q \in saved[d] : q.ts = now
    BY <2>1 DEF SavesOnce
  <2>4. ASSUME NEW d \in Dirs, NEW o \in media[d], Done(d, o) PROVE Done(d, o)'
    <3>0. o.begin < now /\ o.begin \in Nat /\ o.end \in Nat
      BY <2>4 DEF Done, Inv, TypeOK, Output
    <3>1. \A q \in Left(d)' : q \in Left(d) \/ q.ts = now
      BY <2>2, <2>3 DEF Left, Here
    <3>2. \A q \in o.has : q.ts < now /\ q.ts \in Nat
      BY DEF Inv, FilesInv, Contained, TypeOK, Part
    <3>3. \A q \in Left(d)' : o.begin < q.ts /\ q \notin o.has
      BY <2>2, <2>4, <3>0, <3>1, <3>2 DEF Done
    <3>4. TooLong(o) \/ (o.end <= now' /\ \A q \in Left(d)' : o.end <= q.ts)
      BY <2>2, <2>4, <3>0, <3>1 DEF Done
    <3>5. o.begin < now' BY <2>2, <3>0
    <3> QED BY <2>4, <3>3, <3>4, <3>5 DEF Done
  <2>5. \A d \in Dirs : AtWork(d) => AtWork(d)' /\ \A o : IsCurrent(o) => IsCurrent(o)'
    BY <2>2 DEF AtWork, IsCurrent, Begin, Here
  <2>6. \A d \in Dirs : \A o \in media'[d] : Done(d, o)' \/ (AtWork(d)' /\ IsCurrent(o)')
    BY <2>2, <2>4, <2>5 DEF OnceInv
  <2>7. \A d \in Dirs : \A p \in recorded'[d] : p.ts >= 1
    BY <2>2, <2>3 DEF OnceInv
  <2>8. NextInv'
    <3>1. thread.pc \in {"join", "joining"} => Here \in Dirs BY DEF Inv, ThreadInv, Working
    <3>2. thread.next \in Nat BY DEF Inv, TypeOK
    <3> QED BY <2>2, <2>3, <3>1, <3>2 DEF OnceInv, NextInv, Here
  <2>9. \A d \in Dirs : \A a, b \in media'[d] : a # b => Apart(a, b) BY <2>2 DEF OnceInv
  <2>10. now' >= 1 BY <2>2
  <2> QED BY <2>6, <2>7, <2>8, <2>9, <2>10 DEF OnceInv, Apart
<1> QED
  BY <1>2, <1>3, <1>4, <1>5, <1>6, <1>7, <1>8, <1>9, <1>10, <1>11, <1>12, <1>13, <1>14, <1>15
  DEF Next, ThreadStep

\* As long as nothing has gone wrong, the outputs are as they should be.
THEOREM OnceInvariance == Spec => [](~disturbed => OnceInv)
<1>1. Init => (~disturbed => OnceInv)
  BY DEF Init, OnceInv, NextInv, Idle
<1>2. disturbed => disturbed' \/ ~[Next]_pvars
  BY DEF Next, ThreadStep, ListDirs, NextDir, Choose, JoinBegins, JoinEnds, JoinIsEmpty, JoinFails,
         Rename, Consume, Wait, Start, Stop, Crash, Tick, pvars
<1>3. Inv /\ (~disturbed => OnceInv) /\ [Next]_pvars => (~disturbed => OnceInv)'
  BY <1>2, OnceStep
<1> QED BY <1>1, <1>3, Invariance, PTL DEF Spec

\* Without crashes and failures a part is in one output, and between two scans
\* every output is whole and has its name.
THEOREM PartsAreComposedOnce == Spec => []ComposedOnce
<1>1. (~disturbed => OnceInv) => ComposedOnce
  <2> SUFFICES ASSUME OnceInv, NEW d \in Dirs
               PROVE  /\ \A a, b \in media[d] : a # b => a.has \cap b.has = {}
                      /\ thread.pc \in {"off", "list", "wait"} =>
                           \A o \in media[d] : o.whole /\ o.end # 0
    BY DEF ComposedOnce
  <2>1. \A a, b \in media[d] : a # b => a.has \cap b.has = {} BY DEF OnceInv, Apart
  <2>2. thread.pc \in {"off", "list", "wait"} => \A o \in media[d] : o.whole /\ o.end # 0
    BY DEF OnceInv, Done, AtWork
  <2> QED BY <2>1, <2>2
<1> QED BY <1>1, OnceInvariance, PTL

\* Whatever lengths the compositions have, and however many there are: the ranges
\* in the names of two outputs do not overlap, unless the first is one that was
\* named by its length and is longer than the time of its parts.
THEOREM RangesStayDisjoint == Spec => []RangesAreDisjoint
<1>1. (~disturbed => OnceInv) => RangesAreDisjoint BY DEF OnceInv, Apart, RangesAreDisjoint
<1> QED BY <1>1, OnceInvariance, PTL
=============================================================================
