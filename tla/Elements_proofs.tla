---------------------------- MODULE Elements_proofs ----------------------------
(***************************************************************************)
(* Theorems about the elements, policies and authorizers of Elements.      *)
(* Each has an inductive invariant of its own, which it keeps while it is   *)
(* active; the theorems about Spec follow from these invariants.            *)
(***************************************************************************)
EXTENDS Elements, FiniteSetTheorems, TLAPS

-----------------------------------------------------------------------------
(* Sets, least elements and folds.                                         *)

\* A set of naturals has a least one.
LEMMA LeastOf ==
  ASSUME NEW S \in SUBSET Nat, S # {}
  PROVE  \E i \in S : \A j \in S : i <= j
<1> DEFINE R == OpToRel(<, Nat)
<1>1. IsWellFoundedOn(R, Nat) BY NatLessThanWellFounded
<1>2. \A i, j \in Nat : i < j => <<i, j>> \in R BY DEF OpToRel
<1> HIDE DEF R
<1>3. PICK i \in S : \A j \in S : ~(<<j, i>> \in R) BY <1>1, WFMin
<1>4. \A j \in S : i <= j
  <2> TAKE j \in S
  <2>1. i \in Nat /\ j \in Nat OBVIOUS
  <2>2. ~(j < i) BY <1>2, <1>3, <2>1
  <2> QED BY <2>1, <2>2
<1> QED BY <1>4

\* The element that is taken out of a set, and what is done with it.
First(T) == CHOOSE x \in T : TRUE
\* What the fold makes of a subset, from what it made of the one before.
Folded(S, a, G, f, T) == IF T = {} THEN a ELSE G[<<f[T \ {First(T)}], First(T)>>]

\* A set is larger by one than what remains of it.
LEMMA FirstOf ==
  ASSUME NEW S, IsFiniteSet(S), NEW T \in SUBSET S
  PROVE  /\ Cardinality(T) \in Nat
         /\ T # {} => /\ First(T) \in T /\ T \ {First(T)} \in SUBSET S
                      /\ Cardinality(T \ {First(T)}) \in Nat
                      /\ Cardinality(T) = Cardinality(T \ {First(T)}) + 1
<1>1. IsFiniteSet(T) /\ Cardinality(T) \in Nat BY FS_Subset, FS_CardinalityType
<1> SUFFICES ASSUME T # {}
             PROVE  /\ First(T) \in T /\ T \ {First(T)} \in SUBSET S
                    /\ Cardinality(T \ {First(T)}) \in Nat
                    /\ Cardinality(T) = Cardinality(T \ {First(T)}) + 1
  BY <1>1
<1>2. First(T) \in T BY DEF First
<1>3. IsFiniteSet(T \ {First(T)}) /\ Cardinality(T \ {First(T)}) = Cardinality(T) - 1
  BY <1>1, <1>2, FS_RemoveElement
<1>4. Cardinality(T \ {First(T)}) \in Nat BY <1>3, FS_CardinalityType
<1> QED BY <1>1, <1>2, <1>3, <1>4

\* What is done for every element of a set, one after the other, is well
\* defined.
LEMMA FoldExists ==
  ASSUME NEW S, IsFiniteSet(S), NEW a, NEW G
  PROVE  \E f : /\ f = [T \in SUBSET S |-> f[T]]
                /\ \A T \in SUBSET S : f[T] = Folded(S, a, G, f, T)
<1> DEFINE Good(k) == \E f : \A T \in SUBSET S : Cardinality(T) < k => f[T] = Folded(S, a, G, f, T)
           bad == {k \in Nat : ~Good(k)}
<1>1. bad = {}
  <2> SUFFICES ASSUME bad # {} PROVE FALSE OBVIOUS
  <2>1. PICK k \in bad : \A j \in bad : k <= j
    <3>1. bad \in SUBSET Nat OBVIOUS
    <3> HIDE DEF bad
    <3> QED BY <3>1, LeastOf
  <2>2. k \in Nat /\ ~Good(k) OBVIOUS
  <2>3. k # 0
    <3>1. Good(0)
      <4>1. ASSUME NEW T \in SUBSET S PROVE ~(Cardinality(T) < 0)
        <5>1. Cardinality(T) \in Nat BY FirstOf
        <5> QED BY <5>1
      <4> QED BY <4>1
    <3> HIDE DEF Good
    <3> QED BY <2>2, <3>1
  <2>4. Good(k - 1)
    <3>1. k - 1 \in Nat /\ ~(k <= k - 1) BY <2>2, <2>3
    <3> HIDE DEF Good
    <3> QED BY <2>1, <3>1
  <2>5. PICK f : \A T \in SUBSET S : Cardinality(T) < k - 1 => f[T] = Folded(S, a, G, f, T)
    BY <2>4
  <2> DEFINE g == [T \in SUBSET S |-> IF Cardinality(T) < k - 1 THEN f[T] ELSE Folded(S, a, G, f, T)]
  <2>6. ASSUME NEW T \in SUBSET S, Cardinality(T) < k PROVE g[T] = Folded(S, a, G, g, T)
    <3>1. g[T] = Folded(S, a, G, f, T) BY <2>5
    <3>2. T # {} => g[T \ {First(T)}] = f[T \ {First(T)}]
      <4> SUFFICES ASSUME T # {} PROVE g[T \ {First(T)}] = f[T \ {First(T)}] OBVIOUS
      <4>1. T \ {First(T)} \in SUBSET S /\ Cardinality(T \ {First(T)}) < k - 1
        BY <2>2, <2>6, FirstOf
      <4> QED BY <4>1
    <3> HIDE DEF g
    <3> QED BY <3>1, <3>2 DEF Folded
  <2>7. Good(k)
    <3> HIDE DEF g
    <3> QED BY <2>6
  <2> HIDE DEF Good
  <2> QED BY <2>2, <2>7
<1>2. Good(Cardinality(S) + 1)
  <2>1. Cardinality(S) + 1 \in Nat BY FS_CardinalityType
  <2> HIDE DEF Good
  <2> QED BY <1>1, <2>1
<1>3. PICK f : \A T \in SUBSET S : Cardinality(T) < Cardinality(S) + 1 => f[T] = Folded(S, a, G, f, T)
  BY <1>2
<1> DEFINE g == [T \in SUBSET S |-> f[T]]
<1>4. ASSUME NEW T \in SUBSET S PROVE g[T] = Folded(S, a, G, g, T)
  <2>1. Cardinality(T) < Cardinality(S) + 1 BY FS_Subset, FS_CardinalityType
  <2>2. g[T] = Folded(S, a, G, f, T) BY <1>3, <2>1
  <2>3. T # {} => g[T \ {First(T)}] = f[T \ {First(T)}] BY FirstOf
  <2> HIDE DEF g
  <2> QED BY <2>2, <2>3 DEF Folded
<1>5. g = [T \in SUBSET S |-> g[T]] OBVIOUS
<1> HIDE DEF g
<1> QED BY <1>4, <1>5


\* Induction over the subsets of a set, in the order in which it is taken apart.
LEMMA SetsByFirst ==
  ASSUME NEW S, IsFiniteSet(S), NEW P \in SUBSET SUBSET S, {} \in P,
         \A T \in SUBSET S : T # {} /\ T \ {First(T)} \in P => T \in P
  PROVE  S \in P
<1> DEFINE sizes == {n \in Nat : \E T \in SUBSET S : T \notin P /\ Cardinality(T) = n}
<1> SUFFICES ASSUME S \notin P PROVE FALSE OBVIOUS
<1>1. Cardinality(S) \in sizes BY FirstOf
<1>2. PICK n \in sizes : \A m \in sizes : n <= m
  <2>1. sizes \in SUBSET Nat OBVIOUS
  <2> HIDE DEF sizes
  <2> QED BY <1>1, <2>1, LeastOf
<1>3. PICK T \in SUBSET S : T \notin P /\ Cardinality(T) = n BY <1>2
<1>4. T # {} /\ T \ {First(T)} \in SUBSET S /\ T \ {First(T)} \notin P
      /\ Cardinality(T \ {First(T)}) \in Nat /\ Cardinality(T \ {First(T)}) < n
  <2>1. T # {} BY <1>3
  <2>2. /\ T \ {First(T)} \in SUBSET S /\ Cardinality(T \ {First(T)}) \in Nat /\ Cardinality(T) \in Nat
        /\ Cardinality(T) = Cardinality(T \ {First(T)}) + 1
    BY <2>1, FirstOf
  <2> QED BY <1>3, <2>1, <2>2
<1>5. Cardinality(T \ {First(T)}) \in sizes BY <1>4
<1> HIDE DEF sizes
<1>6. n <= Cardinality(T \ {First(T)}) BY <1>2, <1>5
<1>7. n \in Nat BY <1>3, FirstOf
<1> QED BY <1>4, <1>6, <1>7

\* What holds of nothing, and of a set when it holds of the rest of it, holds of
\* every subset.
LEMMA AllSubsets ==
  ASSUME NEW S, IsFiniteSet(S), NEW P \in SUBSET SUBSET S, {} \in P,
         \A T \in SUBSET S : T # {} /\ T \ {First(T)} \in P => T \in P
  PROVE  \A T \in SUBSET S : T \in P
<1> SUFFICES ASSUME NEW U \in SUBSET S PROVE U \in P OBVIOUS
<1> DEFINE Q == P \cap SUBSET U
<1>1. IsFiniteSet(U) BY FS_Subset
<1>2. /\ Q \in SUBSET SUBSET U /\ {} \in Q
      /\ \A T \in SUBSET U : T # {} /\ T \ {First(T)} \in Q => T \in Q
  OBVIOUS
<1> HIDE DEF Q
<1>3. U \in Q BY <1>1, <1>2, SetsByFirst
<1> QED BY <1>3 DEF Q

\* A function that does it, and sets that its steps keep to.
IsFold(S, a, G, f) ==
  f = [T \in SUBSET S |-> f[T]] /\ \A T \in SUBSET S : f[T] = Folded(S, a, G, f, T)
\* One step of the fold leads from the set of the smaller subset to that of
\* the larger one.
Keeps(S, a, G, I) ==
  /\ a \in I[{}]
  /\ \A T \in SUBSET S : T # {} => \A s \in I[T \ {First(T)}] : G[<<s, First(T)>>] \in I[T]

\* Where it leads, when each step keeps to what its set allows.
LEMMA FoldGoes ==
  ASSUME NEW S, IsFiniteSet(S), NEW a, NEW G, NEW I, Keeps(S, a, G, I)
  PROVE  \E f : IsFold(S, a, G, f) /\ \A T \in SUBSET S : f[T] \in I[T]
<1>1. PICK f : f = [T \in SUBSET S |-> f[T]] /\ \A T \in SUBSET S : f[T] = Folded(S, a, G, f, T)
  BY FoldExists
<1> DEFINE P == {T \in SUBSET S : f[T] \in I[T]}
<1>2. {} \in P
  <2>1. f[{}] = a BY <1>1 DEF Folded
  <2> QED BY <2>1 DEF Keeps
<1>3. ASSUME NEW T \in SUBSET S, T # {}, T \ {First(T)} \in P PROVE T \in P
  <2>1. f[T] = G[<<f[T \ {First(T)}], First(T)>>] BY <1>1, <1>3 DEF Folded
  <2> QED BY <1>3, <2>1 DEF Keeps
<1>4. P \in SUBSET SUBSET S OBVIOUS
<1> HIDE DEF P
<1>5. \A T \in SUBSET S : T \in P BY <1>2, <1>3, <1>4, AllSubsets
<1> QED BY <1>1, <1>5 DEF P, IsFold

\* A finite set has room in another one that is not smaller.
LEMMA RoomEnough ==
  ASSUME NEW S, NEW T, IsFiniteSet(S), IsFiniteSet(T), Cardinality(S) <= Cardinality(T)
  PROVE  \E f \in [S -> T] : \A x, y \in S : f[x] = f[y] => x = y
<1>1. PICK g \in Bijection(1 .. Cardinality(S), S) : TRUE BY FS_CardinalityType DEF ExistsBijection
<1>2. PICK h \in Bijection(1 .. Cardinality(T), T) : TRUE BY FS_CardinalityType DEF ExistsBijection
<1>3. Cardinality(S) \in Nat /\ Cardinality(T) \in Nat BY FS_CardinalityType
<1> DEFINE at(x) == CHOOSE i \in 1 .. Cardinality(S) : g[i] = x
           f == [x \in S |-> h[at(x)]]
<1>4. ASSUME NEW x \in S PROVE at(x) \in 1 .. Cardinality(S) /\ g[at(x)] = x
  <2>1. \E i \in 1 .. Cardinality(S) : g[i] = x BY <1>1 DEF Bijection, Surjection
  <2> QED BY <2>1
<1> HIDE DEF at
<1>5. 1 .. Cardinality(S) \subseteq 1 .. Cardinality(T) BY <1>3
<1>6. /\ h \in [1 .. Cardinality(T) -> T]
      /\ \A i, j \in 1 .. Cardinality(T) : h[i] = h[j] => i = j
  BY <1>2 DEF Bijection, Injection, IsInjective
<1>7. f \in [S -> T] BY <1>4, <1>5, <1>6
<1>8. ASSUME NEW x \in S, NEW y \in S, f[x] = f[y] PROVE x = y
  <2>1. at(x) = at(y) BY <1>4, <1>5, <1>6, <1>8
  <2> QED BY <1>4, <2>1
<1> QED BY <1>7, <1>8

\* What remains of a finite set without the values of a function.
LEMMA RoomWithout ==
  ASSUME NEW S, NEW T, NEW U, IsFiniteSet(S), IsFiniteSet(T), NEW f \in [S -> U]
  PROVE  LET free == T \ Range(f)
         IN  IsFiniteSet(free) /\ Cardinality(free) >= Cardinality(T) - Cardinality(S)
<1> DEFINE R == Range(f)
           free == T \ R
<1>1. f \in Surjection(S, R) BY DEF Surjection, Range
<1>2. IsFiniteSet(R) /\ Cardinality(R) <= Cardinality(S) BY <1>1, FS_Surjection
<1>3. IsFiniteSet(free) /\ Cardinality(free) = Cardinality(T) - Cardinality(T \cap R)
  BY FS_Difference
<1>4. Cardinality(T \cap R) <= Cardinality(R) /\ IsFiniteSet(T \cap R) BY <1>2, FS_Intersection
<1>5. Cardinality(S) \in Nat /\ Cardinality(T) \in Nat /\ Cardinality(R) \in Nat
      /\ Cardinality(T \cap R) \in Nat
  BY <1>2, <1>4, FS_CardinalityType
<1> QED BY <1>2, <1>3, <1>4, <1>5

-----------------------------------------------------------------------------
(* OsdAssociator.                                                          *)

\* A clip that is there differs from one that is not.
LEMMA ClipIsThere ==
  Osd!NoClip \notin Osd!Clip
<1> SUFFICES ASSUME Osd!NoClip \in Osd!Clip PROVE FALSE OBVIOUS
<1>1. DOMAIN Osd!NoClip = {"has", "clear"} BY DEF Osd!Clip
<1>2. "deleted" \in DOMAIN Osd!NoClip BY DEF Osd!NoClip
<1> QED BY <1>1, <1>2

\* Each media has its own clip, at its normal path, and there are no others.
ElemOK(e) ==
  /\ e \in Osd!Element
  /\ \A m \in OsdMedias : e.osds[m] # "NULL" => NormalizePath[m] = m
  /\ \A m \in OsdMedias : e.osds[m] # "NULL" => e.heap[e.osds[m]] \in Osd!Clip
  /\ \A m, n \in OsdMedias : e.osds[m] # "NULL" /\ e.osds[m] = e.osds[n] => m = n
  /\ \A o \in OsdObjects : e.heap[o] # Osd!NoClip => \E m \in OsdMedias : e.osds[m] = o

\* The overlay that a client that plays its media should show.
Wanted(e, c, id) ==
  IF \E m \in OsdMedias : c \in e.users[m] /\ m \in Osd!Having(e, id) THEN e.types[id] ELSE "none"

\* What an element knows of a client, and what the client shows, agree.
ClientOK(e, c, d) ==
  /\ d \in Osd!Client
  /\ \A m \in OsdMedias :
       /\ c \in e.users[m] => d.state = "open" /\ d.assoc[m] = e.osds[m]
       /\ c \notin e.users[m] => d.assoc[m] \in {"absent", "NULL"}
  /\ d.state = "open" /\ ~d.overlap =>
       /\ \A m, n \in OsdMedias : c \in e.users[m] /\ c \in e.users[n] => m = n
       /\ \A id \in OsdIds : Osd!Then(d.shown, d.pending)[id] = Wanted(e, c, id)
  /\ d.state = "eos" /\ ~d.overlap => \A id \in OsdIds : d.shown[id] # "none" => id \in d.stays

\* The state keeper has what the element knows.
Kept(st) ==
  /\ st.disk.types = st.elem.types
  /\ \A m \in OsdMedias :
       IF st.elem.osds[m] = "NULL" THEN st.disk.osds[m] = Osd!NoClip
       ELSE st.disk.osds[m] = [Osd!ClipOf(st.elem, m) EXCEPT !.has = @ \cup st.dropped[m]]

\* The states of an associator, its state keeper and its clients.
OsdState == [elem : Osd!Element, disk : Osd!FullState, clients : [OsdClients -> Osd!Client],
             dropped : [OsdMedias -> SUBSET OsdIds]]

\* The element, its clients and its state keeper are in order.
OsdOK(st) ==
  /\ st \in OsdState
  /\ ElemOK(st.elem) /\ Kept(st)
  /\ \A c \in OsdClients : ClientOK(st.elem, c, st.clients[c])

\* There is always room for one more clip.
LEMMA RoomForClip ==
  ASSUME NEW e, ElemOK(e)
  PROVE  \E o \in OsdObjects : e.heap[o] = Osd!NoClip
<1> DEFINE osds == e.osds
           free == OsdObjects \ Range(osds)
<1>1. osds \in [OsdMedias -> OsdObjects \cup {"NULL"}] BY DEF ElemOK, Osd!Element, Osd!NULL
<1> HIDE DEF osds
<1>2. IsFiniteSet(free) /\ Cardinality(free) >= Cardinality(OsdObjects) - Cardinality(OsdMedias)
  BY <1>1, RoomWithout, ElementsAssumption
<1>3. Cardinality(OsdObjects) \in Nat /\ Cardinality(OsdMedias) \in Nat /\ Cardinality(free) \in Nat
  BY <1>2, FS_CardinalityType, ElementsAssumption
<1>4. Cardinality(free) # 0 BY <1>2, <1>3, ElementsAssumption
<1>5. PICK o \in OsdObjects : o \notin Range(osds)
  <2>1. free # {} BY <1>4, FS_EmptySet
  <2> QED BY <2>1
<1>6. \A m \in OsdMedias : e.osds[m] # o BY <1>1, <1>5 DEF Range, osds
<1> QED BY <1>6 DEF ElemOK

\* What a client shows when the clip of a media changes for it.
LEMMA ClipChanges ==
  ASSUME NEW e \in Osd!Element, NEW d \in Osd!Client, NEW m \in OsdMedias,
         NEW new \in OsdObjects \cup {"NULL"}
  PROVE  LET r == Osd!ChangeOsds(e, d, m, new)
             old == d.assoc[m]
         IN  /\ r \in Osd!Client
             /\ r.assoc = [d.assoc EXCEPT ![m] = new]
             /\ r.state = d.state /\ r.shown = d.shown /\ r.overlap = d.overlap /\ r.stays = d.stays
             /\ \A id \in OsdIds : Osd!Then(r.shown, r.pending)[id] =
                  IF new # "NULL" /\ Osd!Shows(e, new, id) THEN e.types[id]
                  ELSE IF old \notin {"absent", "NULL", new} /\ Osd!Shows(e, old, id) THEN "none"
                  ELSE Osd!Then(d.shown, d.pending)[id]
<1> DEFINE r == Osd!ChangeOsds(e, d, m, new)
           old == d.assoc[m]
           ended == IF old \notin {"absent", "NULL", new} THEN Osd!EndTags(e, old, TRUE) ELSE Osd!Nothing
           begun == IF new # "NULL" THEN Osd!BeginTags(e, new) ELSE Osd!Nothing
           pending == Osd!Then(Osd!Then(d.pending, ended), begun)
           assoc == [d.assoc EXCEPT ![m] = new]
<1>1. r = [d EXCEPT !.assoc = assoc, !.pending = pending]
  BY DEF Osd!ChangeOsds, Osd!Absent, Osd!NULL, Osd!Client
<1>2. /\ d.pending \in [OsdIds -> Styles \cup {"none", "same"}]
      /\ d.shown \in [OsdIds -> Styles \cup {"none"}]
      /\ d.assoc \in [OsdMedias -> OsdObjects \cup {"NULL", "absent"}]
      /\ e.types \in [OsdIds -> Styles \cup {"none"}]
  BY DEF Osd!Client, Osd!Element, Osd!Effect, Osd!None, Osd!Same, Osd!NULL, Osd!Absent
<1>3. \A id \in OsdIds : e.types[id] # "same" BY <1>2, ElementsAssumption
<1>4. /\ ended \in [OsdIds -> {"none", "same"}]
      /\ \A id \in OsdIds : ended[id] = IF old \notin {"absent", "NULL", new} /\ Osd!Shows(e, old, id)
                                        THEN "none" ELSE "same"
  BY DEF Osd!EndTags, Osd!Nothing, Osd!None, Osd!Same
<1>5. /\ begun \in [OsdIds -> Styles \cup {"none", "same"}]
      /\ \A id \in OsdIds : begun[id] = IF new # "NULL" /\ Osd!Shows(e, new, id)
                                        THEN e.types[id] ELSE "same"
  BY <1>2 DEF Osd!BeginTags, Osd!Nothing, Osd!Same
<1> HIDE DEF ended, begun
<1>6. /\ pending \in [OsdIds -> Styles \cup {"none", "same"}]
      /\ \A id \in OsdIds : pending[id] =
           IF begun[id] # "same" THEN begun[id] ELSE IF ended[id] # "same" THEN ended[id]
           ELSE d.pending[id]
  BY <1>2, <1>4, <1>5 DEF Osd!Then, Osd!Same
<1> HIDE DEF pending
<1>7. assoc \in [OsdMedias -> OsdObjects \cup {"NULL", "absent"}] BY <1>2
<1> HIDE DEF assoc
<1>8. /\ r \in Osd!Client /\ r.assoc = assoc /\ r.pending = pending
      /\ r.state = d.state /\ r.shown = d.shown /\ r.overlap = d.overlap /\ r.stays = d.stays
  <2> HIDE DEF r
  <2>1. /\ pending \in Osd!Effect
        /\ assoc \in [OsdMedias -> OsdObjects \cup {Osd!NULL, Osd!Absent}]
    BY <1>6, <1>7 DEF Osd!Effect, Osd!None, Osd!Same, Osd!NULL, Osd!Absent
  <2> QED BY <1>1, <2>1 DEF Osd!Client
<1> HIDE DEF r
<1>9. ASSUME NEW id \in OsdIds
      PROVE  Osd!Then(r.shown, r.pending)[id] =
               IF new # "NULL" /\ Osd!Shows(e, new, id) THEN e.types[id]
               ELSE IF old \notin {"absent", "NULL", new} /\ Osd!Shows(e, old, id) THEN "none"
               ELSE Osd!Then(d.shown, d.pending)[id]
  <2>1. Osd!Then(r.shown, r.pending)[id] = IF pending[id] = "same" THEN d.shown[id] ELSE pending[id]
    BY <1>8 DEF Osd!Then, Osd!Same
  <2>2. Osd!Then(d.shown, d.pending)[id] = IF d.pending[id] = "same" THEN d.shown[id] ELSE d.pending[id]
    BY DEF Osd!Then, Osd!Same
  <2> HIDE DEF old
  <2> QED BY <1>3, <1>4, <1>5, <1>6, <2>1, <2>2
<1> QED BY <1>8, <1>9 DEF r, assoc

\* Two states of the element that differ in the clip of one media.
OnlyClip(e, e2, m) ==
  /\ e2.users = e.users /\ e2.types = e.types
  /\ \A n \in OsdMedias \ {m} :
       e2.osds[n] = e.osds[n] /\ \A id \in OsdIds : n \in Osd!Having(e2, id) <=> n \in Osd!Having(e, id)

\* A client that plays the media gets the new clip, and ends the old one.
LEMMA ClientFollows ==
  ASSUME NEW e, ElemOK(e), NEW e2, ElemOK(e2), NEW born \in Osd!Element, NEW m \in OsdMedias,
         OnlyClip(e, e2, m), born.types = e.types,
         NEW c \in OsdClients, NEW d, ClientOK(e, c, d), c \in e.users[m],
         NEW new \in OsdObjects \cup {"NULL"}, new = e2.osds[m],
         new # "NULL" => new # e.osds[m],
         \A id \in OsdIds : m \in Osd!Having(e2, id) <=> new # "NULL" /\ id \in born.heap[new].has,
         \A id \in OsdIds : m \in Osd!Having(e, id) <=>
           e.osds[m] # "NULL" /\ id \in born.heap[e.osds[m]].has
  PROVE  ClientOK(e2, c, Osd!ChangeOsds(born, d, m, new))
<1> DEFINE r == Osd!ChangeOsds(born, d, m, new)
           old == e.osds[m]
<1>1. d \in Osd!Client /\ d.assoc[m] = old /\ d.state = "open" BY DEF ClientOK
<1>2. /\ r \in Osd!Client
      /\ r.assoc = [d.assoc EXCEPT ![m] = new]
      /\ r.state = d.state /\ r.shown = d.shown /\ r.overlap = d.overlap /\ r.stays = d.stays
      /\ \A id \in OsdIds : Osd!Then(r.shown, r.pending)[id] =
           IF new # "NULL" /\ Osd!Shows(born, new, id) THEN e.types[id]
           ELSE IF old \notin {"absent", "NULL", new} /\ Osd!Shows(born, old, id) THEN "none"
           ELSE Osd!Then(d.shown, d.pending)[id]
  BY <1>1, ClipChanges
<1>3. old \in OsdObjects \cup {"NULL"} /\ old # "absent"
  BY ElementsAssumption DEF ElemOK, Osd!Element, Osd!NULL
<1> HIDE DEF r
<1>4. ASSUME NEW n \in OsdMedias
      PROVE  /\ c \in e2.users[n] => r.state = "open" /\ r.assoc[n] = e2.osds[n]
             /\ c \notin e2.users[n] => r.assoc[n] \in {"absent", "NULL"}
  <2>1. d.assoc \in [OsdMedias -> OsdObjects \cup {"NULL", "absent"}]
    BY <1>1 DEF Osd!Client, Osd!NULL, Osd!Absent
  <2>2. r.assoc[n] = IF n = m THEN new ELSE d.assoc[n] BY <1>2, <2>1
  <2>3. n # m => e2.osds[n] = e.osds[n] BY DEF OnlyClip
  <2>4. e2.users = e.users BY DEF OnlyClip
  <2> QED BY <1>1, <1>2, <2>2, <2>3, <2>4 DEF ClientOK
<1>5. ASSUME r.state = "open", ~r.overlap
      PROVE  /\ \A n, k \in OsdMedias : c \in e2.users[n] /\ c \in e2.users[k] => n = k
             /\ \A id \in OsdIds : Osd!Then(r.shown, r.pending)[id] = Wanted(e2, c, id)
  <2>1. e2.users = e.users /\ e2.types = e.types BY DEF OnlyClip
  <2>2. \A n \in OsdMedias : c \in e.users[n] <=> n = m BY <1>1, <1>2, <1>5 DEF ClientOK
  <2>3. ASSUME NEW id \in OsdIds PROVE Osd!Then(r.shown, r.pending)[id] = Wanted(e2, c, id)
    <3>1. Osd!Then(d.shown, d.pending)[id] = Wanted(e, c, id) BY <1>1, <1>2, <1>5 DEF ClientOK
    <3>2. Wanted(e, c, id) = IF m \in Osd!Having(e, id) THEN e.types[id] ELSE "none"
      BY <2>2 DEF Wanted
    <3>3. Wanted(e2, c, id) = IF m \in Osd!Having(e2, id) THEN e.types[id] ELSE "none"
      BY <2>1, <2>2 DEF Wanted
    <3>4. \A o : Osd!Shows(born, o, id) <=> id \in born.heap[o].has /\ e.types[id] # "none"
      BY DEF Osd!Shows, Osd!None
    <3>5. /\ Osd!Then(r.shown, r.pending)[id] =
               IF new # "NULL" /\ Osd!Shows(born, new, id) THEN e.types[id]
               ELSE IF old \notin {"absent", "NULL", new} /\ Osd!Shows(born, old, id) THEN "none"
               ELSE Osd!Then(d.shown, d.pending)[id]
          /\ m \in Osd!Having(e2, id) <=> new # "NULL" /\ id \in born.heap[new].has
          /\ m \in Osd!Having(e, id) <=> old # "NULL" /\ id \in born.heap[old].has
      BY <1>2
    <3> QED BY <1>3, <3>1, <3>2, <3>3, <3>4, <3>5
  <2> QED BY <2>1, <2>2, <2>3
<1>6. r.state # "eos" BY <1>1, <1>2
<1>7. ClientOK(e2, c, r) BY <1>2, <1>4, <1>5, <1>6 DEF ClientOK
<1> QED BY <1>7 DEF r

\* Other clients are as before.
LEMMA ClientStays ==
  ASSUME NEW e, NEW e2, NEW m \in OsdMedias, OnlyClip(e, e2, m),
         NEW c \in OsdClients, NEW d, ClientOK(e, c, d), c \notin e.users[m]
  PROVE  ClientOK(e2, c, d)
<1>1. e2.users = e.users /\ e2.types = e.types BY DEF OnlyClip
<1>2. \A id \in OsdIds : Wanted(e2, c, id) = Wanted(e, c, id)
  <2> TAKE id \in OsdIds
  <2>1. \A n \in OsdMedias : c \in e.users[n] => (n \in Osd!Having(e2, id) <=> n \in Osd!Having(e, id))
    BY DEF OnlyClip
  <2> QED BY <1>1, <2>1 DEF Wanted
<1>3. \A n \in OsdMedias : c \in e.users[n] => e2.osds[n] = e.osds[n] BY DEF OnlyClip
<1> QED BY <1>1, <1>2, <1>3 DEF ClientOK

\* A clip that is set replaces the clip of its media, and no other one.
LEMMA ClipSet ==
  ASSUME NEW st, OsdOK(st), NEW path \in OsdMedias, NEW clip \in Osd!Clip
  PROVE  LET r == Osd!SetAssociatedOsds(st, path, clip)
         IN  /\ OsdOK(r) /\ r.elem.types = st.elem.types
             /\ \A n \in OsdMedias :
                  Osd!ClipOf(r.elem, n) = IF n = NormalizePath[path] THEN clip ELSE Osd!ClipOf(st.elem, n)
<1> DEFINE m == NormalizePath[path]
           e == st.elem
           new == CHOOSE o \in OsdObjects : e.heap[o] = Osd!NoClip
           old == e.osds[m]
           heap1 == [e.heap EXCEPT ![new] = clip]
           born == [e EXCEPT !.heap = heap1]
           osds2 == [e.osds EXCEPT ![m] = new]
           heap2 == [o \in OsdObjects |-> IF o = old THEN Osd!NoClip ELSE heap1[o]]
           e2 == [e EXCEPT !.osds = osds2, !.heap = heap2]
           clients2 == [c \in OsdClients |-> IF c \in e.users[m]
                          THEN Osd!ChangeOsds(born, st.clients[c], m, new) ELSE st.clients[c]]
           disk2 == [st.disk EXCEPT !.osds = [st.disk.osds EXCEPT ![m] = clip]]
           dropped2 == [st.dropped EXCEPT ![m] = {}]
           r == Osd!SetAssociatedOsds(st, path, clip)
<1>0. m \in OsdMedias /\ NormalizePath[m] = m BY ElementsAssumption
<1> USE <1>0
<1>1. r = [elem |-> e2, disk |-> disk2, clients |-> clients2, dropped |-> dropped2]
  <2> DEFINE b == [st EXCEPT !.elem.heap[new] = clip]
  <2>1. st \in OsdState /\ e \in Osd!Element /\ st.disk \in Osd!FullState BY DEF OsdOK, OsdState
  <2> HIDE DEF new
  <2>2. b = [st EXCEPT !.elem = born]
    <3>1. b = [st EXCEPT !.elem = [e EXCEPT !.heap[new] = clip]] BY <2>1 DEF OsdState
    <3>2. [e EXCEPT !.heap[new] = clip] = born BY <2>1 DEF Osd!Element
    <3> QED BY <3>1, <3>2
  <2> HIDE DEF born, b
  <2>3. b.elem = born /\ b.clients = st.clients BY <2>1, <2>2 DEF OsdState
  <2>4. [born EXCEPT !.osds[m] = new, !.heap = [o \in OsdObjects |-> IF o = old THEN Osd!NoClip ELSE @[o]]]
        = e2
    BY <2>1 DEF born, Osd!Element
  <2>5. Osd!Update(b, m, new) = clients2
    <3>1. born.users = e.users BY <2>1 DEF born, Osd!Element
    <3> QED BY <2>3, <3>1 DEF Osd!Update
  <2>6. [st.disk EXCEPT !.osds[m] = clip] = disk2 BY <2>1 DEF Osd!FullState
  <2>7. r = [elem |-> [b.elem EXCEPT !.osds[m] = new, !.heap =
                         [o \in OsdObjects |-> IF o = old THEN Osd!NoClip ELSE @[o]]],
             disk |-> [st.disk EXCEPT !.osds[m] = clip],
             clients |-> Osd!Update(b, m, new), dropped |-> dropped2]
    BY DEF Osd!SetAssociatedOsds, b, new, m
  <2> HIDE DEF e2, clients2, disk2, dropped2, r, e
  <2> QED BY <2>3, <2>4, <2>5, <2>6, <2>7
<1> HIDE DEF m
<1>2. /\ ElemOK(e) /\ e \in Osd!Element /\ st.disk \in Osd!FullState /\ Kept(st)
      /\ st.clients \in [OsdClients -> Osd!Client]
      /\ st.dropped \in [OsdMedias -> SUBSET OsdIds]
      /\ \A c \in OsdClients : ClientOK(e, c, st.clients[c])
  BY DEF OsdOK, OsdState
<1>3. new \in OsdObjects /\ e.heap[new] = Osd!NoClip BY <1>2, RoomForClip
<1>4. /\ old \in OsdObjects \cup {"NULL"} /\ new # old /\ old # "absent" /\ new # "NULL"
      /\ old # "NULL" => e.heap[old] \in Osd!Clip
      /\ e.osds \in [OsdMedias -> OsdObjects \cup {"NULL"}]
      /\ e.heap \in [OsdObjects -> Osd!Clip \cup {Osd!NoClip}]
      /\ e.types \in [OsdIds -> Styles \cup {"none"}]
      /\ \A n \in OsdMedias : e.osds[n] # new
  <2> HIDE DEF e, new
  <2>1. "NULL" \notin OsdObjects /\ "absent" \notin OsdObjects BY ElementsAssumption
  <2>2. /\ e.osds \in [OsdMedias -> OsdObjects \cup {"NULL"}]
        /\ e.heap \in [OsdObjects -> Osd!Clip \cup {Osd!NoClip}]
        /\ e.types \in [OsdIds -> Styles \cup {"none"}]
    BY <1>2 DEF Osd!Element, Osd!NULL, Osd!None
  <2>3. \A n \in OsdMedias : e.osds[n] # "NULL" => e.heap[e.osds[n]] \in Osd!Clip BY <1>2 DEF ElemOK
  <2>4. \A n \in OsdMedias : e.osds[n] # new
    <3> SUFFICES ASSUME NEW n \in OsdMedias, e.osds[n] = new PROVE FALSE OBVIOUS
    <3>1. e.heap[new] \in Osd!Clip BY <1>3, <2>1, <2>3
    <3> QED BY <1>3, <3>1, ClipIsThere
  <2> QED BY <1>3, <2>1, <2>2, <2>3, <2>4
<1> HIDE DEF new
<1>5. /\ heap1 \in [OsdObjects -> Osd!Clip \cup {Osd!NoClip}]
      /\ \A o \in OsdObjects : heap1[o] = IF o = new THEN clip ELSE e.heap[o]
      /\ osds2 \in [OsdMedias -> OsdObjects \cup {"NULL"}]
      /\ \A n \in OsdMedias : osds2[n] = IF n = m THEN new ELSE e.osds[n]
  BY <1>3, <1>4
<1> HIDE DEF heap1
<1>6. /\ heap2 \in [OsdObjects -> Osd!Clip \cup {Osd!NoClip}]
      /\ \A o \in OsdObjects : heap2[o] = IF o = old THEN Osd!NoClip ELSE IF o = new THEN clip
                                          ELSE e.heap[o]
  BY <1>5
<1> HIDE DEF heap2, osds2
<1>7. /\ born \in Osd!Element /\ born.heap = heap1 /\ born.types = e.types
      /\ e2 \in Osd!Element /\ e2.heap = heap2 /\ e2.osds = osds2
      /\ e2.types = e.types /\ e2.users = e.users
  <2> HIDE DEF e
  <2> QED BY <1>2, <1>5, <1>6 DEF Osd!Element, Osd!NULL
<1> HIDE DEF born, e2, e
<1>8. ElemOK(e2)
  <2>1. ASSUME NEW n \in OsdMedias, e2.osds[n] # "NULL"
        PROVE  /\ e2.heap[e2.osds[n]] \in Osd!Clip
               /\ \A k \in OsdMedias : e2.osds[n] = e2.osds[k] => n = k
    <3>1. CASE n = m
      <4>1. e2.osds[n] = new BY <1>5, <1>7, <3>1
      <4>2. heap2[new] = clip BY <1>3, <1>4, <1>6
      <4> QED BY <1>4, <1>5, <1>7, <3>1, <4>1, <4>2
    <3>2. CASE n # m
      <4>1. e2.osds[n] = e.osds[n] /\ e.osds[n] # "NULL" BY <1>5, <1>7, <2>1, <3>2
      <4>2. e.osds[n] # old /\ e.osds[n] # new /\ e.osds[n] \in OsdObjects
        BY <1>2, <1>4, <3>2, <4>1 DEF ElemOK, old
      <4>3. heap2[e.osds[n]] = e.heap[e.osds[n]] BY <1>6, <4>2
      <4>4. e2.heap[e2.osds[n]] \in Osd!Clip BY <1>2, <1>7, <4>1, <4>3 DEF ElemOK
      <4>5. ASSUME NEW k \in OsdMedias, e2.osds[n] = e2.osds[k] PROVE n = k
        <5>1. k # m BY <1>5, <1>7, <4>1, <4>2, <4>5
        <5>2. e.osds[n] = e.osds[k] BY <1>5, <1>7, <4>1, <4>5, <5>1
        <5> QED BY <1>2, <4>1, <5>2 DEF ElemOK
      <4> QED BY <4>4, <4>5
    <3> QED BY <3>1, <3>2
  <2>2. ASSUME NEW o \in OsdObjects, e2.heap[o] # Osd!NoClip PROVE \E n \in OsdMedias : e2.osds[n] = o
    <3>1. CASE o = new BY <1>5, <1>7, <3>1
    <3>2. CASE o # new
      <4>1. o # old /\ e.heap[o] # Osd!NoClip BY <1>6, <1>7, <2>2, <3>2
      <4>2. PICK n \in OsdMedias : e.osds[n] = o BY <1>2, <4>1 DEF ElemOK
      <4>3. n # m BY <4>1, <4>2 DEF old
      <4> QED BY <1>5, <1>7, <4>2, <4>3
    <3> QED BY <3>1, <3>2
  <2>3. ASSUME NEW n \in OsdMedias, e2.osds[n] # "NULL" PROVE NormalizePath[n] = n
    BY <1>0, <1>2, <1>5, <1>7, <2>3 DEF ElemOK
  <2> QED BY <1>7, <2>1, <2>2, <2>3 DEF ElemOK
<1>9. ASSUME NEW n \in OsdMedias
      PROVE  Osd!ClipOf(e2, n) = IF n = m THEN clip ELSE Osd!ClipOf(e, n)
  <2>1. CASE n = m
    <3>1. e2.osds[n] = new /\ heap2[new] = clip BY <1>3, <1>4, <1>5, <1>6, <1>7, <2>1
    <3> QED BY <1>4, <1>7, <2>1, <3>1 DEF Osd!ClipOf, Osd!NULL
  <2>2. CASE n # m /\ e.osds[n] = "NULL"
    BY <1>5, <1>7, <2>2 DEF Osd!ClipOf, Osd!NULL
  <2>3. CASE n # m /\ e.osds[n] # "NULL"
    <3>1. e.osds[n] # old /\ e.osds[n] # new /\ e.osds[n] \in OsdObjects
      BY <1>2, <1>4, <2>3 DEF ElemOK, old
    <3>2. heap2[e.osds[n]] = e.heap[e.osds[n]] /\ e2.osds[n] = e.osds[n] BY <1>5, <1>6, <1>7, <2>3, <3>1
    <3> QED BY <1>7, <2>3, <3>2 DEF Osd!ClipOf, Osd!NULL
  <2> QED BY <2>1, <2>2, <2>3
<1>10. \A s, n, id : n \in Osd!Having(s, id) <=> n \in OsdMedias /\ s.osds[n] # "NULL" /\ id \in Osd!ClipOf(s, n).has
  BY DEF Osd!Having, Osd!ClipOf, Osd!NULL
<1>11. OnlyClip(e, e2, m)
  BY <1>5, <1>7, <1>9, <1>10 DEF OnlyClip
<1>12. \A id \in OsdIds : /\ m \in Osd!Having(e2, id) <=> id \in born.heap[new].has
                          /\ m \in Osd!Having(e, id) <=> old # "NULL" /\ id \in born.heap[old].has
  <2>1. born.heap[new] = clip /\ Osd!ClipOf(e2, m) = clip /\ e2.osds[m] # "NULL"
    BY <1>3, <1>4, <1>5, <1>7, <1>9
  <2>2. old # "NULL" => born.heap[old] = Osd!ClipOf(e, m)
    BY <1>4, <1>5, <1>7 DEF Osd!ClipOf, Osd!NULL, old
  <2> QED BY <1>10, <2>1, <2>2 DEF old
<1>13. ASSUME NEW c \in OsdClients PROVE ClientOK(e2, c, clients2[c])
  <2>1. CASE c \notin e.users[m]
    <3>1. clients2[c] = st.clients[c] BY <2>1
    <3> QED BY <1>2, <1>11, <2>1, <3>1, ClientStays
  <2>2. CASE c \in e.users[m]
    <3>1. clients2[c] = Osd!ChangeOsds(born, st.clients[c], m, new) BY <2>2
    <3>2. new = e2.osds[m] BY <1>5, <1>7
    <3> HIDE DEF clients2
    <3>3. ClientOK(e2, c, Osd!ChangeOsds(born, st.clients[c], m, new))
      BY <1>2, <1>3, <1>4, <1>7, <1>8, <1>11, <1>12, <2>2, <3>2, ClientFollows DEF old
    <3> QED BY <3>1, <3>3
  <2> QED BY <2>1, <2>2
<1>14. clients2 \in [OsdClients -> Osd!Client]
  <2>1. \A c \in OsdClients : clients2[c] \in Osd!Client BY <1>13 DEF ClientOK
  <2>2. clients2 = [c \in OsdClients |-> clients2[c]] OBVIOUS
  <2> HIDE DEF clients2
  <2> QED BY <2>1, <2>2
<1>15. /\ disk2 \in Osd!FullState /\ disk2.types = st.disk.types
       /\ \A n \in OsdMedias : disk2.osds[n] = IF n = m THEN clip ELSE st.disk.osds[n]
       /\ dropped2 \in [OsdMedias -> SUBSET OsdIds]
       /\ \A n \in OsdMedias : dropped2[n] = IF n = m THEN {} ELSE st.dropped[n]
  BY <1>2 DEF Osd!FullState
<1> HIDE DEF clients2, disk2, dropped2, r
<1>16. Kept(r)
  <2>1. ASSUME NEW n \in OsdMedias
        PROVE  IF e2.osds[n] = "NULL" THEN disk2.osds[n] = Osd!NoClip
               ELSE disk2.osds[n] = [Osd!ClipOf(e2, n) EXCEPT !.has = @ \cup dropped2[n]]
    <3>1. CASE n = m
      <4>1. e2.osds[n] # "NULL" /\ Osd!ClipOf(e2, n) = clip /\ disk2.osds[n] = clip /\ dropped2[n] = {}
        BY <1>4, <1>5, <1>7, <1>9, <1>15, <3>1
      <4>2. clip = [clip EXCEPT !.has = @ \cup {}] BY DEF Osd!Clip
      <4> QED BY <4>1, <4>2
    <3>2. CASE n # m
      <4>1. e2.osds[n] = e.osds[n] /\ Osd!ClipOf(e2, n) = Osd!ClipOf(e, n)
            /\ disk2.osds[n] = st.disk.osds[n] /\ dropped2[n] = st.dropped[n]
        BY <1>5, <1>7, <1>9, <1>15, <3>2
      <4> QED BY <1>2, <4>1 DEF Kept, e
    <3> QED BY <3>1, <3>2
  <2> QED BY <1>1, <1>2, <1>7, <1>15, <2>1 DEF Kept, e
<1>17. r \in OsdState BY <1>1, <1>7, <1>14, <1>15 DEF OsdState
<1>18. OsdOK(r) BY <1>1, <1>8, <1>13, <1>16, <1>17 DEF OsdOK
<1> QED BY <1>1, <1>7, <1>9, <1>18 DEF r, e, m

\* What a media has, of which its clients see the overlays.
LEMMA HavingClip ==
  \A e, n, id : n \in Osd!Having(e, id) <=>
                  n \in OsdMedias /\ e.osds[n] # "NULL" /\ id \in Osd!ClipOf(e, n).has
BY DEF Osd!Having, Osd!ClipOf, Osd!NULL

\* A clip that is deleted leaves its media without one.
LEMMA ClipDeleted ==
  ASSUME NEW st, OsdOK(st), NEW m \in OsdMedias
  PROVE  LET r == Osd!DeleteAssociatedOsds(st, m)
         IN  /\ OsdOK(r) /\ r.elem.types = st.elem.types
             /\ \A n \in OsdMedias :
                  Osd!ClipOf(r.elem, n) = IF n = m THEN Osd!NoClip ELSE Osd!ClipOf(st.elem, n)
<1> DEFINE e == st.elem
           old == e.osds[m]
           osds2 == [e.osds EXCEPT ![m] = "NULL"]
           heap2 == [e.heap EXCEPT ![old] = Osd!NoClip]
           e2 == [e EXCEPT !.osds = osds2, !.heap = heap2]
           clients2 == [c \in OsdClients |-> IF c \in e.users[m]
                          THEN Osd!ChangeOsds(e, st.clients[c], m, "NULL") ELSE st.clients[c]]
           disk2 == [st.disk EXCEPT !.osds = [st.disk.osds EXCEPT ![m] = Osd!NoClip]]
           dropped2 == [st.dropped EXCEPT ![m] = {}]
           r == Osd!DeleteAssociatedOsds(st, m)
<1>1. CASE old = "NULL"
  <2>1. r = st BY <1>1 DEF Osd!DeleteAssociatedOsds, Osd!NULL
  <2>2. Osd!ClipOf(e, m) = Osd!NoClip BY <1>1 DEF Osd!ClipOf, Osd!NULL
  <2> HIDE DEF r
  <2> QED BY <2>1, <2>2 DEF r
<1> SUFFICES ASSUME old # "NULL"
             PROVE  /\ OsdOK(r) /\ r.elem.types = e.types
                    /\ \A n \in OsdMedias :
                         Osd!ClipOf(r.elem, n) = IF n = m THEN Osd!NoClip ELSE Osd!ClipOf(e, n)
  BY <1>1
<1>2. /\ ElemOK(e) /\ e \in Osd!Element /\ st.disk \in Osd!FullState /\ Kept(st)
      /\ st.clients \in [OsdClients -> Osd!Client]
      /\ st.dropped \in [OsdMedias -> SUBSET OsdIds]
      /\ \A c \in OsdClients : ClientOK(e, c, st.clients[c])
      /\ st \in OsdState
  BY DEF OsdOK, OsdState
<1>3. r = [elem |-> e2, disk |-> disk2, clients |-> clients2, dropped |-> dropped2]
  <2>1. r = [st EXCEPT !.clients = Osd!Update(st, m, "NULL"), !.dropped[m] = {},
                  !.elem = [@ EXCEPT !.osds[m] = "NULL", !.heap[old] = Osd!NoClip],
                  !.disk.osds[m] = Osd!NoClip]
    BY DEF Osd!DeleteAssociatedOsds, Osd!NULL
  <2>2. Osd!Update(st, m, "NULL") = clients2 BY DEF Osd!Update
  <2>3. [st.disk EXCEPT !.osds[m] = Osd!NoClip] = disk2 BY <1>2 DEF Osd!FullState
  <2>4. [e EXCEPT !.osds[m] = "NULL", !.heap[old] = Osd!NoClip] = e2 BY <1>2 DEF Osd!Element
  <2>5. r = [st EXCEPT !.clients = Osd!Update(st, m, "NULL"), !.dropped = dropped2,
                  !.elem = [e EXCEPT !.osds[m] = "NULL", !.heap[old] = Osd!NoClip],
                  !.disk = [st.disk EXCEPT !.osds[m] = Osd!NoClip]]
    <3> HIDE DEF clients2, r
    <3> QED BY <1>2, <2>1 DEF OsdState
  <2> HIDE DEF clients2, disk2, dropped2, e2, r
  <2> QED BY <1>2, <2>2, <2>3, <2>4, <2>5 DEF OsdState
<1> HIDE DEF r
<1>4. /\ old \in OsdObjects /\ "NULL" \notin OsdObjects
      /\ e.osds \in [OsdMedias -> OsdObjects \cup {"NULL"}]
      /\ e.heap \in [OsdObjects -> Osd!Clip \cup {Osd!NoClip}]
      /\ \A n \in OsdMedias \ {m} : e.osds[n] # old
  <2>1. "NULL" \notin OsdObjects BY ElementsAssumption
  <2>2. e.osds \in [OsdMedias -> OsdObjects \cup {"NULL"}] /\ e.heap \in [OsdObjects -> Osd!Clip \cup {Osd!NoClip}]
    BY <1>2 DEF Osd!Element, Osd!NULL
  <2> QED BY <1>2, <2>1, <2>2 DEF ElemOK
<1>5. /\ osds2 \in [OsdMedias -> OsdObjects \cup {"NULL"}]
      /\ \A n \in OsdMedias : osds2[n] = IF n = m THEN "NULL" ELSE e.osds[n]
      /\ heap2 \in [OsdObjects -> Osd!Clip \cup {Osd!NoClip}]
      /\ \A o \in OsdObjects : heap2[o] = IF o = old THEN Osd!NoClip ELSE e.heap[o]
  BY <1>4
<1> HIDE DEF heap2, osds2
<1>6. /\ e2 \in Osd!Element /\ e2.heap = heap2 /\ e2.osds = osds2
      /\ e2.types = e.types /\ e2.users = e.users
  <2> HIDE DEF e
  <2> QED BY <1>2, <1>5 DEF Osd!Element, Osd!NULL
<1> HIDE DEF e2, e
<1>7. \A n \in OsdMedias : /\ n # m => e2.osds[n] = e.osds[n]
                           /\ n # m /\ e.osds[n] # "NULL" => e2.heap[e.osds[n]] = e.heap[e.osds[n]]
                           /\ e2.osds[m] = "NULL"
  BY <1>4, <1>5, <1>6
<1>8. ElemOK(e2)
  <2>1. \A n \in OsdMedias : e2.osds[n] # "NULL" => n # m /\ e.osds[n] # "NULL" BY <1>7
  <2>2. \A n \in OsdMedias : e2.osds[n] # "NULL" => e2.heap[e2.osds[n]] \in Osd!Clip
    BY <1>2, <1>7, <2>1 DEF ElemOK
  <2>3. \A n, k \in OsdMedias : e2.osds[n] # "NULL" /\ e2.osds[n] = e2.osds[k] => n = k
    BY <1>2, <1>7, <2>1 DEF ElemOK
  <2>4. ASSUME NEW o \in OsdObjects, e2.heap[o] # Osd!NoClip PROVE \E n \in OsdMedias : e2.osds[n] = o
    <3>1. o # old /\ e.heap[o] # Osd!NoClip BY <1>5, <1>6, <2>4
    <3>2. PICK n \in OsdMedias : e.osds[n] = o BY <1>2, <3>1 DEF ElemOK
    <3>3. n # m BY <3>1, <3>2 DEF old
    <3> QED BY <1>7, <3>2, <3>3
  <2>5. \A n \in OsdMedias : e2.osds[n] # "NULL" => NormalizePath[n] = n
    BY <1>2, <1>7, <2>1 DEF ElemOK
  <2> QED BY <1>6, <2>2, <2>3, <2>4, <2>5 DEF ElemOK
<1>9. \A n \in OsdMedias :
        Osd!ClipOf(e2, n) = IF n = m THEN Osd!NoClip ELSE Osd!ClipOf(e, n)
  BY <1>7 DEF Osd!ClipOf, Osd!NULL
<1>10. OnlyClip(e, e2, m) BY <1>6, <1>7, <1>9, HavingClip DEF OnlyClip
<1>11. \A id \in OsdIds : /\ m \notin Osd!Having(e2, id)
                          /\ m \in Osd!Having(e, id) <=> old # "NULL" /\ id \in e.heap[old].has
  <2>1. old # "NULL" => e.heap[old] = Osd!ClipOf(e, m) BY DEF Osd!ClipOf, Osd!NULL, old
  <2> QED BY <1>7, <2>1, HavingClip DEF old
<1>12. ASSUME NEW c \in OsdClients PROVE ClientOK(e2, c, clients2[c])
  <2>1. CASE c \notin e.users[m]
    <3>1. clients2[c] = st.clients[c] BY <2>1
    <3> QED BY <1>2, <1>10, <2>1, <3>1, ClientStays
  <2>2. CASE c \in e.users[m]
    <3>1. clients2[c] = Osd!ChangeOsds(e, st.clients[c], m, "NULL") BY <2>2
    <3> HIDE DEF clients2
    <3>2. ClientOK(e2, c, Osd!ChangeOsds(e, st.clients[c], m, "NULL"))
      BY <1>2, <1>7, <1>8, <1>10, <1>11, <2>2, ClientFollows DEF old
    <3> QED BY <3>1, <3>2
  <2> QED BY <2>1, <2>2
<1>13. clients2 \in [OsdClients -> Osd!Client]
  <2>1. \A c \in OsdClients : clients2[c] \in Osd!Client BY <1>12 DEF ClientOK
  <2>2. clients2 = [c \in OsdClients |-> clients2[c]] OBVIOUS
  <2> HIDE DEF clients2
  <2> QED BY <2>1, <2>2
<1>14. /\ disk2 \in Osd!FullState /\ disk2.types = st.disk.types
       /\ \A n \in OsdMedias : disk2.osds[n] = IF n = m THEN Osd!NoClip ELSE st.disk.osds[n]
       /\ dropped2 \in [OsdMedias -> SUBSET OsdIds]
       /\ \A n \in OsdMedias : dropped2[n] = IF n = m THEN {} ELSE st.dropped[n]
  BY <1>2 DEF Osd!FullState
<1> HIDE DEF clients2, disk2, dropped2
<1>15. Kept(r)
  <2>1. ASSUME NEW n \in OsdMedias
        PROVE  IF e2.osds[n] = "NULL" THEN disk2.osds[n] = Osd!NoClip
               ELSE disk2.osds[n] = [Osd!ClipOf(e2, n) EXCEPT !.has = @ \cup dropped2[n]]
    <3>1. CASE n = m BY <1>7, <1>14, <3>1
    <3>2. CASE n # m
      <4>1. e2.osds[n] = e.osds[n] /\ Osd!ClipOf(e2, n) = Osd!ClipOf(e, n)
            /\ disk2.osds[n] = st.disk.osds[n] /\ dropped2[n] = st.dropped[n]
        BY <1>7, <1>9, <1>14, <3>2
      <4> QED BY <1>2, <4>1 DEF Kept, e
    <3> QED BY <3>1, <3>2
  <2> QED BY <1>2, <1>3, <1>6, <1>14, <2>1 DEF Kept, e
<1>16. r \in OsdState BY <1>3, <1>6, <1>13, <1>14 DEF OsdState
<1>17. OsdOK(r) BY <1>3, <1>8, <1>12, <1>15, <1>16 DEF OsdOK
<1> QED BY <1>3, <1>6, <1>9, <1>17

\* A tag that is sent to a client.
LEMMA TagSent ==
  ASSUME NEW d \in Osd!Client, NEW id \in OsdIds, NEW style \in Styles \cup {"none"}
  PROVE  LET r == [d EXCEPT !.pending = Osd!Then(@, Osd!Only(id, style))]
         IN  /\ r \in Osd!Client
             /\ r.assoc = d.assoc /\ r.state = d.state /\ r.shown = d.shown
             /\ r.overlap = d.overlap /\ r.stays = d.stays
             /\ \A k \in OsdIds : Osd!Then(r.shown, r.pending)[k] =
                                    IF k = id THEN style ELSE Osd!Then(d.shown, d.pending)[k]
<1> DEFINE pending == Osd!Then(d.pending, Osd!Only(id, style))
           r == [d EXCEPT !.pending = Osd!Then(@, Osd!Only(id, style))]
<1>1. r = [d EXCEPT !.pending = pending] OBVIOUS
<1>2. /\ d.pending \in [OsdIds -> Styles \cup {"none", "same"}]
      /\ d.shown \in [OsdIds -> Styles \cup {"none"}]
  BY DEF Osd!Client, Osd!Effect, Osd!None, Osd!Same
<1>3. style # "same" BY ElementsAssumption
<1>4. /\ pending \in [OsdIds -> Styles \cup {"none", "same"}]
      /\ \A k \in OsdIds : pending[k] = IF k = id THEN style ELSE d.pending[k]
  BY <1>2, <1>3 DEF Osd!Then, Osd!Only, Osd!Nothing, Osd!Same
<1> HIDE DEF pending, r
<1>5. /\ r \in Osd!Client /\ r.pending = pending
      /\ r.assoc = d.assoc /\ r.state = d.state /\ r.shown = d.shown
      /\ r.overlap = d.overlap /\ r.stays = d.stays
  <2>1. pending \in Osd!Effect BY <1>4 DEF Osd!Effect, Osd!None, Osd!Same
  <2> QED BY <1>1, <2>1 DEF Osd!Client
<1>6. \A k \in OsdIds : Osd!Then(r.shown, r.pending)[k] =
                          IF k = id THEN style ELSE Osd!Then(d.shown, d.pending)[k]
  BY <1>3, <1>4, <1>5 DEF Osd!Then, Osd!Same
<1> QED BY <1>5, <1>6 DEF r

\* A type that changes is a tag for those who play an overlay of the type.
LEMMA TypeChanges ==
  ASSUME NEW e, NEW e2, NEW id \in OsdIds, NEW style \in Styles \cup {"none"},
         e2.users = e.users, e2.osds = e.osds,
         e2.types = [e.types EXCEPT ![id] = style], e.types \in [OsdIds -> Styles \cup {"none"}],
         \A k \in OsdIds \ {id} : Osd!Having(e2, k) = Osd!Having(e, k),
         style = "none" \/ Osd!Having(e2, id) = Osd!Having(e, id),
         NEW c \in OsdClients, NEW d, ClientOK(e, c, d),
         NEW r, r = IF \E m \in Osd!Having(e, id) : c \in e.users[m]
                    THEN [d EXCEPT !.pending = Osd!Then(@, Osd!Only(id, style))] ELSE d
  PROVE  ClientOK(e2, c, r)
<1>1. d \in Osd!Client BY DEF ClientOK
<1> DEFINE plays == \E m \in Osd!Having(e, id) : c \in e.users[m]
<1>2. /\ r \in Osd!Client
      /\ r.assoc = d.assoc /\ r.state = d.state /\ r.shown = d.shown
      /\ r.overlap = d.overlap /\ r.stays = d.stays
      /\ \A k \in OsdIds : Osd!Then(r.shown, r.pending)[k] =
           IF k = id /\ plays THEN style ELSE Osd!Then(d.shown, d.pending)[k]
  <2>1. CASE plays
    <3> DEFINE s == [d EXCEPT !.pending = Osd!Then(@, Osd!Only(id, style))]
    <3>1. r = s BY <2>1
    <3>2. /\ s \in Osd!Client
          /\ s.assoc = d.assoc /\ s.state = d.state /\ s.shown = d.shown
          /\ s.overlap = d.overlap /\ s.stays = d.stays
          /\ \A k \in OsdIds : Osd!Then(s.shown, s.pending)[k] =
                                 IF k = id THEN style ELSE Osd!Then(d.shown, d.pending)[k]
      BY <1>1, TagSent
    <3> HIDE DEF s, plays
    <3> QED BY <2>1, <3>1, <3>2
  <2>2. CASE ~plays
    <3>1. r = d BY <2>2
    <3> HIDE DEF plays
    <3> QED BY <1>1, <2>2, <3>1
  <2> QED BY <2>1, <2>2
<1>3. \A k \in OsdIds : Wanted(e2, c, k) = IF k = id /\ plays THEN style ELSE Wanted(e, c, k)
  <2> TAKE k \in OsdIds
  <2>1. \A m \in Osd!Having(e, id) : m \in OsdMedias BY DEF Osd!Having
  <2>2. CASE k # id
    <3>1. Osd!Having(e2, k) = Osd!Having(e, k) /\ e2.types[k] = e.types[k] BY <2>2
    <3> QED BY <2>2, <3>1 DEF Wanted
  <2>3. CASE k = id /\ plays
    <3>1. e2.types[k] = style BY <2>3
    <3>2. style = "none" => Wanted(e2, c, k) = style BY <3>1 DEF Wanted
    <3>3. Osd!Having(e2, id) = Osd!Having(e, id) => Wanted(e2, c, k) = style
      BY <2>1, <2>3, <3>1 DEF Wanted
    <3> QED BY <2>3, <3>2, <3>3
  <2>4. CASE k = id /\ ~plays
    <3>1. e2.types[k] = style BY <2>4
    <3>2. Wanted(e, c, k) = "none" BY <2>4 DEF Wanted
    <3>3. style = "none" => Wanted(e2, c, k) = "none" BY <3>1 DEF Wanted
    <3>4. Osd!Having(e2, id) = Osd!Having(e, id) => Wanted(e2, c, k) = "none" BY <2>4 DEF Wanted
    <3> QED BY <2>4, <3>2, <3>3, <3>4
  <2> QED BY <2>2, <2>3, <2>4
<1> HIDE DEF plays
<1>4. r.state = "open" /\ ~r.overlap =>
        /\ \A m, n \in OsdMedias : c \in e2.users[m] /\ c \in e2.users[n] => m = n
        /\ \A k \in OsdIds : Osd!Then(r.shown, r.pending)[k] = Wanted(e2, c, k)
  BY <1>2, <1>3 DEF ClientOK
<1> QED BY <1>2, <1>4 DEF ClientOK

\* The clients after a tag for those who play an overlay of a type.
Told(st, id, style) == Osd!Push(st.elem, st.clients, Osd!Having(st.elem, id), Osd!Only(id, style))

\* A type that is created or changed reaches its clips and nothing else.
LEMMA TypeCreated ==
  ASSUME NEW st, OsdOK(st), NEW id \in OsdIds, NEW style \in Styles
  PROVE  LET r == Osd!CreateOverlayType(st, id, style)
         IN  /\ OsdOK(r) /\ r.elem.types = [st.elem.types EXCEPT ![id] = style]
             /\ \A n \in OsdMedias : Osd!ClipOf(r.elem, n) = Osd!ClipOf(st.elem, n)
<1> DEFINE e == st.elem
           types2 == [e.types EXCEPT ![id] = style]
           e2 == [e EXCEPT !.types = types2]
           disk2 == [st.disk EXCEPT !.types = types2]
           clients2 == Told(st, id, style)
           r == Osd!CreateOverlayType(st, id, style)
<1>1. /\ ElemOK(e) /\ e \in Osd!Element /\ st.disk \in Osd!FullState /\ Kept(st)
      /\ st.clients \in [OsdClients -> Osd!Client]
      /\ st.dropped \in [OsdMedias -> SUBSET OsdIds]
      /\ \A c \in OsdClients : ClientOK(e, c, st.clients[c])
      /\ st \in OsdState
  BY DEF OsdOK, OsdState
<1>2. e.types \in [OsdIds -> Styles \cup {"none"}] /\ st.disk.types = e.types
  BY <1>1 DEF Osd!Element, Osd!None, Kept
<1>3. r = [st EXCEPT !.elem = e2, !.disk = disk2, !.clients = clients2]
  <2>1. [e EXCEPT !.types[id] = style] = e2 BY <1>1 DEF Osd!Element
  <2>2. [st.disk EXCEPT !.types[id] = style] = disk2 BY <1>1, <1>2 DEF Osd!FullState
  <2>3. r = [st EXCEPT !.elem = [e EXCEPT !.types[id] = style],
                       !.disk = [st.disk EXCEPT !.types[id] = style], !.clients = clients2]
    <3>1. r = [st EXCEPT !.elem.types[id] = style, !.disk.types[id] = style,
                         !.clients = Osd!Push(st.elem, @, Osd!Having(st.elem, id), Osd!Only(id, style))]
      BY DEF Osd!CreateOverlayType
    <3> HIDE DEF r
    <3> QED BY <1>1, <3>1 DEF OsdState, Told
  <2> HIDE DEF r, e2, disk2, clients2
  <2> QED BY <2>1, <2>2, <2>3
<1> HIDE DEF r, clients2
<1>4. types2 \in [OsdIds -> Styles \cup {"none"}] BY <1>2
<1>5. /\ e2 \in Osd!Element /\ e2.types = types2 /\ e2.heap = e.heap /\ e2.osds = e.osds
      /\ e2.users = e.users
      /\ disk2 \in Osd!FullState /\ disk2.types = types2 /\ disk2.osds = st.disk.osds
  <2> HIDE DEF e, types2
  <2> QED BY <1>1, <1>4 DEF Osd!Element, Osd!FullState, Osd!None
<1> HIDE DEF e2, e, disk2
<1>6. ElemOK(e2) BY <1>1, <1>5 DEF ElemOK
<1>7. /\ \A n : Osd!ClipOf(e2, n) = Osd!ClipOf(e, n)
      /\ \A k : Osd!Having(e2, k) = Osd!Having(e, k)
  BY <1>5 DEF Osd!ClipOf, Osd!Having
<1>8. ASSUME NEW c \in OsdClients PROVE ClientOK(e2, c, clients2[c])
  <2>1. clients2[c] = IF \E m \in Osd!Having(e, id) : c \in e.users[m]
                      THEN [st.clients[c] EXCEPT !.pending = Osd!Then(@, Osd!Only(id, style))]
                      ELSE st.clients[c]
    BY DEF Told, Osd!Push, clients2, e
  <2> HIDE DEF types2
  <2>2. /\ e2.types = [e.types EXCEPT ![id] = style] /\ style \in Styles \cup {"none"}
        /\ \A k \in OsdIds \ {id} : Osd!Having(e2, k) = Osd!Having(e, k)
        /\ Osd!Having(e2, id) = Osd!Having(e, id)
    BY <1>5, <1>7 DEF types2
  <2> QED BY <1>1, <1>2, <1>5, <2>1, <2>2, TypeChanges
<1>9. clients2 \in [OsdClients -> Osd!Client]
  <2>1. \A c \in OsdClients : clients2[c] \in Osd!Client BY <1>8 DEF ClientOK
  <2>2. clients2 = [c \in OsdClients |-> clients2[c]] BY DEF clients2, Told, Osd!Push
  <2> QED BY <2>1, <2>2
<1>10. /\ r \in OsdState /\ r.elem = e2 /\ r.disk = disk2 /\ r.clients = clients2
       /\ r.dropped = st.dropped
  BY <1>1, <1>3, <1>5, <1>9 DEF OsdState
<1>11. Kept(r) BY <1>1, <1>5, <1>7, <1>10 DEF Kept, e
<1>12. OsdOK(r) BY <1>6, <1>8, <1>10, <1>11 DEF OsdOK
<1> QED BY <1>5, <1>7, <1>10, <1>12 DEF e, types2, r

\* A type that is destroyed leaves all clips, and nothing else changes.
LEMMA TypeDestroyed ==
  ASSUME NEW st, OsdOK(st), NEW id \in OsdIds
  PROVE  LET r == Osd!DestroyOverlayType(st, id)
         IN  /\ OsdOK(r) /\ r.elem.types = [st.elem.types EXCEPT ![id] = "none"]
             /\ \A n \in OsdMedias :
                  Osd!ClipOf(st.elem, n) = Osd!NoClip \/ id \notin Osd!ClipOf(st.elem, n).has
                    => Osd!ClipOf(r.elem, n) = Osd!ClipOf(st.elem, n)
<1> DEFINE e == st.elem
           types2 == [e.types EXCEPT ![id] = "none"]
           heap2 == [o \in OsdObjects |-> Osd!Without(e.heap[o], id)]
           e2 == [e EXCEPT !.types = types2, !.heap = heap2]
           disk2 == [st.disk EXCEPT !.types = types2]
           clients2 == Told(st, id, "none")
           dropped2 == [m \in OsdMedias |-> IF m \in Osd!Having(e, id)
                                            THEN st.dropped[m] \cup {id} ELSE st.dropped[m]]
           r == Osd!DestroyOverlayType(st, id)
<1>1. /\ ElemOK(e) /\ e \in Osd!Element /\ st.disk \in Osd!FullState /\ Kept(st)
      /\ st.clients \in [OsdClients -> Osd!Client]
      /\ st.dropped \in [OsdMedias -> SUBSET OsdIds]
      /\ \A c \in OsdClients : ClientOK(e, c, st.clients[c])
      /\ st \in OsdState
  BY DEF OsdOK, OsdState
<1>2. /\ e.types \in [OsdIds -> Styles \cup {"none"}] /\ st.disk.types = e.types
      /\ e.heap \in [OsdObjects -> Osd!Clip \cup {Osd!NoClip}]
      /\ e.osds \in [OsdMedias -> OsdObjects \cup {"NULL"}]
  BY <1>1 DEF Osd!Element, Osd!None, Osd!NULL, Kept
<1>3. CASE e.types[id] = "none"
  <2>1. r = st BY <1>3 DEF Osd!DestroyOverlayType, Osd!None
  <2>2. e.types = types2 BY <1>2, <1>3
  <2> HIDE DEF r
  <2> QED BY <2>1, <2>2 DEF r
<1> SUFFICES ASSUME e.types[id] # "none"
             PROVE  /\ OsdOK(r) /\ r.elem.types = [e.types EXCEPT ![id] = "none"]
                    /\ \A n \in OsdMedias :
                         Osd!ClipOf(e, n) = Osd!NoClip \/ id \notin Osd!ClipOf(e, n).has
                           => Osd!ClipOf(r.elem, n) = Osd!ClipOf(e, n)
  BY <1>3
<1>4. r = [st EXCEPT !.elem = e2, !.disk = disk2, !.clients = clients2, !.dropped = dropped2]
  <2>1. [e EXCEPT !.types[id] = "none",
                  !.heap = [o \in OsdObjects |-> Osd!Without(@[o], id)]] = e2
    <3> HIDE DEF e
    <3> QED BY <1>1 DEF Osd!Element
  <2>2. [st.disk EXCEPT !.types[id] = "none"] = disk2 BY <1>1, <1>2 DEF Osd!FullState
  <2> DEFINE given == [e EXCEPT !.types[id] = "none",
                                !.heap = [o \in OsdObjects |-> Osd!Without(@[o], id)]]
             stored == [st.disk EXCEPT !.types[id] = "none"]
  <2>3. r = [st EXCEPT !.elem = given, !.disk = stored, !.clients = clients2, !.dropped = dropped2]
    BY DEF Osd!DestroyOverlayType, Osd!None, Told
  <2> HIDE DEF r, e2, disk2, clients2, dropped2
  <2> QED BY <2>1, <2>2, <2>3
<1> HIDE DEF r, clients2
<1>5. types2 \in [OsdIds -> Styles \cup {"none"}] BY <1>2
<1>6. ASSUME NEW o \in OsdObjects
      PROVE  /\ e.heap[o] = Osd!NoClip => heap2[o] = Osd!NoClip
             /\ e.heap[o] # Osd!NoClip => /\ heap2[o] = [e.heap[o] EXCEPT !.has = @ \ {id}]
                                          /\ heap2[o] \in Osd!Clip /\ heap2[o] # Osd!NoClip
                                          /\ heap2[o].has = e.heap[o].has \ {id}
                                          /\ heap2[o].clear = e.heap[o].clear
                                          /\ id \notin e.heap[o].has => heap2[o] = e.heap[o]
  <2>1. CASE e.heap[o] = Osd!NoClip BY <2>1 DEF Osd!Without
  <2>2. CASE e.heap[o] # Osd!NoClip
    <3> DEFINE clip == e.heap[o]
               clip2 == [clip EXCEPT !.has = @ \ {id}]
    <3>1. clip \in Osd!Clip BY <1>2, <2>2
    <3>2. heap2[o] = clip2 BY <2>2 DEF Osd!Without
    <3> HIDE DEF clip, heap2
    <3>3. /\ clip2 \in Osd!Clip /\ clip2.has = clip.has \ {id} /\ clip2.clear = clip.clear
          /\ id \notin clip.has => clip2 = clip
      BY <3>1 DEF Osd!Clip
    <3>4. clip2 # Osd!NoClip BY <3>3, ClipIsThere
    <3> QED BY <2>2, <3>2, <3>3, <3>4 DEF clip
  <2> QED BY <2>1, <2>2
<1>7. heap2 \in [OsdObjects -> Osd!Clip \cup {Osd!NoClip}]
  <2>1. \A o \in OsdObjects : heap2[o] \in Osd!Clip \cup {Osd!NoClip} BY <1>6
  <2>2. heap2 = [o \in OsdObjects |-> heap2[o]] OBVIOUS
  <2> HIDE DEF heap2
  <2> QED BY <2>1, <2>2
<1> HIDE DEF heap2
<1>8. /\ e2 \in Osd!Element /\ e2.types = types2 /\ e2.heap = heap2 /\ e2.osds = e.osds
      /\ e2.users = e.users
      /\ disk2 \in Osd!FullState /\ disk2.types = types2 /\ disk2.osds = st.disk.osds
  <2> HIDE DEF e, types2
  <2> QED BY <1>1, <1>5, <1>7 DEF Osd!Element, Osd!FullState, Osd!None
<1> HIDE DEF e2, e, disk2
<1>9. "NULL" \notin OsdObjects BY ElementsAssumption
<1>10. ASSUME NEW n \in OsdMedias, e.osds[n] # "NULL"
       PROVE  LET o == e.osds[n]
              IN  /\ o \in OsdObjects /\ e.heap[o] \in Osd!Clip /\ e.heap[o] # Osd!NoClip
                  /\ Osd!ClipOf(e, n) = e.heap[o] /\ Osd!ClipOf(e2, n) = heap2[o]
  BY <1>1, <1>2, <1>8, <1>10, ClipIsThere DEF ElemOK, Osd!ClipOf, Osd!NULL
<1>11. ElemOK(e2)
  <2>1. \A n \in OsdMedias : e2.osds[n] # "NULL" => e2.heap[e2.osds[n]] \in Osd!Clip
    BY <1>6, <1>8, <1>10
  <2>2. \A o \in OsdObjects : e2.heap[o] # Osd!NoClip => \E n \in OsdMedias : e2.osds[n] = o
    <3>1. \A o \in OsdObjects : e2.heap[o] # Osd!NoClip => e.heap[o] # Osd!NoClip BY <1>6, <1>8
    <3> QED BY <1>1, <1>8, <3>1 DEF ElemOK
  <2>3. \A m, n \in OsdMedias : e2.osds[m] # "NULL" /\ e2.osds[m] = e2.osds[n] => m = n
    BY <1>1, <1>8 DEF ElemOK
  <2>4. \A m \in OsdMedias : e2.osds[m] # "NULL" => NormalizePath[m] = m
    BY <1>1, <1>8 DEF ElemOK
  <2> QED BY <1>8, <2>1, <2>2, <2>3, <2>4 DEF ElemOK
<1>12. \A n \in OsdMedias :
         /\ e.osds[n] = "NULL" => Osd!ClipOf(e2, n) = Osd!NoClip /\ Osd!ClipOf(e, n) = Osd!NoClip
         /\ e.osds[n] # "NULL" => /\ Osd!ClipOf(e2, n).has = Osd!ClipOf(e, n).has \ {id}
                                  /\ Osd!ClipOf(e2, n) = [Osd!ClipOf(e, n) EXCEPT !.has = @ \ {id}]
                                  /\ Osd!ClipOf(e, n) \in Osd!Clip /\ Osd!ClipOf(e, n) # Osd!NoClip
                                  /\ id \notin Osd!ClipOf(e, n).has => Osd!ClipOf(e2, n) = Osd!ClipOf(e, n)
  <2>1. \A n \in OsdMedias : e.osds[n] = "NULL" => Osd!ClipOf(e2, n) = Osd!NoClip /\ Osd!ClipOf(e, n) = Osd!NoClip
    BY <1>8 DEF Osd!ClipOf, Osd!NULL
  <2> QED BY ZenonT(60), <1>6, <1>10, <2>1
<1>13. \A k \in OsdIds \ {id} : Osd!Having(e2, k) = Osd!Having(e, k)
  <2> TAKE k \in OsdIds \ {id}
  <2>1. \A n : n \in Osd!Having(e2, k) <=> n \in Osd!Having(e, k) BY <1>8, <1>12, HavingClip
  <2> QED BY <2>1 DEF Osd!Having
<1>14. ASSUME NEW c \in OsdClients PROVE ClientOK(e2, c, clients2[c])
  <2>1. clients2[c] = IF \E m \in Osd!Having(e, id) : c \in e.users[m]
                      THEN [st.clients[c] EXCEPT !.pending = Osd!Then(@, Osd!Only(id, "none"))]
                      ELSE st.clients[c]
    BY DEF Told, Osd!Push, clients2, e
  <2> HIDE DEF types2
  <2>2. e2.types = [e.types EXCEPT ![id] = "none"] BY <1>8 DEF types2
  <2> QED BY ZenonT(60), <1>1, <1>2, <1>8, <1>13, <2>1, <2>2, TypeChanges
<1>15. clients2 \in [OsdClients -> Osd!Client]
  <2>1. \A c \in OsdClients : clients2[c] \in Osd!Client BY <1>14 DEF ClientOK
  <2>2. clients2 = [c \in OsdClients |-> clients2[c]] BY DEF clients2, Told, Osd!Push
  <2> QED BY <2>1, <2>2
<1>16. /\ dropped2 \in [OsdMedias -> SUBSET OsdIds]
       /\ \A n \in OsdMedias : dropped2[n] = IF n \in Osd!Having(e, id)
                                             THEN st.dropped[n] \cup {id} ELSE st.dropped[n]
  BY <1>1
<1> HIDE DEF dropped2
<1>17. /\ r \in OsdState /\ r.elem = e2 /\ r.disk = disk2 /\ r.clients = clients2
       /\ r.dropped = dropped2
  BY <1>1, <1>4, <1>8, <1>15, <1>16 DEF OsdState
<1>18. Kept(r)
  <2>1. ASSUME NEW n \in OsdMedias
        PROVE  IF e2.osds[n] = "NULL" THEN st.disk.osds[n] = Osd!NoClip
               ELSE st.disk.osds[n] = [Osd!ClipOf(e2, n) EXCEPT !.has = @ \cup dropped2[n]]
    <3>1. CASE e.osds[n] = "NULL" BY <1>1, <1>8, <3>1 DEF Kept, e
    <3>2. CASE e.osds[n] # "NULL"
      <4> DEFINE clip == Osd!ClipOf(e, n)
                 clip2 == Osd!ClipOf(e2, n)
      <4>1. st.disk.osds[n] = [clip EXCEPT !.has = @ \cup st.dropped[n]] BY <1>1, <3>2 DEF Kept, e
      <4>2. n \in Osd!Having(e, id) <=> id \in clip.has BY <3>2, HavingClip
      <4>3. clip \in Osd!Clip /\ clip2 = [clip EXCEPT !.has = @ \ {id}] BY <1>12, <3>2
      <4>4. dropped2[n] = IF id \in clip.has THEN st.dropped[n] \cup {id} ELSE st.dropped[n]
        BY <1>16, <4>2
      <4> HIDE DEF clip, clip2
      <4>5. (clip.has \ {id}) \cup dropped2[n] = clip.has \cup st.dropped[n] BY <4>4
      <4>6. [clip2 EXCEPT !.has = @ \cup dropped2[n]] = [clip EXCEPT !.has = @ \cup st.dropped[n]]
        BY <4>3, <4>5 DEF Osd!Clip
      <4> QED BY <1>8, <3>2, <4>1, <4>6 DEF clip2
    <3> QED BY <3>1, <3>2
  <2> QED BY <1>1, <1>8, <1>17, <2>1 DEF Kept, e
<1>19. OsdOK(r) BY <1>11, <1>14, <1>17, <1>18 DEF OsdOK
<1> QED BY <1>8, <1>12, <1>17, <1>19 DEF e, types2

\* Clips that are deleted one after the other.
LEMMA ClipsDeleted ==
  ASSUME NEW st, OsdOK(st), NEW S \in SUBSET OsdMedias
  PROVE  LET r == Osd!ForAll(S, st, Osd!DeleteAssociatedOsds)
         IN  /\ OsdOK(r) /\ r.elem.types = st.elem.types
             /\ \A n \in OsdMedias :
                  Osd!ClipOf(r.elem, n) = IF n \in S THEN Osd!NoClip ELSE Osd!ClipOf(st.elem, n)
<1> DEFINE Done(T, s) == /\ OsdOK(s) /\ s.elem.types = st.elem.types
                         /\ \A n \in OsdMedias : Osd!ClipOf(s.elem, n) =
                              IF n \in T THEN Osd!NoClip ELSE Osd!ClipOf(st.elem, n)
           I == [T \in SUBSET S |-> {s \in OsdState : Done(T, s)}]
           G == [z \in OsdState \X S |-> Osd!DeleteAssociatedOsds(z[1], z[2])]
           Eq(f) == f = [T \in SUBSET S |-> IF T = {} THEN st
                           ELSE Osd!DeleteAssociatedOsds(f[T \ {First(T)}], First(T))]
           F == CHOOSE f : Eq(f)
<1>1. IsFiniteSet(S) BY FS_Subset, ElementsAssumption
<1>2. st \in I[{}] BY DEF OsdOK
<1>3. ASSUME NEW T \in SUBSET S, T # {}, NEW s \in I[T \ {First(T)}]
      PROVE  Osd!DeleteAssociatedOsds(s, First(T)) \in I[T] /\ s \in OsdState /\ First(T) \in S
  <2>1. First(T) \in T /\ First(T) \in S BY <1>1, <1>3, FirstOf
  <2>2. OsdOK(s) /\ Done(T \ {First(T)}, s) OBVIOUS
  <2> DEFINE r == Osd!DeleteAssociatedOsds(s, First(T))
  <2>3. /\ OsdOK(r) /\ r.elem.types = s.elem.types
        /\ \A n \in OsdMedias :
             Osd!ClipOf(r.elem, n) = IF n = First(T) THEN Osd!NoClip ELSE Osd!ClipOf(s.elem, n)
    BY <2>1, <2>2, ClipDeleted
  <2> HIDE DEF r
  <2>4. Done(T, r) BY <2>1, <2>2, <2>3
  <2>5. r \in OsdState /\ s \in OsdState BY <2>2, <2>3 DEF OsdOK
  <2> QED BY <2>1, <2>4, <2>5 DEF r
<1> HIDE DEF I
<1>4. \E f : Eq(f)
  <2>1. ASSUME NEW T \in SUBSET S, T # {}, NEW s \in I[T \ {First(T)}]
        PROVE  G[<<s, First(T)>>] = Osd!DeleteAssociatedOsds(s, First(T)) /\ G[<<s, First(T)>>] \in I[T]
    BY <1>3, <2>1
  <2> HIDE DEF G
  <2>2. Keeps(S, st, G, I) BY <1>2, <2>1 DEF Keeps
  <2>3. PICK f : IsFold(S, st, G, f) /\ \A T \in SUBSET S : f[T] \in I[T]
    BY <1>1, <2>2, FoldGoes
  <2>4. ASSUME NEW T \in SUBSET S
        PROVE  f[T] = IF T = {} THEN st ELSE Osd!DeleteAssociatedOsds(f[T \ {First(T)}], First(T))
    BY <2>1, <2>3 DEF Folded, IsFold
  <2> QED BY <2>3, <2>4 DEF IsFold
<1>5. Eq(F) BY <1>4
<1> HIDE DEF F
<1> DEFINE P == {T \in SUBSET S : F[T] \in I[T]}
<1>6. {} \in P BY <1>2, <1>5
<1>7. ASSUME NEW T \in SUBSET S, T # {}, T \ {First(T)} \in P PROVE T \in P BY <1>3, <1>5, <1>7
<1>8. F[S] \in I[S]
  <2>1. P \in SUBSET SUBSET S OBVIOUS
  <2> HIDE DEF P
  <2>2. S \in P BY <1>1, <1>6, <1>7, <2>1, SetsByFirst
  <2> QED BY <2>2 DEF P
<1>9. F[S] = Osd!ForAll(S, st, Osd!DeleteAssociatedOsds) BY DEF Osd!ForAll, F, First
<1> QED BY <1>8, <1>9 DEF I

\* Types that are destroyed one after the other.
LEMMA TypesDestroyed ==
  ASSUME NEW st, OsdOK(st), NEW S \in SUBSET OsdIds
  PROVE  LET r == Osd!ForAll(S, st, Osd!DestroyOverlayType)
         IN  /\ OsdOK(r)
             /\ \A id \in OsdIds : r.elem.types[id] = IF id \in S THEN "none" ELSE st.elem.types[id]
             /\ \A n \in OsdMedias :
                  Osd!ClipOf(st.elem, n) = Osd!NoClip \/ Osd!ClipOf(st.elem, n).has \cap S = {}
                    => Osd!ClipOf(r.elem, n) = Osd!ClipOf(st.elem, n)
<1> DEFINE Do(s, x) == Osd!DestroyOverlayType(s, x)
           Done(T, s) == /\ OsdOK(s)
                         /\ \A id \in OsdIds : s.elem.types[id] = IF id \in T THEN "none" ELSE st.elem.types[id]
                         /\ \A n \in OsdMedias :
                              Osd!ClipOf(st.elem, n) = Osd!NoClip \/ Osd!ClipOf(st.elem, n).has \cap T = {}
                                => Osd!ClipOf(s.elem, n) = Osd!ClipOf(st.elem, n)
           I == [T \in SUBSET S |-> {s \in OsdState : Done(T, s)}]
           G == [z \in OsdState \X S |-> Do(z[1], z[2])]
           Eq(f) == f = [T \in SUBSET S |-> IF T = {} THEN st ELSE Do(f[T \ {First(T)}], First(T))]
           F == CHOOSE f : Eq(f)
<1>1. IsFiniteSet(S) BY FS_Subset, ElementsAssumption
<1>2. st \in I[{}]
  <2>1. Done({}, st) OBVIOUS
  <2> HIDE DEF Done
  <2> QED BY <2>1 DEF OsdOK
<1>3. ASSUME NEW T \in SUBSET S, T # {}, NEW s \in I[T \ {First(T)}]
      PROVE  Do(s, First(T)) \in I[T] /\ s \in OsdState /\ First(T) \in S
  <2>1. First(T) \in T /\ First(T) \in S BY <1>1, <1>3, FirstOf
  <2>2. OsdOK(s) /\ Done(T \ {First(T)}, s) OBVIOUS
  <2> DEFINE r == Do(s, First(T))
  <2>6. s.elem.types \in [OsdIds -> Styles \cup {"none"}]
    BY <2>2 DEF OsdOK, OsdState, Osd!Element, Osd!None
  <2>7. OsdOK(r) /\ r.elem.types = [s.elem.types EXCEPT ![First(T)] = "none"]
    BY <2>1, <2>2, TypeDestroyed
  <2>8. \A n \in OsdMedias :
          Osd!ClipOf(s.elem, n) = Osd!NoClip \/ First(T) \notin Osd!ClipOf(s.elem, n).has
            => Osd!ClipOf(r.elem, n) = Osd!ClipOf(s.elem, n)
    BY <2>1, <2>2, TypeDestroyed
  <2>3. /\ OsdOK(r)
        /\ \A id \in OsdIds : r.elem.types[id] = IF id = First(T) THEN "none" ELSE s.elem.types[id]
        /\ \A n \in OsdMedias :
             Osd!ClipOf(s.elem, n) = Osd!NoClip \/ First(T) \notin Osd!ClipOf(s.elem, n).has
               => Osd!ClipOf(r.elem, n) = Osd!ClipOf(s.elem, n)
    <3> HIDE DEF r
    <3> QED BY <2>1, <2>6, <2>7, <2>8
  <2> HIDE DEF r
  <2>4. Done(T, r)
    <3>1. ASSUME NEW n \in OsdMedias,
                 Osd!ClipOf(st.elem, n) = Osd!NoClip \/ Osd!ClipOf(st.elem, n).has \cap T = {}
          PROVE  Osd!ClipOf(r.elem, n) = Osd!ClipOf(st.elem, n)
      <4>1. Osd!ClipOf(s.elem, n) = Osd!ClipOf(st.elem, n) BY <2>2, <3>1
      <4>2. Osd!ClipOf(s.elem, n) = Osd!NoClip \/ First(T) \notin Osd!ClipOf(s.elem, n).has
        BY <2>1, <3>1, <4>1
      <4> QED BY <2>3, <4>1, <4>2
    <3>2. \A id \in OsdIds : r.elem.types[id] = IF id \in T THEN "none" ELSE st.elem.types[id]
      BY <2>1, <2>2, <2>3
    <3> QED BY <2>3, <3>1, <3>2
  <2>5. r \in OsdState /\ s \in OsdState BY <2>2, <2>3 DEF OsdOK
  <2> QED BY <2>1, <2>4, <2>5 DEF r
<1> HIDE DEF I, Do
<1>4. \E f : Eq(f)
  <2>1. ASSUME NEW T \in SUBSET S, T # {}, NEW s \in I[T \ {First(T)}]
        PROVE  G[<<s, First(T)>>] = Do(s, First(T)) /\ G[<<s, First(T)>>] \in I[T]
    BY <1>3, <2>1
  <2> HIDE DEF G
  <2>2. Keeps(S, st, G, I) BY <1>2, <2>1 DEF Keeps
  <2>3. PICK f : IsFold(S, st, G, f) /\ \A T \in SUBSET S : f[T] \in I[T]
    BY <1>1, <2>2, FoldGoes
  <2>4. ASSUME NEW T \in SUBSET S
        PROVE  f[T] = IF T = {} THEN st ELSE Do(f[T \ {First(T)}], First(T))
    BY <2>1, <2>3 DEF Folded, IsFold
  <2> QED BY <2>3, <2>4 DEF IsFold
<1>5. Eq(F) BY <1>4
<1> HIDE DEF F
<1> DEFINE P == {T \in SUBSET S : F[T] \in I[T]}
<1>6. {} \in P BY <1>2, <1>5
<1>7. ASSUME NEW T \in SUBSET S, T # {}, T \ {First(T)} \in P PROVE T \in P BY <1>3, <1>5, <1>7
<1>8. F[S] \in I[S]
  <2>1. P \in SUBSET SUBSET S OBVIOUS
  <2> HIDE DEF P
  <2>2. S \in P BY <1>1, <1>6, <1>7, <2>1, SetsByFirst
  <2> QED BY <2>2 DEF P
<1>9. F[S] = Osd!ForAll(S, st, Osd!DestroyOverlayType) BY DEF Osd!ForAll, F, First, Do
<1>10. Done(S, F[S]) BY <1>8 DEF I
<1> HIDE DEF Done
<1> QED BY <1>9, <1>10 DEF Do, Done

\* What SetFullState makes of the types and clips that it gives.
Created(S, st, full) ==
  LET f == CHOOSE f : f = [T \in SUBSET S |-> IF T = {} THEN st
             ELSE Osd!CreateOverlayType(f[T \ {First(T)}], First(T), full.types[First(T)])]
  IN  f[S]
\* The same of the clips.
Given(S, st, full) ==
  LET f == CHOOSE f : f = [T \in SUBSET S |-> IF T = {} THEN st
             ELSE Osd!SetAssociatedOsds(f[T \ {First(T)}], First(T), full.osds[First(T)])]
  IN  f[S]

\* Types that are created one after the other.
LEMMA TypesCreated ==
  ASSUME NEW st, OsdOK(st), NEW full \in Osd!FullState,
         NEW S \in SUBSET OsdIds, \A id \in S : full.types[id] # "none"
  PROVE  LET r == Created(S, st, full)
         IN  /\ OsdOK(r)
             /\ \A id \in OsdIds : r.elem.types[id] = IF id \in S THEN full.types[id] ELSE st.elem.types[id]
             /\ \A n \in OsdMedias : Osd!ClipOf(r.elem, n) = Osd!ClipOf(st.elem, n)
<1> DEFINE Do(s, x) == Osd!CreateOverlayType(s, x, full.types[x])
           Done(T, s) == /\ OsdOK(s)
                         /\ \A id \in OsdIds : s.elem.types[id] = IF id \in T THEN full.types[id] ELSE st.elem.types[id]
                         /\ \A n \in OsdMedias : Osd!ClipOf(s.elem, n) = Osd!ClipOf(st.elem, n)
           I == [T \in SUBSET S |-> {s \in OsdState : Done(T, s)}]
           G == [z \in OsdState \X S |-> Do(z[1], z[2])]
           Eq(f) == f = [T \in SUBSET S |-> IF T = {} THEN st ELSE Do(f[T \ {First(T)}], First(T))]
           F == CHOOSE f : Eq(f)
<1>1. IsFiniteSet(S) BY FS_Subset, ElementsAssumption
<1>2. st \in I[{}]
  <2>1. Done({}, st) OBVIOUS
  <2> HIDE DEF Done
  <2> QED BY <2>1 DEF OsdOK
<1>3. ASSUME NEW T \in SUBSET S, T # {}, NEW s \in I[T \ {First(T)}]
      PROVE  Do(s, First(T)) \in I[T] /\ s \in OsdState /\ First(T) \in S
  <2>1. First(T) \in T /\ First(T) \in S BY <1>1, <1>3, FirstOf
  <2>2. OsdOK(s) /\ Done(T \ {First(T)}, s) OBVIOUS
  <2> DEFINE r == Do(s, First(T))
  <2>6. s.elem.types \in [OsdIds -> Styles \cup {"none"}] /\ full.types[First(T)] \in Styles
    BY <2>1, <2>2 DEF OsdOK, OsdState, Osd!Element, Osd!FullState, Osd!None
  <2>7. /\ OsdOK(r) /\ r.elem.types = [s.elem.types EXCEPT ![First(T)] = full.types[First(T)]]
        /\ \A n \in OsdMedias : Osd!ClipOf(r.elem, n) = Osd!ClipOf(s.elem, n)
    BY <2>1, <2>2, <2>6, TypeCreated
  <2>3. /\ OsdOK(r)
        /\ \A id \in OsdIds : r.elem.types[id] = IF id = First(T) THEN full.types[id] ELSE s.elem.types[id]
        /\ \A n \in OsdMedias : Osd!ClipOf(r.elem, n) = Osd!ClipOf(s.elem, n)
    <3> HIDE DEF r
    <3> QED BY <2>1, <2>6, <2>7
  <2> HIDE DEF r
  <2>4. Done(T, r) BY <2>1, <2>2, <2>3
  <2>5. r \in OsdState /\ s \in OsdState BY <2>2, <2>3 DEF OsdOK
  <2> QED BY <2>1, <2>4, <2>5 DEF r
<1> HIDE DEF I, Do
<1>4. \E f : Eq(f)
  <2>1. ASSUME NEW T \in SUBSET S, T # {}, NEW s \in I[T \ {First(T)}]
        PROVE  G[<<s, First(T)>>] = Do(s, First(T)) /\ G[<<s, First(T)>>] \in I[T]
    BY <1>3, <2>1
  <2> HIDE DEF G
  <2>2. Keeps(S, st, G, I) BY <1>2, <2>1 DEF Keeps
  <2>3. PICK f : IsFold(S, st, G, f) /\ \A T \in SUBSET S : f[T] \in I[T]
    BY <1>1, <2>2, FoldGoes
  <2>4. ASSUME NEW T \in SUBSET S
        PROVE  f[T] = IF T = {} THEN st ELSE Do(f[T \ {First(T)}], First(T))
    BY <2>1, <2>3 DEF Folded, IsFold
  <2> QED BY <2>3, <2>4 DEF IsFold
<1>5. Eq(F) BY <1>4
<1> HIDE DEF F
<1> DEFINE P == {T \in SUBSET S : F[T] \in I[T]}
<1>6. {} \in P BY <1>2, <1>5
<1>7. ASSUME NEW T \in SUBSET S, T # {}, T \ {First(T)} \in P PROVE T \in P BY <1>3, <1>5, <1>7
<1>8. F[S] \in I[S]
  <2>1. P \in SUBSET SUBSET S OBVIOUS
  <2> HIDE DEF P
  <2>2. S \in P BY <1>1, <1>6, <1>7, <2>1, SetsByFirst
  <2> QED BY <2>2 DEF P
<1>9. F[S] = Created(S, st, full) BY DEF Created, F, Do
<1>10. Done(S, F[S]) BY <1>8 DEF I
<1> HIDE DEF Done
<1> QED BY <1>9, <1>10 DEF Do, Done

\* Clips that are set one after the other.
LEMMA ClipsSet ==
  ASSUME NEW st, OsdOK(st), NEW full \in Osd!FullState,
         NEW S \in SUBSET OsdMedias, \A m \in S : full.osds[m] # Osd!NoClip
  PROVE  LET r == Given(S, st, full)
         IN  /\ OsdOK(r) /\ r.elem.types = st.elem.types
             /\ \A n \in OsdMedias : (\A m \in S : NormalizePath[m] # n)
                  => Osd!ClipOf(r.elem, n) = Osd!ClipOf(st.elem, n)
             /\ \A m \in S : (\A k \in S : NormalizePath[k] = NormalizePath[m] => k = m)
                  => Osd!ClipOf(r.elem, NormalizePath[m]) = full.osds[m]
<1> DEFINE Do(s, x) == Osd!SetAssociatedOsds(s, x, full.osds[x])
           Alone(m) == \A k \in S : NormalizePath[k] = NormalizePath[m] => k = m
           Done(T, s) == /\ OsdOK(s) /\ s.elem.types = st.elem.types
                         /\ \A n \in OsdMedias : (\A m \in T : NormalizePath[m] # n)
                              => Osd!ClipOf(s.elem, n) = Osd!ClipOf(st.elem, n)
                         /\ \A m \in T : Alone(m)
                              => Osd!ClipOf(s.elem, NormalizePath[m]) = full.osds[m]
           I == [T \in SUBSET S |-> {s \in OsdState : Done(T, s)}]
           G == [z \in OsdState \X S |-> Do(z[1], z[2])]
           Eq(f) == f = [T \in SUBSET S |-> IF T = {} THEN st ELSE Do(f[T \ {First(T)}], First(T))]
           F == CHOOSE f : Eq(f)
<1>1. IsFiniteSet(S) BY FS_Subset, ElementsAssumption
<1>2. st \in I[{}]
  <2>1. Done({}, st) OBVIOUS
  <2> HIDE DEF Done
  <2> QED BY <2>1 DEF OsdOK
<1>3. ASSUME NEW T \in SUBSET S, T # {}, NEW s \in I[T \ {First(T)}]
      PROVE  Do(s, First(T)) \in I[T] /\ s \in OsdState /\ First(T) \in S
  <2>1. First(T) \in T /\ First(T) \in S BY <1>1, <1>3, FirstOf
  <2>2. OsdOK(s) /\ Done(T \ {First(T)}, s) OBVIOUS
  <2> DEFINE r == Do(s, First(T))
  <2>6. full.osds[First(T)] \in Osd!Clip BY <2>1 DEF Osd!FullState
  <2>3. /\ OsdOK(r) /\ r.elem.types = s.elem.types
        /\ \A n \in OsdMedias :
             Osd!ClipOf(r.elem, n) = IF n = NormalizePath[First(T)] THEN full.osds[First(T)]
                                     ELSE Osd!ClipOf(s.elem, n)
    BY <2>1, <2>2, <2>6, ClipSet
  <2> HIDE DEF r
  <2>4. Done(T, r)
    <3>1. \A n \in OsdMedias : (\A m \in T : NormalizePath[m] # n)
            => Osd!ClipOf(r.elem, n) = Osd!ClipOf(st.elem, n)
      BY <2>1, <2>2, <2>3
    <3>2. ASSUME NEW m \in T, Alone(m) PROVE Osd!ClipOf(r.elem, NormalizePath[m]) = full.osds[m]
      <4>1. NormalizePath[m] \in OsdMedias BY ElementsAssumption
      <4>2. CASE m = First(T) BY <2>3, <4>1, <4>2
      <4>3. CASE m # First(T)
        <5>1. NormalizePath[First(T)] # NormalizePath[m] BY <2>1, <3>2, <4>3
        <5>2. Osd!ClipOf(s.elem, NormalizePath[m]) = full.osds[m] BY <2>2, <3>2, <4>3
        <5> QED BY <2>3, <4>1, <5>1, <5>2
      <4> QED BY <4>2, <4>3
    <3> QED BY <2>2, <2>3, <3>1, <3>2
  <2>5. r \in OsdState /\ s \in OsdState BY <2>2, <2>3 DEF OsdOK
  <2> QED BY <2>1, <2>4, <2>5 DEF r
<1> HIDE DEF I, Do
<1>4. \E f : Eq(f)
  <2>1. ASSUME NEW T \in SUBSET S, T # {}, NEW s \in I[T \ {First(T)}]
        PROVE  G[<<s, First(T)>>] = Do(s, First(T)) /\ G[<<s, First(T)>>] \in I[T]
    BY <1>3, <2>1
  <2> HIDE DEF G
  <2>2. Keeps(S, st, G, I) BY <1>2, <2>1 DEF Keeps
  <2>3. PICK f : IsFold(S, st, G, f) /\ \A T \in SUBSET S : f[T] \in I[T]
    BY <1>1, <2>2, FoldGoes
  <2>4. ASSUME NEW T \in SUBSET S
        PROVE  f[T] = IF T = {} THEN st ELSE Do(f[T \ {First(T)}], First(T))
    BY <2>1, <2>3 DEF Folded, IsFold
  <2> QED BY <2>3, <2>4 DEF IsFold
<1>5. Eq(F) BY <1>4
<1> HIDE DEF F
<1> DEFINE P == {T \in SUBSET S : F[T] \in I[T]}
<1>6. {} \in P BY <1>2, <1>5
<1>7. ASSUME NEW T \in SUBSET S, T # {}, T \ {First(T)} \in P PROVE T \in P BY <1>3, <1>5, <1>7
<1>8. F[S] \in I[S]
  <2>1. P \in SUBSET SUBSET S OBVIOUS
  <2> HIDE DEF P
  <2>2. S \in P BY <1>1, <1>6, <1>7, <2>1, SetsByFirst
  <2> QED BY <2>2 DEF P
<1>9. F[S] = Given(S, st, full) BY DEF Given, F, Do
<1>10. Done(S, F[S]) BY <1>8 DEF I
<1> HIDE DEF Done
<1> QED BY <1>9, <1>10 DEF Do, Done

\* SetFullState sets what GetFullState then returns.
LEMMA FullStateSet ==
  ASSUME NEW st, OsdOK(st), NEW full \in Osd!FullState
  PROVE  LET r == Osd!SetFullState(st, full)
         IN  /\ OsdOK(r)
             /\ Osd!Consistent(full) => Osd!GetFullState(r.elem) = Osd!Normalized(full)
<1> DEFINE gone == {m \in OsdMedias : full.osds[m] = Osd!NoClip}
           unused == {id \in OsdIds : full.types[id] = "none"}
           types == {id \in OsdIds : full.types[id] \notin {"none", st.elem.types[id]}}
           osds == {m \in OsdMedias : full.osds[m] \notin {Osd!NoClip, Osd!ClipOf(st.elem, m)}}
           Create(s, x) == Osd!CreateOverlayType(s, x, full.types[x])
           Set(s, x) == Osd!SetAssociatedOsds(s, x, full.osds[x])
           s1 == Osd!ForAll(gone, st, Osd!DeleteAssociatedOsds)
           s2 == Osd!ForAll(unused, s1, Osd!DestroyOverlayType)
           s3 == Created(types, s2, full)
           r == Given(osds, s3, full)
<1>1. r = Osd!SetFullState(st, full)
  <2>1. \A S, s : Osd!ForAll(S, s, Create) = Created(S, s, full) BY DEF Osd!ForAll, Created, First
  <2>2. \A S, s : Osd!ForAll(S, s, Set) = Given(S, s, full) BY DEF Osd!ForAll, Given, First
  <2> HIDE DEF s1, s2
  <2>3. Osd!SetFullState(st, full) = Osd!ForAll(osds, Osd!ForAll(types, s2, Create), Set)
    BY DEF Osd!SetFullState, Osd!None, s1, s2
  <2> QED BY <2>1, <2>2, <2>3
<1>2. /\ OsdOK(s1) /\ s1.elem.types = st.elem.types
      /\ \A n \in OsdMedias : Osd!ClipOf(s1.elem, n) =
                              IF n \in gone THEN Osd!NoClip ELSE Osd!ClipOf(st.elem, n)
  BY ClipsDeleted
<1> HIDE DEF s1
<1>3. /\ OsdOK(s2)
      /\ \A id \in OsdIds : s2.elem.types[id] = IF id \in unused THEN "none" ELSE s1.elem.types[id]
      /\ \A n \in OsdMedias :
           Osd!ClipOf(s1.elem, n) = Osd!NoClip \/ Osd!ClipOf(s1.elem, n).has \cap unused = {}
             => Osd!ClipOf(s2.elem, n) = Osd!ClipOf(s1.elem, n)
  BY <1>2, TypesDestroyed
<1> HIDE DEF s2
<1>4. /\ OsdOK(s3)
      /\ \A id \in OsdIds : s3.elem.types[id] = IF id \in types THEN full.types[id] ELSE s2.elem.types[id]
      /\ \A n \in OsdMedias : Osd!ClipOf(s3.elem, n) = Osd!ClipOf(s2.elem, n)
  BY <1>3, TypesCreated
<1> HIDE DEF s3
<1>5. /\ OsdOK(r) /\ r.elem.types = s3.elem.types
      /\ \A n \in OsdMedias : (\A m \in osds : NormalizePath[m] # n)
           => Osd!ClipOf(r.elem, n) = Osd!ClipOf(s3.elem, n)
      /\ \A m \in osds : (\A k \in osds : NormalizePath[k] = NormalizePath[m] => k = m)
           => Osd!ClipOf(r.elem, NormalizePath[m]) = full.osds[m]
  BY <1>4, ClipsSet
<1> HIDE DEF r
<1> DEFINE From(n) == {m \in OsdMedias : full.osds[m] # Osd!NoClip /\ NormalizePath[m] = n}
<1>6. ASSUME Osd!Consistent(full)
      PROVE  Osd!GetFullState(r.elem) = Osd!Normalized(full)
  <2>1. \A id \in OsdIds : r.elem.types[id] = full.types[id] BY <1>2, <1>3, <1>4, <1>5
  <2>2. /\ \A m, n \in OsdMedias : full.osds[m] # Osd!NoClip /\ full.osds[n] # Osd!NoClip
                                    /\ NormalizePath[m] = NormalizePath[n] => m = n
        /\ \A m \in OsdMedias : full.osds[m] # Osd!NoClip =>
             \A id \in full.osds[m].has : full.types[id] # "none"
    BY <1>6 DEF Osd!Consistent, Osd!None
  <2>3. ASSUME NEW n \in OsdMedias, NEW m \in From(n) PROVE Osd!ClipOf(r.elem, n) = full.osds[m]
    <3>1. m \in OsdMedias /\ full.osds[m] # Osd!NoClip /\ NormalizePath[m] = n
          /\ NormalizePath[n] = n
      BY <2>3, ElementsAssumption
    <3>2. CASE m \in osds BY <1>5, <2>2, <3>1, <3>2
    <3>3. CASE m \notin osds
      <4>1. full.osds[m] = Osd!ClipOf(st.elem, m) BY <3>1, <3>3
      <4>2. m = n BY <3>1, <4>1 DEF OsdOK, ElemOK, Osd!ClipOf, Osd!NULL
      <4>3. Osd!ClipOf(s1.elem, n) = full.osds[n] BY <1>2, <3>1, <4>1, <4>2
      <4>4. full.osds[n].has \cap unused = {} BY <2>2, <3>1, <4>2
      <4>5. Osd!ClipOf(s2.elem, n) = full.osds[n] BY <1>3, <4>3, <4>4
      <4>6. \A k \in osds : NormalizePath[k] # n BY <2>2, <3>1, <3>3, <4>2
      <4> QED BY <1>4, <1>5, <4>2, <4>5, <4>6
    <3> QED BY <3>2, <3>3
  <2>4. ASSUME NEW n \in OsdMedias, From(n) = {} PROVE Osd!ClipOf(r.elem, n) = Osd!NoClip
    <3>1. \A k \in osds : NormalizePath[k] # n BY <2>4
    <3>2. CASE NormalizePath[n] # n
      BY <1>5, <3>2 DEF OsdOK, ElemOK, Osd!ClipOf, Osd!NULL
    <3>3. CASE NormalizePath[n] = n
      <4>1. n \in gone BY <2>4, <3>3
      <4>2. Osd!ClipOf(s1.elem, n) = Osd!NoClip BY <1>2, <4>1
      <4> QED BY <1>3, <1>4, <1>5, <3>1, <4>2
    <3> QED BY <3>2, <3>3
  <2>5. /\ r.elem.types \in [OsdIds -> Styles \cup {"none"}] /\ full.types \in [OsdIds -> Styles \cup {"none"}]
    BY <1>5 DEF OsdOK, OsdState, Osd!Element, Osd!FullState, Osd!None
  <2>6. r.elem.types = full.types BY <2>1, <2>5
  <2>7. \A n \in OsdMedias : Osd!ClipOf(r.elem, n) =
          IF From(n) = {} THEN Osd!NoClip ELSE full.osds[CHOOSE m \in From(n) : TRUE]
    <3> HIDE DEF From
    <3> TAKE n \in OsdMedias
    <3>1. From(n) # {} => (CHOOSE m \in From(n) : TRUE) \in From(n) OBVIOUS
    <3> QED BY <2>3, <2>4, <3>1
  <2>8. Osd!Normalized(full) = [types |-> full.types, osds |-> [n \in OsdMedias |->
          IF From(n) = {} THEN Osd!NoClip ELSE full.osds[CHOOSE m \in From(n) : TRUE]]]
    BY DEF Osd!Normalized, Osd!FullState
  <2>9. Osd!GetFullState(r.elem) =
          [types |-> full.types, osds |-> [n \in OsdMedias |-> Osd!ClipOf(r.elem, n)]]
    BY <2>6 DEF Osd!GetFullState
  <2> HIDE DEF From
  <2> QED BY <2>7, <2>8, <2>9
<1> QED BY <1>1, <1>5, <1>6

\* The states that the operations start from and lead to are those of the
\* element.
OsdInv == OsdOK(Osd!State)

\* An RPC that leads to a state in order.
LEMMA RpcDone ==
  ASSUME NEW st, OsdOK(st), Osd!Becomes(st)
  PROVE  OsdInv'
<1>1. st = [elem |-> st.elem, disk |-> st.disk, clients |-> st.clients, dropped |-> st.dropped]
  BY DEF OsdOK, OsdState
<1>2. Osd!State' = st BY <1>1 DEF Osd!Becomes, Osd!State
<1> QED BY <1>2 DEF OsdInv

\* The RPCs, whoever plays.
LEMMA RpcsOK ==
  ASSUME OsdInv, Osd!RpcStep
  PROVE  OsdInv'
<1> DEFINE st == Osd!State
<1>1. OsdOK(st) BY DEF OsdInv
<1> HIDE DEF st
<1>2. ASSUME NEW m \in OsdMedias, NEW clip \in Osd!Clip, Osd!Becomes(Osd!SetAssociatedOsds(st, m, clip))
      PROVE  OsdInv'
  BY <1>1, <1>2, ClipSet, RpcDone
<1>3. ASSUME NEW m \in OsdMedias, Osd!Becomes(Osd!DeleteAssociatedOsds(st, m))
      PROVE  OsdInv'
  BY <1>1, <1>3, ClipDeleted, RpcDone
<1>4. ASSUME NEW id \in OsdIds, NEW style \in Styles, Osd!Becomes(Osd!CreateOverlayType(st, id, style))
      PROVE  OsdInv'
  BY <1>1, <1>4, TypeCreated, RpcDone
<1>5. ASSUME NEW id \in OsdIds, Osd!Becomes(Osd!DestroyOverlayType(st, id))
      PROVE  OsdInv'
  BY <1>1, <1>5, TypeDestroyed, RpcDone
<1>6. ASSUME NEW full \in FullStates, Osd!Becomes(Osd!SetFullState(st, full))
      PROVE  OsdInv'
  <2>1. full \in Osd!FullState BY ElementsAssumption
  <2> QED BY <1>1, <1>6, <2>1, FullStateSet, RpcDone
<1> QED BY <1>2, <1>3, <1>4, <1>5, <1>6 DEF Osd!RpcStep, st

\* A step of one client, whose media may change.
LEMMA OneOsdClient ==
  ASSUME OsdInv, NEW c \in OsdClients, NEW data, NEW e2 \in Osd!Element,
         e2.types = elem.types, e2.heap = elem.heap, e2.osds = elem.osds,
         \A b \in OsdClients \ {c}, m \in OsdMedias : b \in e2.users[m] <=> b \in elem.users[m],
         ClientOK(e2, c, data),
         elem' = e2, clients' = [clients EXCEPT ![c] = data], disk' = disk, dropped' = dropped
  PROVE  OsdInv'
<1>1. /\ Osd!State \in OsdState /\ ElemOK(elem) /\ Kept(Osd!State)
      /\ \A b \in OsdClients : ClientOK(elem, b, clients[b])
      /\ clients \in [OsdClients -> Osd!Client] /\ disk \in Osd!FullState
      /\ dropped \in [OsdMedias -> SUBSET OsdIds]
  BY DEF OsdInv, OsdOK, OsdState, Osd!State
<1>2. ElemOK(e2) BY <1>1 DEF ElemOK
<1>3. /\ \A n : Osd!ClipOf(e2, n) = Osd!ClipOf(elem, n)
      /\ \A k : Osd!Having(e2, k) = Osd!Having(elem, k)
  BY DEF Osd!ClipOf, Osd!Having
<1>4. ASSUME NEW b \in OsdClients \ {c} PROVE ClientOK(e2, b, clients[b])
  <2>1. \A id \in OsdIds : Wanted(e2, b, id) = Wanted(elem, b, id) BY <1>3 DEF Wanted
  <2>2. ClientOK(elem, b, clients[b]) BY <1>1
  <2> QED BY <2>1, <2>2 DEF ClientOK
<1>5. /\ \A b \in OsdClients : ClientOK(e2, b, clients'[b])
      /\ clients' \in [OsdClients -> Osd!Client]
  BY <1>1, <1>4 DEF ClientOK
<1>6. Osd!State' \in OsdState /\ Kept(Osd!State')
  BY <1>1, <1>3, <1>5 DEF OsdState, Osd!State, Kept
<1>7. OsdOK(Osd!State') BY <1>2, <1>5, <1>6 DEF OsdOK, Osd!State
<1> QED BY <1>7 DEF OsdInv

\* A client that has just come.
LEMMA NewClientOK ==
  ASSUME NEW e, NEW c \in OsdClients, \A m \in OsdMedias : c \notin e.users[m]
  PROVE  ClientOK(e, c, Osd!NewClient) /\ ClientOK(e, c, [Osd!NewClient EXCEPT !.state = "open"])
<1> DEFINE absent == [m \in OsdMedias |-> "absent"]
           same == [id \in OsdIds |-> "same"]
           none == [id \in OsdIds |-> "none"]
           d == [state |-> "closed", assoc |-> absent, pending |-> same, shown |-> none,
                 overlap |-> FALSE, stays |-> {}]
           d2 == [d EXCEPT !.state = "open"]
<1>1. d = Osd!NewClient BY DEF Osd!NewClient, Osd!Nothing, Osd!None, Osd!Same, Osd!Absent
<1>2. /\ absent \in [OsdMedias -> OsdObjects \cup {Osd!NULL, Osd!Absent}]
      /\ same \in Osd!Effect /\ none \in [OsdIds -> Styles \cup {Osd!None}]
      /\ \A m \in OsdMedias : absent[m] = "absent"
      /\ \A id \in OsdIds : Osd!Then(none, same)[id] = "none" /\ none[id] = "none"
  BY DEF Osd!NULL, Osd!Absent, Osd!Effect, Osd!None, Osd!Same, Osd!Then
<1> HIDE DEF absent, same, none
<1>3. /\ d \in Osd!Client /\ d.state = "closed" /\ d.assoc = absent /\ d.pending = same /\ d.shown = none
  BY <1>2 DEF Osd!Client
<1> HIDE DEF d
<1>4. /\ d2 \in Osd!Client /\ d2.state = "open" /\ d2.assoc = absent /\ d2.pending = same
      /\ d2.shown = none
  BY <1>3 DEF Osd!Client
<1> HIDE DEF d2
<1>5. \A id \in OsdIds : Wanted(e, c, id) = "none" BY DEF Wanted
<1>6. ClientOK(e, c, d) /\ ClientOK(e, c, d2) BY <1>2, <1>3, <1>4, <1>5 DEF ClientOK
<1> QED BY <1>1, <1>6 DEF d2

\* What the invariant says of a client.
LEMMA ClientKnown ==
  ASSUME OsdInv, NEW c \in OsdClients
  PROVE  /\ elem \in Osd!Element /\ ElemOK(elem) /\ clients[c] \in Osd!Client
         /\ ClientOK(elem, c, clients[c])
         /\ elem.users \in [OsdMedias -> SUBSET OsdClients]
         /\ elem.osds \in [OsdMedias -> OsdObjects \cup {"NULL"}]
         /\ \A m \in OsdMedias : elem.osds[m] # "absent"
         /\ clients[c].state # "open" => \A m \in OsdMedias : c \notin elem.users[m]
<1>1. elem \in Osd!Element /\ ElemOK(elem) /\ clients[c] \in Osd!Client /\ ClientOK(elem, c, clients[c])
  BY DEF OsdInv, OsdOK, OsdState, Osd!State
<1>2. /\ elem.users \in [OsdMedias -> SUBSET OsdClients]
      /\ elem.osds \in [OsdMedias -> OsdObjects \cup {"NULL"}]
  BY <1>1 DEF Osd!Element, Osd!NULL
<1>3. \A m \in OsdMedias : elem.osds[m] # "absent" BY <1>2, ElementsAssumption
<1> QED BY <1>1, <1>2, <1>3 DEF ClientOK

\* A client opens; it has no media yet.
LEMMA OsdClientComes ==
  ASSUME OsdInv, NEW c \in OsdClients, Osd!CreateCallbackData(c)
  PROVE  OsdInv'
<1>1. /\ elem \in Osd!Element /\ \A m \in OsdMedias : c \notin elem.users[m]
  BY ClientKnown DEF Osd!CreateCallbackData
<1> DEFINE data == [Osd!NewClient EXCEPT !.state = "open"]
<1>2. clients' = [clients EXCEPT ![c] = data] /\ elem' = elem /\ disk' = disk /\ dropped' = dropped
  BY DEF Osd!CreateCallbackData, Osd!Becoming
<1>3. ClientOK(elem, c, data) BY <1>1, NewClientOK
<1> HIDE DEF data
<1> QED BY <1>1, <1>2, <1>3, OneOsdClient

\* A tag that is sent shows what is pending.
LEMMA ClientShows ==
  ASSUME OsdInv, NEW c \in OsdClients, Osd!VideoTag(c)
  PROVE  OsdInv'
<1> DEFINE d == clients[c]
           shown == Osd!Then(d.shown, d.pending)
           data == [d EXCEPT !.pending = Osd!Nothing, !.shown = shown]
<1>1. elem \in Osd!Element /\ d \in Osd!Client /\ ClientOK(elem, c, d) BY ClientKnown
<1>2. d.state = "open" BY DEF Osd!VideoTag
<1>3. clients' = [clients EXCEPT ![c] = data] /\ elem' = elem /\ disk' = disk /\ dropped' = dropped
  BY DEF Osd!VideoTag, Osd!Becoming, Osd!Displayed
<1> HIDE DEF d
<1>4. /\ shown \in [OsdIds -> Styles \cup {"none"}]
      /\ Osd!Nothing \in Osd!Effect
  BY <1>1 DEF Osd!Then, Osd!Client, Osd!Effect, Osd!None, Osd!Same, Osd!Nothing
<1> HIDE DEF shown
<1>5. /\ data \in Osd!Client /\ data.shown = shown /\ data.pending = Osd!Nothing
      /\ data.state = d.state /\ data.assoc = d.assoc /\ data.overlap = d.overlap /\ data.stays = d.stays
  BY <1>1, <1>4 DEF Osd!Client, Osd!None
<1> HIDE DEF data
<1>6. \A id \in OsdIds : Osd!Then(data.shown, data.pending)[id] = Osd!Then(d.shown, d.pending)[id]
  BY <1>5 DEF Osd!Then, Osd!Nothing, shown
<1>7. ClientOK(elem, c, data) BY <1>1, <1>2, <1>5, <1>6 DEF ClientOK
<1> QED BY <1>1, <1>3, <1>7, OneOsdClient

\* The element without a client.
LEMMA WithoutClient ==
  ASSUME OsdInv, NEW c \in OsdClients
  PROVE  LET e2 == [elem EXCEPT !.users = [m \in OsdMedias |-> @[m] \ {c}]]
         IN  /\ e2 \in Osd!Element /\ e2.types = elem.types /\ e2.heap = elem.heap /\ e2.osds = elem.osds
             /\ \A m \in OsdMedias : c \notin e2.users[m]
             /\ \A b \in OsdClients \ {c}, m \in OsdMedias : b \in e2.users[m] <=> b \in elem.users[m]
<1> DEFINE users == [m \in OsdMedias |-> elem.users[m] \ {c}]
           e2 == [elem EXCEPT !.users = users]
<1>1. elem \in Osd!Element /\ users \in [OsdMedias -> SUBSET OsdClients]
  BY ClientKnown
<1>2. \A m \in OsdMedias : users[m] = elem.users[m] \ {c} OBVIOUS
<1> HIDE DEF users
<1>3. e2 \in Osd!Element /\ e2.types = elem.types /\ e2.heap = elem.heap /\ e2.osds = elem.osds /\ e2.users = users
  BY <1>1 DEF Osd!Element
<1>4. e2 = [elem EXCEPT !.users = [m \in OsdMedias |-> @[m] \ {c}]] BY DEF users
<1> HIDE DEF e2
<1> QED BY <1>2, <1>3, <1>4

\* A client that goes uses no media.
LEMMA OsdClientGoes ==
  ASSUME OsdInv, NEW c \in OsdClients, Osd!DeleteCallbackData(c)
  PROVE  OsdInv'
<1> DEFINE e2 == [elem EXCEPT !.users = [m \in OsdMedias |-> @[m] \ {c}]]
<1>1. clients' = [clients EXCEPT ![c] = Osd!NewClient] /\ elem' = e2 /\ disk' = disk /\ dropped' = dropped
  BY DEF Osd!DeleteCallbackData, Osd!Becoming, Osd!Leaves
<1>2. /\ e2 \in Osd!Element /\ e2.types = elem.types /\ e2.heap = elem.heap /\ e2.osds = elem.osds
      /\ \A m \in OsdMedias : c \notin e2.users[m]
      /\ \A b \in OsdClients \ {c}, m \in OsdMedias : b \in e2.users[m] <=> b \in elem.users[m]
  BY WithoutClient
<1> HIDE DEF e2
<1>3. ClientOK(e2, c, Osd!NewClient) BY <1>2, NewClientOK
<1> QED BY <1>1, <1>2, <1>3, OneOsdClient

\* What a client sees of a clip.
LEMMA ShowsHaving ==
  ASSUME NEW e, NEW m \in OsdMedias, NEW id \in OsdIds, e.osds[m] # "NULL"
  PROVE  Osd!Shows(e, e.osds[m], id) <=> m \in Osd!Having(e, id) /\ e.types[id] # "none"
BY DEF Osd!Shows, Osd!Having, Osd!None, Osd!NULL

\* A media begins for a client: it gets its clip, and the tags to show it.
LEMMA SourceStarts ==
  ASSUME OsdInv, NEW c \in OsdClients, NEW m \in OsdMedias, Osd!SourceStarted(c, m)
  PROVE  OsdInv'
<1> DEFINE d == clients[c]
           new == elem.osds[m]
           users == [elem.users EXCEPT ![m] = @ \cup {c}]
           e2 == [elem EXCEPT !.users = users]
           r == Osd!ChangeOsds(elem, d, m, new)
           others == \E n \in OsdMedias \ {m} : c \in elem.users[n]
           data == [r EXCEPT !.overlap = @ \/ others]
<1>1. /\ elem \in Osd!Element /\ ElemOK(elem) /\ d \in Osd!Client /\ ClientOK(elem, c, d)
      /\ elem.users \in [OsdMedias -> SUBSET OsdClients]
      /\ elem.osds \in [OsdMedias -> OsdObjects \cup {"NULL"}]
      /\ \A n \in OsdMedias : elem.osds[n] # "absent"
  BY ClientKnown
<1>2. d.state = "open" /\ d.assoc[m] \in {"absent", "NULL"}
  BY DEF Osd!SourceStarted, Osd!Absent, Osd!NULL
<1>3. /\ clients' = [clients EXCEPT ![c] = data] /\ elem' = e2 /\ disk' = disk /\ dropped' = dropped
  <2>1. e2 = [elem EXCEPT !.users[m] = @ \cup {c}] OBVIOUS
  <2> HIDE DEF e2
  <2> QED BY <2>1 DEF Osd!SourceStarted, Osd!Becoming
<1> HIDE DEF d
<1>4. /\ r \in Osd!Client
      /\ r.assoc = [d.assoc EXCEPT ![m] = new]
      /\ r.state = d.state /\ r.shown = d.shown /\ r.overlap = d.overlap /\ r.stays = d.stays
      /\ \A id \in OsdIds : Osd!Then(r.shown, r.pending)[id] =
           IF new # "NULL" /\ Osd!Shows(elem, new, id) THEN elem.types[id]
           ELSE Osd!Then(d.shown, d.pending)[id]
  <2>1. new \in OsdObjects \cup {"NULL"} BY <1>1
  <2>2. d.assoc[m] \notin {"absent", "NULL", new} <=> FALSE BY <1>2
  <2>3. elem \in Osd!Element /\ d \in Osd!Client BY <1>1
  <2> HIDE DEF new
  <2>4. /\ r \in Osd!Client
        /\ r.assoc = [d.assoc EXCEPT ![m] = new]
        /\ r.state = d.state /\ r.shown = d.shown /\ r.overlap = d.overlap /\ r.stays = d.stays
        /\ \A id \in OsdIds : Osd!Then(r.shown, r.pending)[id] =
             IF new # "NULL" /\ Osd!Shows(elem, new, id) THEN elem.types[id]
             ELSE IF d.assoc[m] \notin {"absent", "NULL", new} /\ Osd!Shows(elem, d.assoc[m], id) THEN "none"
             ELSE Osd!Then(d.shown, d.pending)[id]
    BY <2>1, <2>3, ClipChanges
  <2> HIDE DEF r
  <2> QED BY <2>2, <2>4
<1> HIDE DEF r
<1>5. users \in [OsdMedias -> SUBSET OsdClients]
      /\ \A n \in OsdMedias : users[n] = IF n = m THEN elem.users[n] \cup {c} ELSE elem.users[n]
  BY <1>1
<1> HIDE DEF users
<1>6. /\ e2 \in Osd!Element /\ e2.types = elem.types /\ e2.heap = elem.heap /\ e2.osds = elem.osds
      /\ e2.users = users
  BY <1>1, <1>5 DEF Osd!Element
<1> HIDE DEF e2
<1>7. others \in BOOLEAN OBVIOUS
<1>8. /\ data \in Osd!Client /\ data.assoc = r.assoc /\ data.state = "open" /\ data.shown = r.shown
      /\ data.pending = r.pending
      /\ data.overlap <=> d.overlap \/ others
  <2> HIDE DEF others
  <2> QED BY <1>2, <1>4, <1>7 DEF Osd!Client
<1> HIDE DEF data
<1>9. \A n \in OsdMedias :
        /\ c \in e2.users[n] => data.assoc[n] = e2.osds[n]
        /\ c \notin e2.users[n] => data.assoc[n] \in {"absent", "NULL"}
  <2> TAKE n \in OsdMedias
  <2>1. d.assoc \in [OsdMedias -> OsdObjects \cup {Osd!NULL, Osd!Absent}] BY <1>1 DEF Osd!Client
  <2>2. data.assoc[n] = IF n = m THEN new ELSE d.assoc[n] BY <1>4, <1>8, <2>1
  <2> QED BY <1>1, <1>5, <1>6, <2>2 DEF ClientOK
<1>10. ASSUME ~data.overlap
       PROVE  /\ \A n, k \in OsdMedias : c \in e2.users[n] /\ c \in e2.users[k] => n = k
              /\ \A id \in OsdIds : Osd!Then(data.shown, data.pending)[id] = Wanted(e2, c, id)
  <2>1. \A n \in OsdMedias : c \in e2.users[n] <=> n = m BY <1>5, <1>6, <1>8, <1>10
  <2>2. ASSUME NEW id \in OsdIds PROVE Osd!Then(data.shown, data.pending)[id] = Wanted(e2, c, id)
    <3>1. Wanted(e2, c, id) = IF m \in Osd!Having(elem, id) THEN elem.types[id] ELSE "none"
      <4>1. Osd!Having(e2, id) = Osd!Having(elem, id) BY <1>6 DEF Osd!Having
      <4> QED BY <1>6, <2>1, <4>1 DEF Wanted
    <3>2. Osd!Then(d.shown, d.pending)[id] = "none"
      <4>1. Osd!Then(d.shown, d.pending)[id] = Wanted(elem, c, id)
        BY <1>1, <1>2, <1>8, <1>10 DEF ClientOK
      <4>2. \A n \in OsdMedias : c \in elem.users[n] => n = m BY <2>1, <1>5, <1>6
      <4>3. c \in elem.users[m] => elem.osds[m] = "NULL" BY <1>1, <1>2 DEF ClientOK
      <4>4. c \in elem.users[m] => m \notin Osd!Having(elem, id) BY <4>3 DEF Osd!Having, Osd!NULL
      <4> QED BY <4>1, <4>2, <4>4 DEF Wanted
    <3>3. Osd!Then(data.shown, data.pending)[id] =
            IF new # "NULL" /\ Osd!Shows(elem, new, id) THEN elem.types[id] ELSE "none"
      BY <1>4, <1>8, <3>2
    <3>4. new = "NULL" => m \notin Osd!Having(elem, id) BY DEF Osd!Having, Osd!NULL
    <3>5. new # "NULL" => (Osd!Shows(elem, new, id) <=> m \in Osd!Having(elem, id) /\ elem.types[id] # "none")
      BY ShowsHaving
    <3> QED BY <3>1, <3>3, <3>4, <3>5
  <2> QED BY <2>1, <2>2
<1>11. ClientOK(e2, c, data) BY <1>8, <1>9, <1>10 DEF ClientOK
<1>12. \A b \in OsdClients \ {c}, n \in OsdMedias : b \in e2.users[n] <=> b \in elem.users[n]
  BY <1>5, <1>6
<1> QED BY <1>3, <1>6, <1>11, <1>12, OneOsdClient

\* A media ends for a client: what its clip showed is taken away.
LEMMA SourceEnds ==
  ASSUME OsdInv, NEW c \in OsdClients, NEW m \in OsdMedias, Osd!SourceEnded(c, m)
  PROVE  OsdInv'
<1> DEFINE d == clients[c]
           users == [elem.users EXCEPT ![m] = @ \ {c}]
           e2 == [elem EXCEPT !.users = users]
           data == Osd!ChangeOsds(elem, d, m, "NULL")
<1>1. /\ elem \in Osd!Element /\ ElemOK(elem) /\ d \in Osd!Client /\ ClientOK(elem, c, d)
      /\ elem.users \in [OsdMedias -> SUBSET OsdClients]
      /\ elem.osds \in [OsdMedias -> OsdObjects \cup {"NULL"}]
      /\ \A n \in OsdMedias : elem.osds[n] # "absent"
  BY ClientKnown
<1>2. d.state = "open" BY DEF Osd!SourceEnded
<1>3. /\ clients' = [clients EXCEPT ![c] = data] /\ elem' = e2 /\ disk' = disk /\ dropped' = dropped
  <2>1. e2 = [elem EXCEPT !.users[m] = @ \ {c}] OBVIOUS
  <2> HIDE DEF e2
  <2> QED BY <2>1 DEF Osd!SourceEnded, Osd!Becoming, Osd!NULL
<1> HIDE DEF d
<1>4. /\ data \in Osd!Client
      /\ data.assoc = [d.assoc EXCEPT ![m] = "NULL"]
      /\ data.state = d.state /\ data.shown = d.shown /\ data.overlap = d.overlap /\ data.stays = d.stays
      /\ \A id \in OsdIds : Osd!Then(data.shown, data.pending)[id] =
           IF d.assoc[m] \notin {"absent", "NULL"} /\ Osd!Shows(elem, d.assoc[m], id) THEN "none"
           ELSE Osd!Then(d.shown, d.pending)[id]
  <2> DEFINE new == "NULL"
  <2>1. new \in OsdObjects \cup {"NULL"} OBVIOUS
  <2> HIDE DEF new
  <2>2. LET r == Osd!ChangeOsds(elem, d, m, new)
            old == d.assoc[m]
        IN  /\ r \in Osd!Client
             /\ r.assoc = [d.assoc EXCEPT ![m] = new]
             /\ r.state = d.state /\ r.shown = d.shown /\ r.overlap = d.overlap /\ r.stays = d.stays
             /\ \A id \in OsdIds : Osd!Then(r.shown, r.pending)[id] =
                  IF new # "NULL" /\ Osd!Shows(elem, new, id) THEN elem.types[id]
                  ELSE IF old \notin {"absent", "NULL", new} /\ Osd!Shows(elem, old, id) THEN "none"
                  ELSE Osd!Then(d.shown, d.pending)[id]
    <3>1. elem \in Osd!Element /\ d \in Osd!Client BY <1>1
    <3> QED BY <2>1, <3>1, ClipChanges
  <2> QED BY <2>2 DEF new
<1> HIDE DEF data
<1>5. users \in [OsdMedias -> SUBSET OsdClients]
      /\ \A n \in OsdMedias : users[n] = IF n = m THEN elem.users[n] \ {c} ELSE elem.users[n]
  BY <1>1
<1> HIDE DEF users
<1>6. /\ e2 \in Osd!Element /\ e2.types = elem.types /\ e2.heap = elem.heap /\ e2.osds = elem.osds
      /\ e2.users = users
  BY <1>1, <1>5 DEF Osd!Element
<1> HIDE DEF e2
<1>7. \A n \in OsdMedias :
        /\ c \in e2.users[n] => data.assoc[n] = e2.osds[n]
        /\ c \notin e2.users[n] => data.assoc[n] \in {"absent", "NULL"}
  <2> TAKE n \in OsdMedias
  <2>1. d.assoc \in [OsdMedias -> OsdObjects \cup {Osd!NULL, Osd!Absent}] BY <1>1 DEF Osd!Client
  <2>2. data.assoc[n] = IF n = m THEN "NULL" ELSE d.assoc[n] BY <1>4, <2>1
  <2> QED BY <1>1, <1>5, <1>6, <2>2 DEF ClientOK
<1>8. ASSUME ~data.overlap
      PROVE  /\ \A n, k \in OsdMedias : c \in e2.users[n] /\ c \in e2.users[k] => n = k
             /\ \A id \in OsdIds : Osd!Then(data.shown, data.pending)[id] = Wanted(e2, c, id)
  <2>1. \A n, k \in OsdMedias : c \in elem.users[n] /\ c \in elem.users[k] => n = k
    BY <1>1, <1>2, <1>4, <1>8 DEF ClientOK
  <2>2. ASSUME NEW id \in OsdIds PROVE Osd!Then(data.shown, data.pending)[id] = Wanted(e2, c, id)
    <3>1. Osd!Then(d.shown, d.pending)[id] = Wanted(elem, c, id)
      BY <1>1, <1>2, <1>4, <1>8 DEF ClientOK
    <3>2. Osd!Having(e2, id) = Osd!Having(elem, id) BY <1>6 DEF Osd!Having
    <3>3. CASE c \in elem.users[m]
      <4>1. \A n \in OsdMedias : c \notin e2.users[n] BY <1>5, <1>6, <2>1, <3>3
      <4>2. Wanted(e2, c, id) = "none" BY <4>1 DEF Wanted
      <4>3. d.assoc[m] = elem.osds[m] BY <1>1, <3>3 DEF ClientOK
      <4>4. Wanted(elem, c, id) = IF m \in Osd!Having(elem, id) THEN elem.types[id] ELSE "none"
        BY <2>1, <3>3 DEF Wanted
      <4>5. elem.osds[m] = "NULL" => m \notin Osd!Having(elem, id) BY DEF Osd!Having, Osd!NULL
      <4>6. elem.osds[m] # "NULL" =>
              (Osd!Shows(elem, elem.osds[m], id) <=> m \in Osd!Having(elem, id) /\ elem.types[id] # "none")
        BY ShowsHaving
      <4>7. Osd!Then(data.shown, data.pending)[id] =
              IF elem.osds[m] # "NULL" /\ Osd!Shows(elem, elem.osds[m], id) THEN "none"
              ELSE Wanted(elem, c, id)
        BY <1>1, <1>4, <3>1, <4>3
      <4> QED BY <4>2, <4>4, <4>5, <4>6, <4>7
    <3>4. CASE c \notin elem.users[m]
      <4>1. d.assoc[m] \in {"absent", "NULL"} BY <1>1, <3>4 DEF ClientOK
      <4>2. \A n \in OsdMedias : c \in e2.users[n] <=> c \in elem.users[n] BY <1>5, <1>6, <3>4
      <4>3. Wanted(e2, c, id) = Wanted(elem, c, id) BY <1>6, <3>2, <4>2 DEF Wanted
      <4> QED BY <1>4, <3>1, <4>1, <4>3
    <3> QED BY <3>3, <3>4
  <2>3. \A n \in OsdMedias : c \in e2.users[n] => c \in elem.users[n] BY <1>5, <1>6
  <2> QED BY <2>1, <2>2, <2>3
<1>9. ClientOK(e2, c, data) BY <1>2, <1>4, <1>7, <1>8 DEF ClientOK
<1>10. \A b \in OsdClients \ {c}, n \in OsdMedias : b \in e2.users[n] <=> b \in elem.users[n]
  BY <1>5, <1>6
<1> QED BY <1>3, <1>6, <1>9, <1>10, OneOsdClient

\* What the tags that end the clips of an EOS do.
Ended(S, e, d) ==
  LET f == CHOOSE f : f = [T \in SUBSET S |-> IF T = {} THEN Osd!Nothing
             ELSE Osd!Then(f[T \ {First(T)}], Osd!EndTags(e, d.assoc[First(T)], FALSE))]
  IN  f[S]

\* What the end of several clips takes away.
LEMMA ClipsEnded ==
  ASSUME NEW e, NEW d, NEW S \in SUBSET OsdMedias
  PROVE  /\ Ended(S, e, d) \in [OsdIds -> {"none", "same"}]
         /\ \A id \in OsdIds : Ended(S, e, d)[id] =
              IF \E m \in S : Osd!Shows(e, d.assoc[m], id) /\ e.heap[d.assoc[m]].clear THEN "none" ELSE "same"
<1> DEFINE Do(s, x) == Osd!Then(s, Osd!EndTags(e, d.assoc[x], FALSE))
           Ends(m, id) == Osd!Shows(e, d.assoc[m], id) /\ e.heap[d.assoc[m]].clear
           Done(T, s) == /\ s \in [OsdIds -> {"none", "same"}]
                         /\ \A id \in OsdIds : s[id] = IF \E m \in T : Ends(m, id) THEN "none" ELSE "same"
           Y == [OsdIds -> {"none", "same"}]
           I == [T \in SUBSET S |-> {s \in Y : Done(T, s)}]
           G == [z \in Y \X S |-> Do(z[1], z[2])]
           Eq(f) == f = [T \in SUBSET S |-> IF T = {} THEN Osd!Nothing ELSE Do(f[T \ {First(T)}], First(T))]
           F == CHOOSE f : Eq(f)
<1>1. IsFiniteSet(S) BY FS_Subset, ElementsAssumption
<1>2. Osd!Nothing \in I[{}]
  <2>1. Done({}, Osd!Nothing) BY DEF Osd!Nothing, Osd!Same
  <2> HIDE DEF Done
  <2>2. Osd!Nothing \in Y BY <2>1 DEF Done
  <2> HIDE DEF Y
  <2> QED BY <2>1, <2>2
<1>3. ASSUME NEW T \in SUBSET S, T # {}, NEW s \in I[T \ {First(T)}]
      PROVE  Do(s, First(T)) \in I[T] /\ s \in Y /\ First(T) \in S
  <2>1. First(T) \in T /\ First(T) \in S BY <1>1, <1>3, FirstOf
  <2>2. s \in Y /\ Done(T \ {First(T)}, s) OBVIOUS
  <2> DEFINE r == Do(s, First(T))
  <2>3. /\ r \in Y
        /\ \A id \in OsdIds : r[id] = IF Ends(First(T), id) THEN "none" ELSE s[id]
    BY <2>2 DEF Osd!Then, Osd!EndTags, Osd!None, Osd!Same
  <2> HIDE DEF r, Ends
  <2>4. Done(T, r)
    <3>1. ASSUME NEW id \in OsdIds
          PROVE  r[id] = IF \E m \in T : Ends(m, id) THEN "none" ELSE "same"
      <4>1. s[id] = IF \E m \in T \ {First(T)} : Ends(m, id) THEN "none" ELSE "same" BY <2>2
      <4>2. (\E m \in T : Ends(m, id)) <=> Ends(First(T), id) \/ \E m \in T \ {First(T)} : Ends(m, id)
        BY <2>1
      <4> QED BY <2>3, <4>1, <4>2
    <3> QED BY <2>3, <3>1
  <2> HIDE DEF Done, Y
  <2> QED BY <2>1, <2>2, <2>3, <2>4 DEF r
<1> HIDE DEF I, Do, Y
<1>4. \E f : Eq(f)
  <2>1. ASSUME NEW T \in SUBSET S, T # {}, NEW s \in I[T \ {First(T)}]
        PROVE  G[<<s, First(T)>>] = Do(s, First(T)) /\ G[<<s, First(T)>>] \in I[T]
    BY <1>3, <2>1
  <2> HIDE DEF G
  <2>2. Keeps(S, Osd!Nothing, G, I) BY <1>2, <2>1 DEF Keeps
  <2>3. PICK f : IsFold(S, Osd!Nothing, G, f) /\ \A T \in SUBSET S : f[T] \in I[T]
    BY <1>1, <2>2, FoldGoes
  <2>4. ASSUME NEW T \in SUBSET S
        PROVE  f[T] = IF T = {} THEN Osd!Nothing ELSE Do(f[T \ {First(T)}], First(T))
    BY <2>1, <2>3 DEF Folded, IsFold
  <2> QED BY <2>3, <2>4 DEF IsFold
<1>5. Eq(F) BY <1>4
<1> HIDE DEF F
<1> DEFINE P == {T \in SUBSET S : F[T] \in I[T]}
<1>6. {} \in P BY <1>2, <1>5
<1>7. ASSUME NEW T \in SUBSET S, T # {}, T \ {First(T)} \in P PROVE T \in P BY <1>3, <1>5, <1>7
<1>8. F[S] \in I[S]
  <2>1. P \in SUBSET SUBSET S OBVIOUS
  <2> HIDE DEF P
  <2>2. S \in P BY <1>1, <1>6, <1>7, <2>1, SetsByFirst
  <2> QED BY <2>2 DEF P
<1>9. F[S] = Ended(S, e, d) BY DEF Ended, F, Do
<1>10. Done(S, F[S]) BY <1>8 DEF I
<1> HIDE DEF Done
<1> QED BY <1>9, <1>10 DEF Done

\* EOS ends the clips of a client that are to end.
LEMMA ClientAtEos ==
  ASSUME OsdInv, NEW c \in OsdClients, Osd!EosTag(c)
  PROVE  OsdInv'
<1> DEFINE d == clients[c]
           playing == {m \in OsdMedias : d.assoc[m] \notin {"absent", "NULL"}}
           End(effect, m) == Osd!Then(effect, Osd!EndTags(elem, d.assoc[m], FALSE))
           ended == Ended(playing, elem, d)
           effect == Osd!Then(ended, d.pending)
           shown == Osd!Then(d.shown, effect)
           assoc == [m \in OsdMedias |-> "absent"]
           stays == {id \in OsdIds :
                       \/ d.pending[id] \in Styles
                       \/ \E m \in playing : id \in elem.heap[d.assoc[m]].has
                                             /\ ~elem.heap[d.assoc[m]].clear}
           e2 == [elem EXCEPT !.users = [m \in OsdMedias |-> @[m] \ {c}]]
           seen == Osd!Displayed(d, effect)
           data == [seen EXCEPT !.state = "eos", !.assoc = assoc, !.stays = stays]
<1>1. /\ elem \in Osd!Element /\ ElemOK(elem) /\ d \in Osd!Client /\ ClientOK(elem, c, d)
      /\ elem.users \in [OsdMedias -> SUBSET OsdClients]
      /\ elem.osds \in [OsdMedias -> OsdObjects \cup {"NULL"}]
      /\ \A n \in OsdMedias : elem.osds[n] # "absent"
  BY ClientKnown
<1>2. /\ e2 \in Osd!Element /\ e2.types = elem.types /\ e2.heap = elem.heap /\ e2.osds = elem.osds
      /\ \A m \in OsdMedias : c \notin e2.users[m]
      /\ \A b \in OsdClients \ {c}, m \in OsdMedias : b \in e2.users[m] <=> b \in elem.users[m]
  BY WithoutClient
<1>3. /\ clients' = [clients EXCEPT ![c] = data] /\ elem' = e2 /\ disk' = disk /\ dropped' = dropped
      /\ d.state = "open"
  <2>1. \A S, s : Osd!ForAll(S, Osd!Nothing, End) = Ended(S, elem, d) BY DEF Osd!ForAll, Ended, First
  <2>2. clients' = [clients EXCEPT ![c] =
          [Osd!Displayed(d, Osd!Then(Osd!ForAll(playing, Osd!Nothing, End), d.pending)) EXCEPT
             !.state = "eos", !.assoc = assoc, !.stays = stays]]
    BY DEF Osd!EosTag, Osd!Becoming, Osd!Absent, Osd!NULL
  <2>3. elem' = e2 /\ disk' = disk /\ dropped' = dropped /\ d.state = "open"
    BY DEF Osd!EosTag, Osd!Leaves
  <2> HIDE DEF e2, d, End
  <2> QED BY <2>1, <2>2, <2>3
<1> HIDE DEF e2, d
<1>4. /\ ended \in [OsdIds -> {"none", "same"}]
      /\ \A id \in OsdIds : ended[id] =
           IF \E m \in playing : Osd!Shows(elem, d.assoc[m], id) /\ elem.heap[d.assoc[m]].clear
           THEN "none" ELSE "same"
  <2>1. playing \in SUBSET OsdMedias OBVIOUS
  <2> HIDE DEF playing
  <2> QED BY <2>1, ClipsEnded
<1> HIDE DEF ended
<1>5. /\ d.pending \in [OsdIds -> Styles \cup {"none", "same"}]
      /\ d.shown \in [OsdIds -> Styles \cup {"none"}]
      /\ d.assoc \in [OsdMedias -> OsdObjects \cup {"NULL", "absent"}]
      /\ d.overlap \in BOOLEAN
  BY <1>1 DEF Osd!Client, Osd!Effect, Osd!None, Osd!Same, Osd!NULL, Osd!Absent
<1>6. /\ shown \in [OsdIds -> Styles \cup {Osd!None}]
      /\ \A id \in OsdIds : shown[id] = IF d.pending[id] # "same" THEN d.pending[id]
                                        ELSE IF ended[id] = "same" THEN d.shown[id] ELSE "none"
  BY <1>4, <1>5 DEF Osd!Then, Osd!Same, Osd!None
<1> HIDE DEF shown
<1>7. \A m \in playing : /\ m \in OsdMedias /\ d.assoc[m] = elem.osds[m] /\ c \in elem.users[m]
                         /\ d.assoc[m] \in OsdObjects /\ elem.heap[d.assoc[m]] \in Osd!Clip
                         /\ elem.osds[m] # "NULL"
  <2> TAKE m \in playing
  <2>1. m \in OsdMedias /\ d.assoc[m] \notin {"absent", "NULL"} OBVIOUS
  <2>2. c \in elem.users[m] /\ d.assoc[m] = elem.osds[m] BY <1>1, <2>1 DEF ClientOK
  <2>3. d.assoc[m] \in OsdObjects BY <1>5, <2>1
  <2>4. elem.heap[d.assoc[m]] \in Osd!Clip BY <1>1, <2>1, <2>2 DEF ElemOK
  <2> QED BY <2>1, <2>2, <2>3, <2>4
<1>8. \A m \in OsdMedias : c \in elem.users[m] /\ elem.osds[m] # "NULL" => m \in playing
  BY <1>1 DEF ClientOK
<1>9. stays \in SUBSET OsdIds OBVIOUS
<1>10. \A id \in OsdIds : id \in stays <=>
         \/ d.pending[id] \in Styles
         \/ \E m \in playing : id \in elem.heap[d.assoc[m]].has /\ ~elem.heap[d.assoc[m]].clear
  OBVIOUS
<1> HIDE DEF stays, playing
<1>12. assoc \in [OsdMedias -> OsdObjects \cup {Osd!NULL, Osd!Absent}] /\ \A m \in OsdMedias : assoc[m] = "absent"
  BY DEF Osd!Absent
<1> HIDE DEF assoc
<1>13. /\ data \in Osd!Client /\ data.state = "eos" /\ data.assoc = assoc /\ data.stays = stays
       /\ data.shown = shown /\ data.overlap = d.overlap
  <2>1. seen = [d EXCEPT !.pending = Osd!Nothing, !.shown = shown]
    BY DEF Osd!Displayed, shown
  <2>2. Osd!Nothing \in Osd!Effect BY DEF Osd!Nothing, Osd!Effect
  <2> HIDE DEF seen
  <2>3. seen \in Osd!Client /\ seen.shown = shown /\ seen.overlap = d.overlap
    BY <1>1, <1>6, <2>1, <2>2 DEF Osd!Client
  <2>4. data = [seen EXCEPT !.state = "eos", !.assoc = assoc, !.stays = stays] OBVIOUS
  <2> HIDE DEF data
  <2>5. data = [state |-> "eos", assoc |-> assoc, pending |-> seen.pending, shown |-> seen.shown,
                overlap |-> seen.overlap, stays |-> stays]
    BY <2>3, <2>4 DEF Osd!Client
  <2>6. seen.pending \in Osd!Effect /\ seen.shown \in [OsdIds -> Styles \cup {Osd!None}]
        /\ seen.overlap \in BOOLEAN
    BY <2>3 DEF Osd!Client
  <2>7. data \in Osd!Client BY <1>9, <1>12, <2>5, <2>6 DEF Osd!Client
  <2> QED BY <2>3, <2>5, <2>7
<1> HIDE DEF data
<1>14. ASSUME ~data.overlap, NEW id \in OsdIds, data.shown[id] # "none"
       PROVE  id \in data.stays
  <2>0. SUFFICES ASSUME d.pending[id] \notin Styles PROVE id \in data.stays BY <1>10, <1>13
  <2>1. ~d.overlap BY <1>13, <1>14
  <2>2. d.pending[id] = "same"
    <3>1. d.pending[id] \in {"none", "same"} BY <1>5, <2>0
    <3>2. d.pending[id] # "none" BY <1>6, <1>13, <1>14
    <3> QED BY <3>1, <3>2
  <2>3. ended[id] = "same" /\ d.shown[id] # "none" BY <1>4, <1>6, <1>13, <1>14, <2>2
  <2>4. Osd!Then(d.shown, d.pending)[id] = Wanted(elem, c, id) BY <1>1, <1>3, <2>1 DEF ClientOK
  <2>5. Wanted(elem, c, id) # "none" BY <2>2, <2>3, <2>4 DEF Osd!Then, Osd!Same
  <2>6. PICK m \in OsdMedias : c \in elem.users[m] /\ m \in Osd!Having(elem, id) /\ elem.types[id] # "none"
    BY <2>5 DEF Wanted
  <2>7. elem.osds[m] # "NULL" BY <2>6 DEF Osd!Having, Osd!NULL
  <2>8. m \in playing /\ d.assoc[m] = elem.osds[m] BY <1>7, <1>8, <2>6, <2>7
  <2>9. Osd!Shows(elem, d.assoc[m], id) /\ id \in elem.heap[d.assoc[m]].has
    BY <2>6, <2>8 DEF Osd!Shows, Osd!Having, Osd!None
  <2>10. ~elem.heap[d.assoc[m]].clear
    <3>1. ~(Osd!Shows(elem, d.assoc[m], id) /\ elem.heap[d.assoc[m]].clear) BY <1>4, <2>3, <2>8
    <3> QED BY <2>9, <3>1
  <2> QED BY <1>10, <1>13, <2>8, <2>9, <2>10
<1>15. ClientOK(e2, c, data)
  <2>1. data.state # "open" BY <1>13
  <2>2. \A m \in OsdMedias : c \notin e2.users[m] /\ data.assoc[m] \in {"absent", "NULL"}
    BY <1>2, <1>12, <1>13
  <2>3. data.state = "eos" /\ ~data.overlap =>
          \A id \in OsdIds : data.shown[id] # "none" => id \in data.stays
    BY <1>14
  <2> QED BY <1>13, <2>1, <2>2, <2>3 DEF ClientOK
<1> QED BY <1>2, <1>3, <1>15, OneOsdClient

\* The server starts again with what it had saved.
LEMMA OsdRestarts ==
  ASSUME OsdInv, Osd!Restart
  PROVE  OsdInv'
<1> DEFINE at == CHOOSE f \in [OsdMedias -> OsdObjects] : \A a, b \in OsdMedias : f[a] = f[b] => a = b
           given == {m \in OsdMedias : disk.osds[m] # Osd!NoClip}
           osds2 == [m \in OsdMedias |-> IF m \in given THEN at[m] ELSE "NULL"]
           heap2 == [o \in OsdObjects |-> IF \E m \in given : at[m] = o
                       THEN disk.osds[CHOOSE m \in given : at[m] = o] ELSE Osd!NoClip]
           users2 == [m \in OsdMedias |-> {}]
           e2 == [types |-> disk.types, osds |-> osds2, heap |-> heap2, users |-> users2]
           clients2 == [c \in OsdClients |-> Osd!NewClient]
           dropped2 == [m \in OsdMedias |-> {}]
<1>1. elem' = e2 /\ clients' = clients2 /\ dropped' = dropped2 /\ disk' = disk
  BY DEF Osd!Restart, Osd!NULL
<1>2. disk \in Osd!FullState /\ disk.osds \in [OsdMedias -> Osd!Clip \cup {Osd!NoClip}]
      /\ disk.types \in [OsdIds -> Styles \cup {Osd!None}]
  BY DEF OsdInv, OsdOK, OsdState, Osd!State, Osd!FullState
<1>3. at \in [OsdMedias -> OsdObjects] /\ \A a, b \in OsdMedias : at[a] = at[b] => a = b
  <2>1. Cardinality(OsdMedias) <= Cardinality(OsdObjects)
    <3>1. Cardinality(OsdMedias) \in Nat /\ Cardinality(OsdObjects) \in Nat
      BY FS_CardinalityType, ElementsAssumption
    <3> QED BY <3>1, ElementsAssumption
  <2>2. \E f \in [OsdMedias -> OsdObjects] : \A a, b \in OsdMedias : f[a] = f[b] => a = b
    BY <2>1, RoomEnough, ElementsAssumption
  <2> QED BY <2>2
<1> HIDE DEF at
<1>4. "NULL" \notin OsdObjects BY ElementsAssumption
<1>5. \A m \in OsdMedias : /\ m \in given <=> disk.osds[m] # Osd!NoClip
                           /\ m \in given => /\ disk.osds[m] \in Osd!Clip /\ osds2[m] = at[m]
                                             /\ heap2[at[m]] = disk.osds[m] /\ at[m] \in OsdObjects
                           /\ m \notin given => osds2[m] = "NULL"
  <2> TAKE m \in OsdMedias
  <2>1. ASSUME m \in given PROVE heap2[at[m]] = disk.osds[m]
    <3>1. (CHOOSE n \in given : at[n] = at[m]) = m
      <4>1. \A n \in given : at[n] = at[m] <=> n = m BY <1>3
      <4> HIDE DEF given
      <4> QED BY <2>1, <4>1
    <3>2. heap2[at[m]] = disk.osds[CHOOSE n \in given : at[n] = at[m]] BY <1>3, <2>1
    <3> HIDE DEF heap2
    <3> QED BY <3>1, <3>2
  <2> HIDE DEF heap2
  <2> QED BY <1>2, <1>3, <2>1
<1>6. \A o \in OsdObjects : heap2[o] # Osd!NoClip => \E m \in given : at[m] = o
  OBVIOUS
<1>7. osds2 \in [OsdMedias -> OsdObjects \cup {Osd!NULL}] BY <1>3 DEF Osd!NULL
<1>8. heap2 \in [OsdObjects -> Osd!Clip \cup {Osd!NoClip}]
  <2>1. \A o \in OsdObjects : heap2[o] \in Osd!Clip \cup {Osd!NoClip}
    <3> TAKE o \in OsdObjects
    <3>1. CASE \E m \in given : at[m] = o
      <4>1. PICK m \in given : at[m] = o BY <3>1
      <4> HIDE DEF heap2
      <4> QED BY <1>5, <4>1
    <3>2. CASE ~\E m \in given : at[m] = o BY <3>2
    <3> QED BY <3>1, <3>2
  <2>2. heap2 = [o \in OsdObjects |-> heap2[o]] OBVIOUS
  <2> HIDE DEF heap2
  <2> QED BY <2>1, <2>2
<1>9. users2 \in [OsdMedias -> SUBSET OsdClients] /\ \A m \in OsdMedias : users2[m] = {} OBVIOUS
<1>10. dropped2 \in [OsdMedias -> SUBSET OsdIds] /\ \A m \in OsdMedias : dropped2[m] = {} OBVIOUS
<1>11. \A m \in given : m \in OsdMedias OBVIOUS
<1> HIDE DEF osds2, heap2, users2, dropped2, given
<1>12. e2 \in Osd!Element BY <1>2, <1>7, <1>8, <1>9 DEF Osd!Element
<1>13. e2.types = disk.types /\ e2.osds = osds2 /\ e2.heap = heap2 /\ e2.users = users2 OBVIOUS
<1> HIDE DEF e2
<1>14. ElemOK(e2)
  <2>1. \A m \in OsdMedias : osds2[m] # "NULL" => m \in given /\ heap2[osds2[m]] \in Osd!Clip BY <1>5
  <2>2. \A m, n \in OsdMedias : osds2[m] # "NULL" /\ osds2[m] = osds2[n] => m = n BY <1>3, <1>5
  <2>3. \A o \in OsdObjects : heap2[o] # Osd!NoClip => \E m \in OsdMedias : osds2[m] = o
    BY <1>5, <1>6, <1>11
  <2>4. ASSUME NEW m \in OsdMedias, osds2[m] # "NULL" PROVE NormalizePath[m] = m
    <3>1. disk.osds[m] # Osd!NoClip BY <1>5, <2>4
    <3>2. elem.osds[m] # "NULL" BY <3>1 DEF OsdInv, OsdOK, Kept, Osd!State
    <3> QED BY <3>2 DEF OsdInv, OsdOK, ElemOK, Osd!State
  <2> QED BY <1>12, <1>13, <2>1, <2>2, <2>3, <2>4 DEF ElemOK
<1>15. \A c \in OsdClients : ClientOK(e2, c, Osd!NewClient)
  BY <1>9, <1>13, NewClientOK
<1>16. clients2 \in [OsdClients -> Osd!Client] /\ \A c \in OsdClients : clients2[c] = Osd!NewClient
  BY <1>15 DEF ClientOK
<1> HIDE DEF clients2
<1> DEFINE st == [elem |-> e2, disk |-> disk, clients |-> clients2, dropped |-> dropped2]
<1>17. st \in OsdState BY <1>2, <1>10, <1>12, <1>16 DEF OsdState
<1>18. Kept(st)
  <2>1. ASSUME NEW m \in OsdMedias
        PROVE  IF e2.osds[m] = "NULL" THEN disk.osds[m] = Osd!NoClip
               ELSE disk.osds[m] = [Osd!ClipOf(e2, m) EXCEPT !.has = @ \cup dropped2[m]]
    <3>1. CASE m \notin given BY <1>5, <1>13, <3>1
    <3>2. CASE m \in given
      <4>1. e2.osds[m] # "NULL" BY <1>4, <1>5, <1>13, <3>2
      <4>2. Osd!ClipOf(e2, m) = disk.osds[m] BY <1>5, <1>13, <3>2, <4>1 DEF Osd!ClipOf, Osd!NULL
      <4>3. disk.osds[m] \in Osd!Clip /\ dropped2[m] = {} BY <1>5, <1>10, <3>2
      <4>4. \A clip \in Osd!Clip : clip = [clip EXCEPT !.has = @ \cup {}] BY DEF Osd!Clip
      <4> QED BY <4>1, <4>2, <4>3, <4>4
    <3> QED BY <3>1, <3>2
  <2> QED BY <1>13, <2>1 DEF Kept
<1>19. OsdOK(st) BY <1>14, <1>15, <1>16, <1>17, <1>18 DEF OsdOK
<1>20. Osd!State' = st BY <1>1 DEF Osd!State
<1> HIDE DEF st
<1> QED BY <1>19, <1>20 DEF OsdInv

\* At first nobody plays, and nothing is known.
LEMMA OsdInit ==
  Osd!Init => OsdInv
<1> SUFFICES ASSUME Osd!Init PROVE OsdInv OBVIOUS
<1> DEFINE none == [id \in OsdIds |-> "none"]
           null == [m \in OsdMedias |-> "NULL"]
           noclip == [o \in OsdObjects |-> Osd!NoClip]
           noclips == [m \in OsdMedias |-> Osd!NoClip]
           nobody == [m \in OsdMedias |-> {}]
           newclients == [c \in OsdClients |-> Osd!NewClient]
<1>1. /\ elem = [types |-> none, osds |-> null, heap |-> noclip, users |-> nobody]
      /\ disk = [types |-> none, osds |-> noclips]
      /\ clients = newclients
      /\ dropped = nobody
  BY DEF Osd!Init, Osd!None, Osd!NULL
<1>2. /\ none \in [OsdIds -> Styles \cup {Osd!None}]
      /\ null \in [OsdMedias -> OsdObjects \cup {Osd!NULL}]
      /\ noclip \in [OsdObjects -> Osd!Clip \cup {Osd!NoClip}]
      /\ noclips \in [OsdMedias -> Osd!Clip \cup {Osd!NoClip}]
      /\ nobody \in [OsdMedias -> SUBSET OsdClients] /\ nobody \in [OsdMedias -> SUBSET OsdIds]
      /\ \A m \in OsdMedias : null[m] = "NULL" /\ noclips[m] = Osd!NoClip /\ nobody[m] = {}
      /\ \A o \in OsdObjects : noclip[o] = Osd!NoClip
  BY DEF Osd!None, Osd!NULL
<1> HIDE DEF none, null, noclip, noclips, nobody
<1>3. /\ elem \in Osd!Element /\ elem.types = none /\ elem.osds = null /\ elem.heap = noclip
      /\ elem.users = nobody
      /\ disk \in Osd!FullState /\ disk.types = none /\ disk.osds = noclips
  BY <1>1, <1>2 DEF Osd!Element, Osd!FullState
<1>4. ElemOK(elem) BY <1>2, <1>3 DEF ElemOK
<1>5. \A c \in OsdClients : ClientOK(elem, c, Osd!NewClient) BY <1>2, <1>3, NewClientOK
<1>6. newclients \in [OsdClients -> Osd!Client] /\ \A c \in OsdClients : newclients[c] = Osd!NewClient
  BY <1>5 DEF ClientOK
<1> HIDE DEF newclients
<1>7. Osd!State \in OsdState BY <1>1, <1>2, <1>3, <1>6 DEF OsdState, Osd!State
<1>8. Kept(Osd!State) BY <1>2, <1>3 DEF Kept, Osd!State
<1> QED BY <1>1, <1>4, <1>5, <1>6, <1>7, <1>8 DEF OsdInv, OsdOK, Osd!State

\* Every step of the associator, in whatever order they come.
LEMMA OsdStep ==
  OsdInv /\ (Osd!Next \/ UNCHANGED osdVars) => OsdInv'
<1> SUFFICES ASSUME OsdInv, Osd!Next \/ UNCHANGED osdVars PROVE OsdInv' OBVIOUS
<1>1. CASE UNCHANGED osdVars
  <2>1. Osd!State' = Osd!State BY <1>1 DEF osdVars, Osd!State
  <2> QED BY <2>1 DEF OsdInv
<1>2. CASE Osd!RpcStep BY <1>2, RpcsOK
<1>3. CASE Osd!Restart BY <1>3, OsdRestarts
<1>4. ASSUME NEW c \in OsdClients, Osd!ClientStep(c) PROVE OsdInv'
  <2>1. CASE Osd!CreateCallbackData(c) BY <2>1, OsdClientComes
  <2>2. CASE Osd!VideoTag(c) BY <2>2, ClientShows
  <2>3. CASE Osd!EosTag(c) BY <2>3, ClientAtEos
  <2>4. CASE Osd!DeleteCallbackData(c) BY <2>4, OsdClientGoes
  <2>5. CASE \E m \in OsdMedias : Osd!SourceStarted(c, m) BY <2>5, SourceStarts
  <2>6. CASE \E m \in OsdMedias : Osd!SourceEnded(c, m) BY <2>6, SourceEnds
  <2> QED BY <1>4, <2>1, <2>2, <2>3, <2>4, <2>5, <2>6 DEF Osd!ClientStep
<1> QED BY <1>1, <1>2, <1>3, <1>4 DEF Osd!Next

\* What the properties say follows from the invariant.
LEMMA OsdSafe ==
  ASSUME OsdInv
  PROVE  /\ Osd!TypeOK /\ Osd!NoDanglingClip /\ Osd!ShownIsAssociated
         /\ Osd!SetFullStateIsExact /\ Osd!AssociationsAreDurable /\ Osd!EosClears
<1>1. /\ elem \in Osd!Element /\ disk \in Osd!FullState /\ clients \in [OsdClients -> Osd!Client]
      /\ dropped \in [OsdMedias -> SUBSET OsdIds] /\ Kept(Osd!State)
      /\ \A c \in OsdClients : ClientOK(elem, c, clients[c])
  BY DEF OsdInv, OsdOK, OsdState, Osd!State
<1>2. Osd!TypeOK BY <1>1 DEF Osd!TypeOK
<1>3. Osd!NoDanglingClip BY <1>1 DEF Osd!NoDanglingClip, ClientOK, Osd!Absent, Osd!NULL
<1>4. Osd!ShownIsAssociated BY <1>1 DEF Osd!ShownIsAssociated, ClientOK, Wanted, Osd!None
<1>5. Osd!AssociationsAreDurable BY <1>1 DEF Osd!AssociationsAreDurable, Kept, Osd!State, Osd!NULL
<1>6. Osd!EosClears BY <1>1 DEF Osd!EosClears, ClientOK, Osd!None
<1>7. Osd!SetFullStateIsExact
  <2> DEFINE st == Osd!State
  <2>1. OsdOK(st) BY DEF OsdInv
  <2> HIDE DEF st
  <2>2. ASSUME NEW full \in FullStates, Osd!Consistent(full)
        PROVE  Osd!GetFullState(Osd!SetFullState(st, full).elem) = Osd!Normalized(full)
    <3>1. full \in Osd!FullState BY ElementsAssumption
    <3> QED BY <2>1, <2>2, <3>1, FullStateSet
  <2> QED BY <2>2 DEF Osd!SetFullStateIsExact, st
<1> QED BY <1>2, <1>3, <1>4, <1>5, <1>6, <1>7

-----------------------------------------------------------------------------
(* OsdAssociatorClient.                                                    *)

\* Overlays do not see each other: each is in what a client shows by itself.
LEMMA InjectEffect ==
  ASSUME NEW data \in Remote!Client, NEW osd \in SUBSET RemoteIds, NEW what \in {"create", "destroy"}
  PROVE  LET d == Remote!Inject(data, osd, what)
         IN  /\ d \in Remote!Client /\ d.osd = data.osd /\ d.shown = data.shown
             /\ d.ended = data.ended
             /\ Remote!WillShow(d) = IF what = "create" THEN Remote!WillShow(data) \cup osd
                                     ELSE Remote!WillShow(data) \ osd
<1> DEFINE d == Remote!Inject(data, osd, what)
<1>1. d = [data EXCEPT !.pending = [id \in RemoteIds |-> IF id \in osd THEN what ELSE data.pending[id]]]
  BY DEF Remote!Inject
<1>2. data.pending \in Remote!Effect BY DEF Remote!Client
<1>3. d.pending = [id \in RemoteIds |-> IF id \in osd THEN what ELSE data.pending[id]]
  BY <1>1 DEF Remote!Client
<1>4. d.pending \in Remote!Effect BY <1>2, <1>3 DEF Remote!Effect
<1>5. d \in Remote!Client /\ d.osd = data.osd /\ d.shown = data.shown /\ d.ended = data.ended
  BY <1>1, <1>3, <1>4 DEF Remote!Client
<1>6. Remote!WillShow(d) = IF what = "create" THEN Remote!WillShow(data) \cup osd
                           ELSE Remote!WillShow(data) \ osd
  BY <1>3, <1>5 DEF Remote!WillShow, Remote!Same
<1> QED BY <1>5, <1>6

\* What a client has is cleared as a whole.
LEMMA ClearEffect ==
  ASSUME NEW data \in Remote!Client
  PROVE  LET d == Remote!ClearOsd(data)
         IN  /\ d \in Remote!Client /\ d.osd = Remote!Absent
             /\ d.shown = data.shown /\ d.ended = data.ended
             /\ Remote!WillShow(data) = UNION data.osd => Remote!WillShow(d) = {}
<1> DEFINE i == Remote!Inject(data, UNION data.osd, "destroy")
           d == [i EXCEPT !.osd = Remote!Absent]
<1>1. data.osd \in Remote!OptionalOsd BY DEF Remote!Client
<1>2. UNION data.osd \in SUBSET RemoteIds
  BY <1>1 DEF Remote!OptionalOsd, Remote!Osd, Remote!Absent
<1>3. /\ i \in Remote!Client /\ i.shown = data.shown /\ i.ended = data.ended
      /\ Remote!WillShow(i) = Remote!WillShow(data) \ (UNION data.osd)
  BY <1>2, InjectEffect
<1> HIDE DEF i
<1>4. d \in Remote!Client /\ d.osd = Remote!Absent /\ d.shown = i.shown /\ d.ended = i.ended
      /\ d.pending = i.pending
  BY <1>3 DEF Remote!Client, Remote!OptionalOsd
<1>5. Remote!WillShow(d) = Remote!WillShow(i) BY <1>4 DEF Remote!WillShow
<1>6. Remote!ClearOsd(data) = d BY DEF Remote!ClearOsd, i
<1> QED BY <1>3, <1>4, <1>5, <1>6

\* A client that is set to an OSD will show it and nothing else.
LEMMA SetEffect ==
  ASSUME NEW data \in Remote!Client, NEW osd \in SUBSET RemoteIds
  PROVE  LET d == Remote!SetOsd(data, osd)
         IN  /\ d \in Remote!Client /\ d.shown = data.shown /\ d.ended = data.ended
             /\ Remote!WillShow(data) = UNION data.osd => Remote!WillShow(d) = UNION d.osd
<1> DEFINE c == Remote!ClearOsd(data)
           i == Remote!Inject(c, osd, "create")
           d == [i EXCEPT !.osd = {osd}]
<1>1. /\ c \in Remote!Client /\ c.shown = data.shown /\ c.ended = data.ended
      /\ Remote!WillShow(data) = UNION data.osd => Remote!WillShow(c) = {}
  BY ClearEffect
<1> HIDE DEF c
<1>2. /\ i \in Remote!Client /\ i.shown = c.shown /\ i.ended = c.ended
      /\ Remote!WillShow(i) = Remote!WillShow(c) \cup osd
  BY <1>1, InjectEffect
<1> HIDE DEF i
<1>3. d \in Remote!Client /\ d.osd = {osd} /\ d.shown = i.shown /\ d.ended = i.ended
      /\ d.pending = i.pending
  BY <1>2 DEF Remote!Client, Remote!OptionalOsd, Remote!Osd
<1>4. Remote!WillShow(d) = Remote!WillShow(i) BY <1>3 DEF Remote!WillShow
<1>5. Remote!SetOsd(data, osd) = d BY DEF Remote!SetOsd, i, c
<1> QED BY <1>1, <1>2, <1>3, <1>4, <1>5

\* The same of an answer.
LEMMA MaybeSetEffect ==
  ASSUME NEW data \in Remote!Client, NEW osd \in Remote!OptionalOsd
  PROVE  LET d == Remote!MaybeSetOsd(data, osd)
         IN  /\ d \in Remote!Client /\ d.shown = data.shown /\ d.ended = data.ended
             /\ Remote!WillShow(data) = UNION data.osd => Remote!WillShow(d) = UNION d.osd
<1>1. UNION osd \in SUBSET RemoteIds BY DEF Remote!OptionalOsd, Remote!Osd, Remote!Absent
<1>2. CASE osd = Remote!Absent BY <1>2 DEF Remote!MaybeSetOsd
<1>3. CASE osd # Remote!Absent BY <1>1, <1>3, SetEffect DEF Remote!MaybeSetOsd
<1> QED BY <1>2, <1>3

\* A new client shows nothing.
LEMMA NewEffect ==
  ASSUME NEW m \in RemoteMedias
  PROVE  LET d == Remote!NewData(m)
         IN  /\ d \in Remote!Client /\ ~d.ended /\ d.shown = {}
             /\ Remote!WillShow(d) = {} /\ UNION d.osd = {}
BY DEF Remote!NewData, Remote!Client, Remote!OptionalOsd, Remote!Effect, Remote!Same,
       Remote!Absent, Remote!WillShow, Remote!Osd

\* A client in order: what it will show is what was set last.
InOrder(data) ==
  /\ data \in Remote!Client
  /\ ~data.ended => Remote!WillShow(data) = UNION data.osd

\* Every client that was not deleted is in order.
RemoteInv ==
  /\ Remote!TypeOK
  /\ \A a \in Addresses : heap[a] # Remote!Freed => InOrder(heap[a])

\* If the client of one address is in order all are.
LEMMA OneRemoteClient ==
  ASSUME RemoteInv, NEW a \in Addresses, NEW data, InOrder(data) \/ data = Remote!Freed,
         heap' = [heap EXCEPT ![a] = data]
  PROVE  /\ heap' \in [Addresses -> Remote!Client \cup {Remote!Freed}]
         /\ \A b \in Addresses : heap'[b] # Remote!Freed => InOrder(heap'[b])
BY DEF RemoteInv, Remote!TypeOK, InOrder

\* What is found along the directories of a path is one of those paths.
LEMMA PathBasedFinds ==
  ASSUME NEW S \in SUBSET RemoteMedias, NEW m \in RemoteMedias
  PROVE  Remote!PathBased(S, m) # Remote!None => Remote!PathBased(S, m) \in S
<1> DEFINE found == Above[m] \cap S
<1>1. CASE found = {} BY <1>1 DEF Remote!PathBased, Remote!None
<1>2. CASE found # {}
  <2>1. \E n \in found : found \subseteq Above[n]
    <3>1. found \in SUBSET Above[m] OBVIOUS
    <3> HIDE DEF found
    <3> QED BY <1>2, <3>1, ElementsAssumption, Zenon
  <2>2. (CHOOSE n \in found : found \subseteq Above[n]) \in found BY <2>1
  <2> QED BY <1>2, <2>2 DEF Remote!PathBased
<1> QED BY <1>1, <1>2

\* A new client, with what the cache has for it or a call for what it has not.
LEMMA RemoteClientComes ==
  ASSUME RemoteInv, NEW a \in Addresses, NEW m \in RemoteMedias, Remote!CreateCallbackData(a, m)
  PROVE  RemoteInv'
<1> DEFINE full == {n \in RemoteMedias : cache[n] # Remote!Absent}
           cached == Remote!PathBased(full, m)
           server == Remote!PathBased(servers, m)
<1>1. known' = known \cup {a} /\ UNCHANGED <<servers, saved, cache, misled>>
  BY DEF Remote!CreateCallbackData
<1>2. InOrder(Remote!NewData(m)) BY NewEffect DEF InOrder
<1>3. CASE cached # Remote!None /\ heap' = [heap EXCEPT ![a] = Remote!SetOsd(Remote!NewData(m), UNION cache[cached])]
           /\ UNCHANGED calls
  <2>1. cached \in RemoteMedias BY <1>3, PathBasedFinds
  <2>2. UNION cache[cached] \in SUBSET RemoteIds
    BY <2>1 DEF RemoteInv, Remote!TypeOK, Remote!OptionalOsd, Remote!Osd, Remote!Absent
  <2>3. InOrder(Remote!SetOsd(Remote!NewData(m), UNION cache[cached]))
    BY ZenonT(60), <2>2, NewEffect, SetEffect DEF InOrder
  <2>4. heap' \in [Addresses -> Remote!Client \cup {Remote!Freed}]
        /\ \A b \in Addresses : heap'[b] # Remote!Freed => InOrder(heap'[b])
    BY <1>3, <2>3, OneRemoteClient
  <2> QED BY <1>1, <1>3, <2>4 DEF RemoteInv, Remote!TypeOK
<1>4. CASE heap' = [heap EXCEPT ![a] = Remote!NewData(m)]
           /\ calls' = IF server = Remote!None THEN calls
                       ELSE calls \cup {[client |-> a, server |-> server, own |-> TRUE]}
  <2>1. server # Remote!None => server \in RemoteMedias
    BY PathBasedFinds DEF RemoteInv, Remote!TypeOK
  <2>2. calls' \subseteq Remote!Call
    <3>1. calls \subseteq Remote!Call BY DEF RemoteInv, Remote!TypeOK
    <3> HIDE DEF server
    <3>2. server # Remote!None => [client |-> a, server |-> server, own |-> TRUE] \in Remote!Call
      BY <2>1 DEF Remote!Call
    <3> QED BY <1>4, <3>1, <3>2
  <2>3. heap' \in [Addresses -> Remote!Client \cup {Remote!Freed}]
        /\ \A b \in Addresses : heap'[b] # Remote!Freed => InOrder(heap'[b])
    BY <1>2, <1>4, OneRemoteClient
  <2> QED BY <1>1, <2>2, <2>3 DEF RemoteInv, Remote!TypeOK
<1> QED BY <1>3, <1>4 DEF Remote!CreateCallbackData

\* A client that is deleted; the calls for it go on.
LEMMA RemoteClientGoes ==
  ASSUME RemoteInv, NEW a \in Addresses, Remote!DeleteCallbackData(a)
  PROVE  RemoteInv'
<1>1. heap' \in [Addresses -> Remote!Client \cup {Remote!Freed}]
      /\ \A b \in Addresses : heap'[b] # Remote!Freed => InOrder(heap'[b])
  BY OneRemoteClient DEF Remote!DeleteCallbackData
<1>2. calls' \subseteq Remote!Call
  BY DEF Remote!DeleteCallbackData, RemoteInv, Remote!TypeOK, Remote!Call
<1> QED BY <1>1, <1>2 DEF Remote!DeleteCallbackData, RemoteInv, Remote!TypeOK

\* A tag shows what is pending, and EOS clears first.
LEMMA TagComes ==
  ASSUME RemoteInv, NEW a \in Addresses, NEW eos \in BOOLEAN, Remote!FilterTag(a, eos)
  PROVE  RemoteInv'
<1> DEFINE data == IF eos THEN Remote!ClearOsd(heap[a]) ELSE heap[a]
           d == [data EXCEPT !.shown = Remote!WillShow(data), !.ended = eos,
                             !.pending = Remote!NewData(data.media).pending]
<1>1. InOrder(heap[a]) /\ ~heap[a].ended BY DEF Remote!FilterTag, Remote!Live, RemoteInv
<1>2. data \in Remote!Client /\ Remote!WillShow(data) = UNION data.osd
  BY <1>1, ClearEffect DEF InOrder, Remote!Absent
<1>3. heap' = [heap EXCEPT ![a] = d] BY DEF Remote!FilterTag
<1> HIDE DEF data
<1>4. Remote!NewData(data.media).pending = [id \in RemoteIds |-> Remote!Same]
  BY DEF Remote!NewData
<1>5. d \in Remote!Client /\ d.osd = data.osd /\ d.shown = Remote!WillShow(data) /\ d.ended = eos
      /\ d.pending = [id \in RemoteIds |-> Remote!Same]
  <2>1. Remote!WillShow(data) \in Remote!Osd BY DEF Remote!WillShow, Remote!Osd
  <2>2. [id \in RemoteIds |-> Remote!Same] \in Remote!Effect BY DEF Remote!Effect
  <2> QED BY <1>2, <1>4, <2>1, <2>2 DEF Remote!Client
<1>6. Remote!WillShow(d) = d.shown
  BY <1>5 DEF Remote!WillShow, Remote!Same
<1>7. InOrder(d) BY <1>2, <1>5, <1>6 DEF InOrder
<1>8. heap' \in [Addresses -> Remote!Client \cup {Remote!Freed}]
      /\ \A b \in Addresses : heap'[b] # Remote!Freed => InOrder(heap'[b])
  BY <1>3, <1>7, OneRemoteClient
<1> QED BY <1>8 DEF Remote!FilterTag, RemoteInv, Remote!TypeOK

\* An answer, to the client that asked or to another one at its address.
LEMMA AnswerComes ==
  ASSUME RemoteInv, NEW k \in calls, NEW global \in Remote!OptionalOsd,
         NEW specific \in Remote!OptionalOsd,
         Remote!HandleGetRequestOsdResultForClient(k, global, specific)
  PROVE  RemoteInv'
<1> DEFINE a == k.client
           d == Remote!MaybeSetOsd(Remote!MaybeSetOsd(heap[a], global), specific)
<1>1. a \in Addresses BY DEF RemoteInv, Remote!TypeOK, Remote!Call
<1>2. calls' \subseteq Remote!Call /\ UNCHANGED <<servers, saved, known>>
  BY DEF Remote!HandleGetRequestOsdResultForClient, RemoteInv, Remote!TypeOK
<1>3. CASE UNCHANGED <<cache, heap>> /\ misled' \subseteq misled \cup {"freed"}
  BY <1>2, <1>3 DEF RemoteInv, Remote!TypeOK
<1>4. CASE /\ heap[a] # Remote!Freed
           /\ misled' = IF k.own THEN misled ELSE misled \cup {"other"}
           /\ cache' = IF global = Remote!Absent THEN cache
                       ELSE [cache EXCEPT ![heap[a].media] = global]
           /\ heap' = IF a \notin known THEN heap ELSE [heap EXCEPT ![a] = d]
  <2>1. InOrder(heap[a]) BY <1>1, <1>4 DEF RemoteInv
  <2>2. cache' \in [RemoteMedias -> Remote!OptionalOsd]
    BY <1>4, <2>1 DEF RemoteInv, Remote!TypeOK, InOrder, Remote!Client
  <2>3. InOrder(d)
    <3> DEFINE e == Remote!MaybeSetOsd(heap[a], global)
    <3>1. InOrder(e) BY <2>1, MaybeSetEffect DEF InOrder
    <3> HIDE DEF e
    <3>2. InOrder(Remote!MaybeSetOsd(e, specific)) BY <3>1, MaybeSetEffect DEF InOrder
    <3> QED BY <3>2 DEF e
  <2> HIDE DEF d
  <2>4. heap' \in [Addresses -> Remote!Client \cup {Remote!Freed}]
        /\ \A b \in Addresses : heap'[b] # Remote!Freed => InOrder(heap'[b])
    <3>1. CASE a \notin known BY <1>4, <3>1 DEF RemoteInv, Remote!TypeOK
    <3>2. CASE a \in known BY <1>1, <1>4, <2>3, <3>2, OneRemoteClient
    <3> QED BY <3>1, <3>2
  <2> QED BY <1>2, <1>4, <2>2, <2>4 DEF RemoteInv, Remote!TypeOK
<1> QED BY <1>3, <1>4 DEF Remote!HandleGetRequestOsdResultForClient, Remote!Live

\* Every step of the client of the associators.
LEMMA RemoteStep == RemoteInv /\ (Remote!Next \/ UNCHANGED remoteVars) => RemoteInv'
<1> SUFFICES ASSUME RemoteInv, Remote!Next \/ UNCHANGED remoteVars PROVE RemoteInv' OBVIOUS
<1>1. CASE UNCHANGED remoteVars
  BY <1>1 DEF remoteVars, RemoteInv, Remote!TypeOK
<1>2. ASSUME NEW m \in RemoteMedias,
             Remote!LeavesCache(m) \/ Remote!AddOsdServer(m) \/ Remote!DelOsdServerByPath(m)
      PROVE  RemoteInv'
  BY <1>2 DEF Remote!LeavesCache, Remote!AddOsdServer, Remote!DelOsdServerByPath, RemoteInv,
              Remote!TypeOK, Remote!OptionalOsd, Remote!Absent
<1>3. CASE Remote!ClearAllCache
  BY <1>3 DEF Remote!ClearAllCache, RemoteInv, Remote!TypeOK, Remote!OptionalOsd, Remote!Absent
<1>4. CASE Remote!Restart
  BY <1>4 DEF Remote!Restart, RemoteInv, Remote!TypeOK, Remote!OptionalOsd, Remote!Absent
<1> QED BY <1>1, <1>2, <1>3, <1>4, RemoteClientComes, RemoteClientGoes, TagComes, AnswerComes DEF Remote!Next

-----------------------------------------------------------------------------
(* The theorems about both.                                                *)

\* The invariants of the two, while they are active.
OsdAlways == active = "osd" => OsdInv

\* That of OsdAssociatorClient.
RemoteAlways == active = "remote" => RemoteInv

\* The associator keeps its invariant in every behaviour of the elements.
LEMMA OsdGoesOn ==
  /\ Init => OsdAlways
  /\ OsdAlways /\ [Next]_vars => OsdAlways'
<1>1. Init => OsdAlways BY OsdInit DEF Init, OsdAlways
<1>2. OsdAlways /\ [Next]_vars => OsdAlways'
  BY OsdStep DEF Next, vars, OsdAlways
<1> QED BY <1>1, <1>2

\* A client of associators begins without clients, cache and calls.
LEMMA RemoteInit == Remote!Init => RemoteInv
<1> SUFFICES ASSUME Remote!Init PROVE RemoteInv OBVIOUS
<1> DEFINE nothing == [m \in RemoteMedias |-> Remote!Absent]
           freed == [a \in Addresses |-> Remote!Freed]
<1>1. nothing \in [RemoteMedias -> Remote!OptionalOsd] BY DEF Remote!OptionalOsd, Remote!Absent
<1>2. freed \in [Addresses -> Remote!Client \cup {Remote!Freed}]
      /\ \A a \in Addresses : freed[a] = Remote!Freed
  OBVIOUS
<1>3. /\ servers = {} /\ saved = {} /\ cache = nothing /\ known = {} /\ heap = freed
      /\ calls = {} /\ misled = {}
  BY DEF Remote!Init
<1> HIDE DEF nothing, freed
<1> QED BY <1>1, <1>2, <1>3 DEF RemoteInv, Remote!TypeOK

\* It keeps its invariant, too.
LEMMA RemoteGoesOn ==
  /\ Init => RemoteAlways
  /\ RemoteAlways /\ [Next]_vars => RemoteAlways'
<1>1. Init => RemoteAlways BY RemoteInit DEF Init, RemoteAlways
<1>2. RemoteAlways /\ [Next]_vars => RemoteAlways'
  BY RemoteStep DEF Next, vars, RemoteAlways
<1> QED BY <1>1, <1>2

\* What the client's properties say follows from its invariant.
LEMMA RemoteSafe ==
  ASSUME RemoteInv
  PROVE  Remote!TypeOK /\ Remote!ShownIsSet
BY DEF RemoteInv, InOrder, Remote!ShownIsSet, Remote!Live

\* No client of an OsdAssociator holds a ClipOsds that was deleted, whatever
\* the RPCs delete while it plays.
THEOREM ClipsAreThere == Spec => []NoDanglingClip
<1>1. OsdAlways => NoDanglingClip BY OsdSafe DEF OsdAlways, NoDanglingClip
<1> QED BY <1>1, OsdGoesOn, PTL DEF Spec

\* A client shows the overlays of the media it plays, and those that were last
\* set from an answer or from the cache: no RPC, source or answer leaves one out
\* or shows one that is not to be shown.
THEOREM ShowsAssociated == Spec => []ShownIsAssociated
<1>1. OsdAlways /\ RemoteAlways => ShownIsAssociated
  BY OsdSafe, RemoteSafe DEF OsdAlways, RemoteAlways, ShownIsAssociated
<1> QED BY <1>1, OsdGoesOn, RemoteGoesOn, PTL DEF Spec

\* SetFullState sets what GetFullState then returns, but for the way that paths
\* are written: from every state that the associator reaches, for every state
\* that gives no media twice and uses only types that it has, and in whatever
\* order the differences are applied.
THEOREM FullStateIsExact == Spec => []SetFullStateIsExact
<1>1. OsdAlways => SetFullStateIsExact BY OsdSafe DEF OsdAlways, SetFullStateIsExact
<1> QED BY <1>1, OsdGoesOn, PTL DEF Spec

\* What a restart of the OsdAssociator finds saved is what was set.
THEOREM Durable == Spec => []AssociationsAreDurable
<1>1. OsdAlways => AssociationsAreDurable BY OsdSafe DEF OsdAlways, AssociationsAreDurable
<1> QED BY <1>1, OsdGoesOn, PTL DEF Spec

\* After the EOS of an OsdAssociator a client shows no overlays but those that a
\* clip it was playing wants to stay and those whose tags were pending, with or
\* without pending tags.
THEOREM Clears == Spec => []EosClears
<1>1. OsdAlways => EosClears BY OsdSafe DEF OsdAlways, EosClears
<1> QED BY <1>1, OsdGoesOn, PTL DEF Spec

-----------------------------------------------------------------------------
(* OsdStateKeeper.                                                         *)

\* The kinds of tags.
LEMMA TagKinds ==
  ASSUME NEW t \in StateKeeper!Tags
  PROVE  \/ t.tag = "create overlay" /\ t.id \in KeeperIds /\ t.value \in Values \cup {StateKeeper!Unset}
         \/ t.tag = "destroy overlay" /\ t.id \in KeeperIds
         \/ /\ t.tag = "create crawler" /\ t.id \in KeeperIds
            /\ t.crawler \in StateKeeper!Crawlers \ {StateKeeper!NoCrawler}
         \/ t.tag = "destroy crawler" /\ t.id \in KeeperIds
         \/ t.tag = "add item" /\ t.id \in KeeperIds /\ t.item \in KeeperItems /\ t.value \in Values
         \/ t.tag = "remove item" /\ t.id \in KeeperIds /\ t.item \in KeeperItems
         \/ t.tag = "show overlays" /\ t.value \in BOOLEAN
         \/ t.tag = "click url" /\ t.value \in Values
         \/ t.tag = "video"
BY DEF StateKeeper!Tags

\* What is known of the crawlers of a state.
LEMMA CrawlerKinds ==
  ASSUME NEW c \in StateKeeper!Crawlers
  PROVE  /\ c = [known |-> c.known, set |-> c.set, items |-> c.items]
         /\ c.known \in BOOLEAN /\ c.set \in BOOLEAN
         /\ c.items \in [KeeperItems -> Values \cup {StateKeeper!None}]
         /\ ~c.known => c = StateKeeper!NoCrawler
         /\ c.known /\ ~c.set => c.items = [i \in KeeperItems |-> StateKeeper!None]
<1>1. CASE c = StateKeeper!NoCrawler BY <1>1 DEF StateKeeper!NoCrawler
<1>2. CASE c = [StateKeeper!NoCrawler EXCEPT !.known = TRUE] BY <1>2 DEF StateKeeper!NoCrawler
<1>3. CASE c \in [known : {TRUE}, set : {TRUE}, items : [KeeperItems -> Values \cup {StateKeeper!None}]]
  BY <1>3
<1> QED BY <1>1, <1>2, <1>3 DEF StateKeeper!Crawlers

\* A crawler that is given an item, and one that loses one.
LEMMA ItemSet ==
  ASSUME NEW c \in StateKeeper!Crawlers, NEW i \in KeeperItems,
         NEW v \in Values \cup {StateKeeper!None}, c.known
  PROVE  [c EXCEPT !.set = TRUE, !.items[i] = v] \in StateKeeper!Crawlers
<1>1. c \in [known : BOOLEAN, set : BOOLEAN, items : [KeeperItems -> Values \cup {StateKeeper!None}]]
  BY CrawlerKinds
<1>2. [c EXCEPT !.set = TRUE, !.items[i] = v] \in
        [known : {TRUE}, set : {TRUE}, items : [KeeperItems -> Values \cup {StateKeeper!None}]]
  BY <1>1
<1> QED BY <1>2 DEF StateKeeper!Crawlers

\* An item that is gone from a crawler leaves one of the same kind.
LEMMA ItemGone ==
  ASSUME NEW c \in StateKeeper!Crawlers, NEW i \in KeeperItems
  PROVE  LET d == [c EXCEPT !.items[i] = StateKeeper!None]
         IN  d \in StateKeeper!Crawlers /\ d.known = c.known /\ d.set = c.set
<1> DEFINE items == [c.items EXCEPT ![i] = StateKeeper!None]
           d == [c EXCEPT !.items[i] = StateKeeper!None]
<1>1. d = [known |-> c.known, set |-> c.set, items |-> items]
  BY CrawlerKinds
<1>2. items \in [KeeperItems -> Values \cup {StateKeeper!None}] BY CrawlerKinds
<1>3. CASE c.known /\ c.set BY <1>1, <1>2, <1>3 DEF StateKeeper!Crawlers
<1>4. CASE ~c.known \/ ~c.set
  <2>1. c.items = [j \in KeeperItems |-> StateKeeper!None]
    BY <1>4, CrawlerKinds DEF StateKeeper!NoCrawler
  <2>2. items = c.items BY <2>1
  <2>3. d = c BY <1>1, <2>2, CrawlerKinds
  <2> QED BY <2>3
<1> QED BY <1>1, <1>3, <1>4, CrawlerKinds

\* Other crawlers make another state.
LEMMA CrawlersSet ==
  ASSUME NEW s \in StateKeeper!State, NEW cs \in [KeeperIds -> StateKeeper!Crawlers]
  PROVE  [s EXCEPT !.crawlers = cs] \in StateKeeper!State
BY DEF StateKeeper!State

\* A tag leads from a state to a state.
LEMMA TagTyped ==
  ASSUME NEW s \in StateKeeper!State, NEW t \in StateKeeper!Tags
  PROVE  StateKeeper!ProcessOsd(s, t) \in StateKeeper!State
<1> DEFINE n == StateKeeper!ProcessOsd(s, t)
<1>1. CASE t.tag = "create overlay"
  <2>1. StateKeeper!Overlay(s.overlays[t.id], t.value) \in Values \cup {StateKeeper!None, StateKeeper!Unset}
    BY <1>1, TagKinds DEF StateKeeper!Overlay, StateKeeper!State
  <2> QED BY <1>1, <2>1, TagKinds DEF StateKeeper!ProcessOsd, StateKeeper!State
<1>2. CASE t.tag = "destroy overlay" BY <1>2, TagKinds DEF StateKeeper!ProcessOsd, StateKeeper!State
<1>3. CASE t.tag = "create crawler"
  <2>1. StateKeeper!Crawler(s.crawlers[t.id], t.crawler) \in StateKeeper!Crawlers
    BY <1>3, TagKinds DEF StateKeeper!Crawler, StateKeeper!State
  <2> QED BY <1>3, <2>1, TagKinds DEF StateKeeper!ProcessOsd, StateKeeper!State
<1>4. CASE t.tag = "destroy crawler"
  <2>1. StateKeeper!NoCrawler \in StateKeeper!Crawlers BY DEF StateKeeper!Crawlers
  <2> QED BY <1>4, <2>1, TagKinds DEF StateKeeper!ProcessOsd, StateKeeper!State
<1>5. CASE t.tag = "add item"
  <2> DEFINE c == s.crawlers[t.id]
             d == [c EXCEPT !.set = TRUE, !.items[t.item] = t.value]
  <2>1. c \in StateKeeper!Crawlers BY <1>5, TagKinds DEF StateKeeper!State
  <2>2. CASE ~c.known BY <1>5, <2>2 DEF StateKeeper!ProcessOsd
  <2>3. CASE c.known
    <3>1. d \in StateKeeper!Crawlers BY <1>5, <2>1, <2>3, TagKinds, ItemSet
    <3>2. n = [s EXCEPT !.crawlers[t.id].set = TRUE, !.crawlers[t.id].items[t.item] = t.value]
      BY <1>5, <2>3 DEF StateKeeper!ProcessOsd
    <3>3. n = [s EXCEPT !.crawlers[t.id] = d]
      <4>1. t.id \in KeeperIds BY <1>5, TagKinds
      <4>2. s.crawlers \in [KeeperIds -> StateKeeper!Crawlers] BY DEF StateKeeper!State
      <4>3. s \in [overlays : [KeeperIds -> Values \cup {StateKeeper!None, StateKeeper!Unset}],
                   crawlers : [KeeperIds -> StateKeeper!Crawlers],
                   show     : BOOLEAN,
                   click    : Values \cup {StateKeeper!Unset}]
        BY DEF StateKeeper!State
      <4> DEFINE c1 == [c EXCEPT !.set = TRUE]
                 s1 == [s EXCEPT !.crawlers[t.id] = c1]
      <4>4. d = [c1 EXCEPT !.items[t.item] = t.value] OBVIOUS
      <4>5. n = [s1 EXCEPT !.crawlers[t.id].items[t.item] = t.value] BY <3>2
      <4> HIDE DEF c1, d, n
      <4>6. s1.crawlers[t.id] = c1 BY <4>1, <4>2, <4>3
      <4>7. [s1 EXCEPT !.crawlers[t.id] = d] = [s EXCEPT !.crawlers[t.id] = d] BY <4>1, <4>2, <4>3
      <4> HIDE DEF s1
      <4>8. n = [s1 EXCEPT !.crawlers[t.id] = d] BY <4>4, <4>5, <4>6
      <4> QED BY <4>7, <4>8
    <3> HIDE DEF d, n
    <3>4. [s.crawlers EXCEPT ![t.id] = d] \in [KeeperIds -> StateKeeper!Crawlers]
      BY <3>1 DEF StateKeeper!State
    <3>5. n = [s EXCEPT !.crawlers = [s.crawlers EXCEPT ![t.id] = d]] BY <3>3
    <3> QED BY <3>4, <3>5, CrawlersSet DEF n
  <2> QED BY <2>2, <2>3
<1>6. CASE t.tag = "remove item"
  <2> DEFINE c == s.crawlers[t.id]
             d == [c EXCEPT !.items[t.item] = StateKeeper!None]
  <2>1. d \in StateKeeper!Crawlers BY <1>6, TagKinds, ItemGone DEF StateKeeper!State
  <2>2. n = [s EXCEPT !.crawlers[t.id].items[t.item] = StateKeeper!None]
    BY <1>6 DEF StateKeeper!ProcessOsd
  <2>3. n = [s EXCEPT !.crawlers[t.id] = d] BY <2>2
  <2> HIDE DEF d, n
  <2>4. [s.crawlers EXCEPT ![t.id] = d] \in [KeeperIds -> StateKeeper!Crawlers]
    BY <2>1 DEF StateKeeper!State
  <2>5. n = [s EXCEPT !.crawlers = [s.crawlers EXCEPT ![t.id] = d]] BY <2>3
  <2> QED BY <2>4, <2>5, CrawlersSet DEF n
<1>7. CASE t.tag = "show overlays" BY <1>7, TagKinds DEF StateKeeper!ProcessOsd, StateKeeper!State
<1>8. CASE t.tag = "click url" BY <1>8, TagKinds DEF StateKeeper!ProcessOsd, StateKeeper!State
<1>9. CASE t.tag = "video" BY <1>9 DEF StateKeeper!ProcessOsd
<1> QED BY <1>1, <1>2, <1>3, <1>4, <1>5, <1>6, <1>7, <1>8, <1>9, TagKinds

\* Two states with the same parts are the same.
LEMMA SameState ==
  ASSUME NEW s \in StateKeeper!State, NEW n,
         n = [overlays |-> n.overlays, crawlers |-> n.crawlers, show |-> n.show, click |-> n.click],
         n.overlays = [id \in KeeperIds |-> s.overlays[id]],
         n.crawlers = [id \in KeeperIds |-> s.crawlers[id]],
         n.show = s.show, n.click = s.click
  PROVE  n = s
BY DEF StateKeeper!State

\* A crawler that was never heard of is what the bootstrap makes of it.
LEMMA BootstrapCrawler ==
  ASSUME NEW c \in StateKeeper!Crawlers
  PROVE  (IF ~c.known THEN StateKeeper!NoCrawler ELSE StateKeeper!Crawler(StateKeeper!NoCrawler, c)) = c
BY CrawlerKinds DEF StateKeeper!Crawler, StateKeeper!NoCrawler

\* The bootstrap of a client that has seen nothing.
LEMMA BootstrapOfNothing ==
  ASSUME NEW s \in StateKeeper!State
  PROVE  StateKeeper!AppendBootstrap(StateKeeper!NoState, s) = s
<1> DEFINE n == StateKeeper!AppendBootstrap(StateKeeper!NoState, s)
<1>1. n.overlays = [id \in KeeperIds |-> s.overlays[id]]
  BY DEF StateKeeper!AppendBootstrap, StateKeeper!NoState, StateKeeper!Overlay, StateKeeper!State
<1>2. n.crawlers = [id \in KeeperIds |-> s.crawlers[id]]
  <2>1. \A id \in KeeperIds : s.crawlers[id] \in StateKeeper!Crawlers BY DEF StateKeeper!State
  <2>2. n.crawlers = [id \in KeeperIds |-> IF ~s.crawlers[id].known THEN StateKeeper!NoCrawler
                                           ELSE StateKeeper!Crawler(StateKeeper!NoCrawler, s.crawlers[id])]
    BY DEF StateKeeper!AppendBootstrap, StateKeeper!NoState
  <2> QED BY <2>1, <2>2, BootstrapCrawler
<1>3. n.show = s.show /\ n.click = s.click
  BY DEF StateKeeper!AppendBootstrap, StateKeeper!NoState, StateKeeper!State
<1>4. n = [overlays |-> n.overlays, crawlers |-> n.crawlers, show |-> n.show, click |-> n.click]
  BY DEF StateKeeper!AppendBootstrap
<1> HIDE DEF n
<1>5. n = s BY <1>1, <1>2, <1>3, <1>4, SameState
<1> QED BY <1>5 DEF n


\* The bootstrap leads from a state to a state.
LEMMA BootstrapTyped ==
  ASSUME NEW v \in StateKeeper!State, NEW s \in StateKeeper!State
  PROVE  StateKeeper!AppendBootstrap(v, s) \in StateKeeper!State
BY DEF StateKeeper!AppendBootstrap, StateKeeper!State, StateKeeper!Overlay, StateKeeper!Crawler

\* A client that is sent a tag and then the bootstrap, of the state after that
\* tag, shows that state.
LEMMA BootstrapAfter ==
  ASSUME NEW s \in StateKeeper!State, NEW t \in StateKeeper!Tags
  PROVE  StateKeeper!AppendBootstrap(StateKeeper!ProcessOsd(StateKeeper!NoState, t),
                                     StateKeeper!ProcessOsd(s, t)) = StateKeeper!ProcessOsd(s, t)
<1> DEFINE v == StateKeeper!ProcessOsd(StateKeeper!NoState, t)
           n == StateKeeper!ProcessOsd(s, t)
<1>0. n \in StateKeeper!State BY TagTyped
<1> DEFINE b == StateKeeper!AppendBootstrap(v, n)
<1> SUFFICES b = n OBVIOUS
<1>1. CASE v = StateKeeper!NoState BY <1>0, <1>1, BootstrapOfNothing
<1>2. ASSUME b.overlays = [id \in KeeperIds |-> n.overlays[id]],
             b.crawlers = [id \in KeeperIds |-> n.crawlers[id]],
             b.show = n.show
      PROVE  b = n
  <2>1. b.click = n.click BY DEF StateKeeper!AppendBootstrap
  <2>2. b = [overlays |-> b.overlays, crawlers |-> b.crawlers, show |-> b.show, click |-> b.click]
    BY DEF StateKeeper!AppendBootstrap
  <2> HIDE DEF b, n, v
  <2> QED BY <1>0, <1>2, <2>1, <2>2, SameState
<1>3. v.crawlers = StateKeeper!NoState.crawlers => b.crawlers = [id \in KeeperIds |-> n.crawlers[id]]
  <2> SUFFICES ASSUME v.crawlers = StateKeeper!NoState.crawlers
               PROVE  b.crawlers = [id \in KeeperIds |-> n.crawlers[id]]
    OBVIOUS
  <2>1. \A id \in KeeperIds : n.crawlers[id] \in StateKeeper!Crawlers BY <1>0 DEF StateKeeper!State
  <2>2. v.crawlers = [id \in KeeperIds |-> StateKeeper!NoCrawler] BY DEF StateKeeper!NoState
  <2> HIDE DEF n, v
  <2>3. b.crawlers = [id \in KeeperIds |-> IF ~n.crawlers[id].known THEN StateKeeper!NoCrawler
                                           ELSE StateKeeper!Crawler(StateKeeper!NoCrawler, n.crawlers[id])]
    BY <2>2 DEF StateKeeper!AppendBootstrap
  <2> QED BY <2>1, <2>3, BootstrapCrawler
<1>4. v.overlays = StateKeeper!NoState.overlays => b.overlays = [id \in KeeperIds |-> n.overlays[id]]
  <2> SUFFICES ASSUME v.overlays = StateKeeper!NoState.overlays
               PROVE  b.overlays = [id \in KeeperIds |-> n.overlays[id]]
    OBVIOUS
  <2>1. v.overlays = [id \in KeeperIds |-> StateKeeper!None] BY DEF StateKeeper!NoState
  <2> HIDE DEF n, v
  <2> QED BY <2>1 DEF StateKeeper!AppendBootstrap, StateKeeper!Overlay
<1>5. n.show \in BOOLEAN /\ (v.show => b.show = n.show)
  <2>1. n.show \in BOOLEAN BY <1>0 DEF StateKeeper!State
  <2> HIDE DEF n, v
  <2> QED BY <2>1 DEF StateKeeper!AppendBootstrap
<1>6. CASE t.tag = "create overlay"
  <2>1. /\ v.overlays = [id \in KeeperIds |-> IF id = t.id THEN StateKeeper!Overlay(StateKeeper!None, t.value)
                                              ELSE StateKeeper!None]
        /\ v.crawlers = StateKeeper!NoState.crawlers /\ v.show
    BY <1>6, TagKinds DEF StateKeeper!ProcessOsd, StateKeeper!NoState
  <2>2. n.overlays = [id \in KeeperIds |-> IF id = t.id THEN StateKeeper!Overlay(s.overlays[id], t.value)
                                          ELSE s.overlays[id]]
    BY <1>6, TagKinds DEF StateKeeper!ProcessOsd, StateKeeper!State
  <2>3. b.overlays = [id \in KeeperIds |-> IF n.overlays[id] = StateKeeper!None THEN v.overlays[id]
                                          ELSE StateKeeper!Overlay(v.overlays[id], n.overlays[id])]
    BY DEF StateKeeper!AppendBootstrap
  <2>4. b.overlays = [id \in KeeperIds |-> n.overlays[id]]
    <3> HIDE DEF b, n, v
    <3> QED BY <2>1, <2>2, <2>3 DEF StateKeeper!Overlay, StateKeeper!None, StateKeeper!Unset
  <2> HIDE DEF b, n, v
  <2> QED BY <1>2, <1>3, <1>5, <2>1, <2>4
<1>7. CASE t.tag = "create crawler"
  <2>1. /\ v.crawlers = [id \in KeeperIds |-> IF id = t.id THEN t.crawler ELSE StateKeeper!NoCrawler]
        /\ v.overlays = StateKeeper!NoState.overlays /\ v.show
    BY <1>7, TagKinds DEF StateKeeper!ProcessOsd, StateKeeper!NoState, StateKeeper!Crawler, StateKeeper!NoCrawler
  <2>2. n.crawlers = [id \in KeeperIds |-> IF id = t.id THEN StateKeeper!Crawler(s.crawlers[id], t.crawler)
                                          ELSE s.crawlers[id]]
    BY <1>7, TagKinds DEF StateKeeper!ProcessOsd, StateKeeper!State
  <2>3. b.crawlers = [id \in KeeperIds |-> IF ~n.crawlers[id].known THEN v.crawlers[id]
                                          ELSE StateKeeper!Crawler(v.crawlers[id], n.crawlers[id])]
    BY DEF StateKeeper!AppendBootstrap
  <2>4. \A id \in KeeperIds : s.crawlers[id] \in StateKeeper!Crawlers BY DEF StateKeeper!State
  <2>5. b.crawlers = [id \in KeeperIds |-> n.crawlers[id]]
    <3> HIDE DEF b, n, v
    <3>1. ASSUME NEW id \in KeeperIds
          PROVE  (IF ~n.crawlers[id].known THEN v.crawlers[id]
                  ELSE StateKeeper!Crawler(v.crawlers[id], n.crawlers[id])) = n.crawlers[id]
      <4>1. CASE id # t.id BY <2>1, <2>2, <2>4, <4>1, BootstrapCrawler
      <4>2. CASE id = t.id
        <5>1. t.crawler \in StateKeeper!Crawlers /\ t.crawler.known
          BY <1>7, TagKinds, CrawlerKinds
        <5>2. v.crawlers[id] = t.crawler /\ n.crawlers[id] = StateKeeper!Crawler(s.crawlers[id], t.crawler)
          BY <2>1, <2>2, <4>2
        <5>3. s.crawlers[id] \in StateKeeper!Crawlers BY <2>4
        <5> QED BY <5>1, <5>2, <5>3, CrawlerKinds DEF StateKeeper!Crawler
      <4> QED BY <4>1, <4>2
    <3> QED BY <2>3, <3>1
  <2> HIDE DEF b, n, v
  <2> QED BY <1>2, <1>4, <1>5, <2>1, <2>5
<1>8. CASE t.tag = "remove item"
  <2> DEFINE d == [StateKeeper!NoCrawler EXCEPT !.items[t.item] = StateKeeper!None]
             o == StateKeeper!NoState
  <2>1. StateKeeper!NoCrawler \in StateKeeper!Crawlers /\ ~StateKeeper!NoCrawler.known
    BY DEF StateKeeper!Crawlers, StateKeeper!NoCrawler
  <2>2. d = StateKeeper!NoCrawler BY <1>8, <2>1, TagKinds, ItemGone, CrawlerKinds
  <2>3. v = StateKeeper!NoState
    <3>1. v = [o EXCEPT !.crawlers[t.id].items[t.item] = StateKeeper!None]
      BY <1>8 DEF StateKeeper!ProcessOsd
    <3>2. o.crawlers[t.id] = StateKeeper!NoCrawler BY <1>8, TagKinds DEF StateKeeper!NoState
    <3>3. v = [o EXCEPT !.crawlers[t.id] = d]
      <4> HIDE DEF v, o
      <4> QED BY <3>1, <3>2
    <3>4. v = [o EXCEPT !.crawlers[t.id] = StateKeeper!NoCrawler]
      <4> HIDE DEF v, o, d
      <4> QED BY <2>2, <3>3
    <3>5. [o EXCEPT !.crawlers[t.id] = StateKeeper!NoCrawler] = o
      <4> DEFINE cs == [id \in KeeperIds |-> StateKeeper!NoCrawler]
      <4>1. [cs EXCEPT ![t.id] = StateKeeper!NoCrawler] = cs OBVIOUS
      <4>2. o.crawlers = cs BY DEF StateKeeper!NoState
      <4> HIDE DEF cs
      <4>3. [o EXCEPT !.crawlers = cs] = o BY <4>2 DEF StateKeeper!NoState
      <4>4. [o EXCEPT !.crawlers[t.id] = StateKeeper!NoCrawler]
              = [o EXCEPT !.crawlers = [cs EXCEPT ![t.id] = StateKeeper!NoCrawler]]
        <5> HIDE DEF o
        <5> QED BY <4>2
      <4> HIDE DEF o
      <4> QED BY <4>1, <4>3, <4>4
    <3> HIDE DEF v, o, d
    <3> QED BY <3>4, <3>5 DEF o
  <2> QED BY <1>1, <2>3
<1>9. CASE t.tag = "add item" \/ t.tag = "video"
  BY <1>1, <1>9, TagKinds DEF StateKeeper!ProcessOsd, StateKeeper!NoState, StateKeeper!NoCrawler
<1>10. CASE t.tag = "destroy overlay"
  BY <1>1, <1>10, TagKinds DEF StateKeeper!ProcessOsd, StateKeeper!NoState
<1>11. CASE t.tag = "destroy crawler"
  BY <1>1, <1>11, TagKinds DEF StateKeeper!ProcessOsd, StateKeeper!NoState
<1>12. CASE t.tag = "show overlays"
  <2>1. /\ v.crawlers = StateKeeper!NoState.crawlers
        /\ v.overlays = StateKeeper!NoState.overlays
        /\ v.show = t.value /\ n.show = t.value
    BY <1>12, TagKinds DEF StateKeeper!ProcessOsd, StateKeeper!NoState, StateKeeper!State
  <2>2. b.show = n.show BY <1>5, <2>1 DEF StateKeeper!AppendBootstrap
  <2> HIDE DEF b, n, v
  <2> QED BY <1>2, <1>3, <1>4, <2>1, <2>2
<1>13. CASE t.tag = "click url"
  <2>1. /\ v.crawlers = StateKeeper!NoState.crawlers
        /\ v.overlays = StateKeeper!NoState.overlays /\ v.show
    BY <1>13, TagKinds DEF StateKeeper!ProcessOsd, StateKeeper!NoState
  <2> HIDE DEF b, n, v
  <2> QED BY <1>2, <1>3, <1>4, <1>5, <2>1
<1> HIDE DEF b, n, v
<1> QED BY <1>6, <1>7, <1>8, <1>9, <1>10, <1>11, <1>12, <1>13, TagKinds


\* What is known of the element and its clients: nobody plays while it is down,
\* and who has not got the bootstrap has seen nothing.
KeeperInv ==
  /\ StateKeeper!TypeOK
  /\ osdKeeper.stage = "down" => \A c \in KeeperClients : views[c].stage = "away"
  /\ \A c \in KeeperClients :
       views[c].stage # "bootstrapped" => views[c].state = StateKeeper!NoState
  /\ StateKeeper!LateClientsCatchUp

\* The states that the element and a new client begin with.
LEMMA NoStateTyped ==
  StateKeeper!NoState \in StateKeeper!State /\ StateKeeper!Away \in StateKeeper!View
<1>1. StateKeeper!NoState \in StateKeeper!State
  BY DEF StateKeeper!NoState, StateKeeper!State, StateKeeper!Crawlers, StateKeeper!NoCrawler
<1> QED BY <1>1 DEF StateKeeper!Away, StateKeeper!View

\* What is saved is a state.
LEMMA SavedTyped ==
  ASSUME NEW s \in StateKeeper!State
  PROVE  StateKeeper!Saved(s) \in StateKeeper!State
BY DEF StateKeeper!Saved, StateKeeper!State

\* What a client has after a tag, and that it shows the state of the element.
LEMMA FilteredTag ==
  ASSUME NEW view \in StateKeeper!View, NEW t \in StateKeeper!Tags,
         NEW old \in StateKeeper!State, NEW new \in StateKeeper!State,
         NEW before \in BOOLEAN, NEW hears \in BOOLEAN, NEW s,
         view.stage # "bootstrapped" => view.state = StateKeeper!NoState,
         hears => new = StateKeeper!ProcessOsd(old, t),
         s = IF before THEN old ELSE new
  PROVE  LET v == StateKeeper!FilterTag(view, t, s, before)
         IN  /\ v \in StateKeeper!View /\ v.stage = "bootstrapped"
             /\ hears /\ ~v.early /\ (view.stage = "bootstrapped" /\ ~view.early => view.state = old)
                  => v.state = new
<1> DEFINE v == StateKeeper!FilterTag(view, t, s, before)
<1>1. s \in StateKeeper!State OBVIOUS
<1>2. view.state \in StateKeeper!State /\ view.early \in BOOLEAN BY DEF StateKeeper!View
<1>3. CASE view.stage = "bootstrapped"
  <2>1. v = [view EXCEPT !.state = StateKeeper!ProcessOsd(@, t)]
    BY <1>3 DEF StateKeeper!FilterTag
  <2>2. StateKeeper!ProcessOsd(view.state, t) \in StateKeeper!State BY <1>2, TagTyped
  <2>3. /\ v \in StateKeeper!View /\ v.stage = "bootstrapped" /\ v.early = view.early
        /\ v.state = StateKeeper!ProcessOsd(view.state, t)
    BY <1>3, <2>1, <2>2 DEF StateKeeper!View
  <2> QED BY <1>3, <2>3
<1>4. CASE view.stage # "bootstrapped"
  <2>1. v = [stage |-> "bootstrapped",
             state |-> StateKeeper!AppendBootstrap(StateKeeper!ProcessOsd(StateKeeper!NoState, t), s),
             early |-> before /\ t.tag # "video"]
    BY <1>4 DEF StateKeeper!FilterTag
  <2>2. StateKeeper!ProcessOsd(StateKeeper!NoState, t) \in StateKeeper!State
    BY NoStateTyped, TagTyped
  <2>3. StateKeeper!AppendBootstrap(StateKeeper!ProcessOsd(StateKeeper!NoState, t), s) \in StateKeeper!State
    BY <1>1, <2>2, BootstrapTyped
  <2> HIDE DEF v
  <2>4. v \in StateKeeper!View /\ v.stage = "bootstrapped"
    BY <2>1, <2>3 DEF StateKeeper!View
  <2>5. ASSUME hears, ~v.early PROVE v.state = new
    <3>1. CASE before
      <4>1. t.tag = "video" BY <2>1, <2>5, <3>1
      <4>2. hears /\ new = old /\ StateKeeper!ProcessOsd(StateKeeper!NoState, t) = StateKeeper!NoState
        BY <2>5, <4>1 DEF StateKeeper!ProcessOsd
      <4>3. v.state = StateKeeper!AppendBootstrap(StateKeeper!NoState, old)
        BY <2>1, <3>1, <4>2
      <4> QED BY <4>2, <4>3, BootstrapOfNothing
    <3>2. CASE ~before
      <4>1. v.state = StateKeeper!AppendBootstrap(StateKeeper!ProcessOsd(StateKeeper!NoState, t),
                                                 StateKeeper!ProcessOsd(old, t))
        BY <2>1, <2>5, <3>2
      <4> QED BY <4>1, <2>5, BootstrapAfter
    <3> QED BY <3>1, <3>2
  <2> QED BY <2>4, <2>5, <1>4 DEF v
<1> QED BY <1>3, <1>4


\* A tag, for the element and all clients.
LEMMA TagOfSource ==
  ASSUME KeeperInv, NEW t \in StateKeeper!Tags, NEW before \in SUBSET KeeperClients,
         StateKeeper!ProcessTag(t, before)
  PROVE  KeeperInv'
<1> DEFINE hears == osdKeeper.stage = "listening"
           old == osdKeeper.state
           new == IF hears THEN StateKeeper!ProcessOsd(old, t) ELSE old
           Sent(c) == StateKeeper!FilterTag(views[c], t, IF c \in before THEN old ELSE new, c \in before)
<1>1. old \in StateKeeper!State /\ new \in StateKeeper!State
  BY TagTyped DEF KeeperInv, StateKeeper!TypeOK, StateKeeper!Keeper
<1>2. /\ osdKeeper.stage # "down"
      /\ osdKeeper' = [osdKeeper EXCEPT !.state = new]
      /\ kept' = IF hears /\ t.tag # "video" THEN StateKeeper!Saved(new) ELSE kept
      /\ views' = [c \in KeeperClients |-> IF views[c].stage = "away" THEN StateKeeper!Away ELSE Sent(c)]
      /\ missed' = (missed \/ ~hears)
  BY DEF StateKeeper!ProcessTag
<1>3. ASSUME NEW c \in KeeperClients
      PROVE  /\ Sent(c) \in StateKeeper!View /\ Sent(c).stage = "bootstrapped"
             /\ hears /\ ~Sent(c).early
                /\ (views[c].stage = "bootstrapped" /\ ~views[c].early => views[c].state = old)
                => Sent(c).state = new
  <2>1. views[c] \in StateKeeper!View
        /\ (views[c].stage # "bootstrapped" => views[c].state = StateKeeper!NoState)
    BY DEF KeeperInv, StateKeeper!TypeOK
  <2>3. hears => new = StateKeeper!ProcessOsd(old, t) OBVIOUS
  <2> DEFINE s == IF c \in before THEN old ELSE new
             b == c \in before
  <2>2. hears \in BOOLEAN /\ b \in BOOLEAN OBVIOUS
  <2>4. s = IF b THEN old ELSE new OBVIOUS
  <2>5. Sent(c) = StateKeeper!FilterTag(views[c], t, s, b) OBVIOUS
  <2> HIDE DEF hears, old, new, s, b, Sent
  <2>6. LET v == StateKeeper!FilterTag(views[c], t, s, b)
        IN  /\ v \in StateKeeper!View /\ v.stage = "bootstrapped"
            /\ hears /\ ~v.early /\ (views[c].stage = "bootstrapped" /\ ~views[c].early => views[c].state = old)
                 => v.state = new
    BY <1>1, <2>1, <2>2, <2>3, <2>4, FilteredTag
  <2> QED BY <2>5, <2>6
<1> HIDE DEF Sent, new
<1>4. /\ osdKeeper' \in StateKeeper!Keeper /\ osdKeeper'.stage = osdKeeper.stage /\ osdKeeper'.state = new
      /\ missed' \in BOOLEAN
  BY <1>1, <1>2 DEF KeeperInv, StateKeeper!TypeOK, StateKeeper!Keeper
<1>5. kept' \in StateKeeper!State
  BY <1>1, <1>2, SavedTyped DEF KeeperInv, StateKeeper!TypeOK
<1>6. views' \in [KeeperClients -> StateKeeper!View]
  BY <1>2, <1>3, NoStateTyped
<1>7. ASSUME NEW c \in KeeperClients
      PROVE  /\ views'[c].stage # "bootstrapped" => views'[c].state = StateKeeper!NoState
             /\ views'[c].stage = "bootstrapped" /\ ~views'[c].early /\ ~missed' => views'[c].state = new
  <2>1. CASE views[c].stage = "away"
    BY <1>2, <2>1 DEF StateKeeper!Away
  <2>2. CASE views[c].stage # "away"
    <3>1. views'[c] = Sent(c) BY <1>2, <2>2
    <3>2. ~missed' => hears /\ ~missed BY <1>2 DEF KeeperInv, StateKeeper!TypeOK
    <3>3. ~missed /\ views[c].stage = "bootstrapped" /\ ~views[c].early => views[c].state = old
      BY DEF KeeperInv, StateKeeper!LateClientsCatchUp
    <3> QED BY <1>3, <3>1, <3>2, <3>3
  <2> QED BY <2>1, <2>2
<1>8. osdKeeper'.stage # "down" BY <1>2, <1>4
<1> QED BY <1>4, <1>5, <1>6, <1>7, <1>8 DEF KeeperInv, StateKeeper!TypeOK, StateKeeper!LateClientsCatchUp

\* The invariant is inductive.
LEMMA KeeperStep == KeeperInv /\ (StateKeeper!Next \/ UNCHANGED keeperVars) => KeeperInv'
<1> SUFFICES ASSUME KeeperInv, StateKeeper!Next \/ UNCHANGED keeperVars PROVE KeeperInv' OBVIOUS
<1> USE DEF KeeperInv, StateKeeper!TypeOK, StateKeeper!LateClientsCatchUp
<1>1. CASE UNCHANGED keeperVars BY <1>1 DEF keeperVars
<1>2. CASE StateKeeper!Initialize
  <2>1. PICK stage \in {"listening", "waiting"} : osdKeeper' = [stage |-> stage, state |-> kept]
    BY <1>2 DEF StateKeeper!Initialize
  <2>2. osdKeeper.stage = "down" /\ missed' = FALSE /\ UNCHANGED <<kept, views>>
    BY <1>2 DEF StateKeeper!Initialize
  <2>3. osdKeeper' \in StateKeeper!Keeper BY <2>1 DEF StateKeeper!Keeper
  <2> QED BY <2>2, <2>3, <2>1
<1>3. CASE StateKeeper!OpenMedia
  BY <1>3 DEF StateKeeper!OpenMedia, StateKeeper!Keeper
<1>4. CASE StateKeeper!Crash
  BY <1>4, NoStateTyped DEF StateKeeper!Crash, StateKeeper!Keeper, StateKeeper!Away
<1>5. CASE StateKeeper!EosTag
  BY <1>5, NoStateTyped DEF StateKeeper!EosTag, StateKeeper!Keeper, StateKeeper!Away
<1>6. ASSUME NEW c \in KeeperClients, StateKeeper!CreateCallbackData(c) PROVE KeeperInv'
  BY <1>6 DEF StateKeeper!CreateCallbackData, StateKeeper!View
<1>7. ASSUME NEW c \in KeeperClients, StateKeeper!ClientLeaves(c) PROVE KeeperInv'
  BY <1>7, NoStateTyped DEF StateKeeper!ClientLeaves, StateKeeper!Away
<1> QED BY <1>1, <1>2, <1>3, <1>4, <1>5, <1>6, <1>7, TagOfSource DEF StateKeeper!Next

\* The invariant of the element while it is the one that is active.
KeeperAlways == active = "state keeper" => KeeperInv

\* It is kept in every behaviour.
LEMMA KeeperGoesOn ==
  /\ Init => KeeperAlways
  /\ KeeperAlways /\ [Next]_vars => KeeperAlways'
<1>1. Init => KeeperAlways
  <2> SUFFICES ASSUME StateKeeper!Init PROVE KeeperInv BY DEF Init, KeeperAlways
  <2>1. StateKeeper!TypeOK
    BY NoStateTyped DEF StateKeeper!Init, StateKeeper!TypeOK, StateKeeper!Keeper
  <2>2. \A c \in KeeperClients : views[c].stage = "away" /\ views[c].state = StateKeeper!NoState
    BY DEF StateKeeper!Init, StateKeeper!Away
  <2> QED BY <2>1, <2>2 DEF KeeperInv, StateKeeper!LateClientsCatchUp
<1>2. KeeperAlways /\ [Next]_vars => KeeperAlways'
  BY KeeperStep DEF Next, vars, KeeperAlways
<1> QED BY <1>1, <1>2

\* What a client shows who comes late.
THEOREM CatchUp == Spec => []LateClientsCatchUp
<1>1. KeeperAlways => LateClientsCatchUp BY DEF KeeperAlways, LateClientsCatchUp, KeeperInv
<1> QED BY <1>1, KeeperGoesOn, PTL DEF Spec

-----------------------------------------------------------------------------
(* LogicPolicy.                                                            *)

\* A policy object without its current state: the objects of the states of the
\* play list are states that users wrote.
LogicTyped(p) ==
  /\ p \in Logic!Policy
  /\ \A n \in StateNames : p.states[n] # Logic!NULL => p.heap[p.states[n]] # Logic!NoState

\* The current state is in the play list under its name.
AtState(p) ==
  p.crt # Logic!NULL => /\ p.name # Logic!None /\ p.states[p.name] = p.crt
                        /\ p.actions = p.heap[p.crt].actions

\* A timeout waits for a current state that is limited in time, and only then.
TimeoutWaits(p) ==
  /\ p.alarm => p.crt # Logic!NULL /\ p.heap[p.crt].limited
  /\ p.crt # Logic!NULL /\ p.heap[p.crt].limited =>
       p.alarm \/ p.default = Logic!None \/ p.states[p.default] = Logic!NULL

\* The states to which the policy may go.
Found(p, name) == {n \in {name, p.default} \ {Logic!None} : p.states[n] # Logic!NULL}

\* To go to a state puts a policy object in order.
LEMMA SwitchLive ==
  ASSUME NEW p, LogicTyped(p), NEW name \in StateNames \cup {Logic!None},
         AtState(p) \/ Found(p, name) # {}
  PROVE  LET q == Logic!SwitchToState(p, name)
         IN  /\ LogicTyped(q) /\ AtState(q) /\ TimeoutWaits(q)
             /\ q.states = p.states /\ q.default = p.default
             /\ Found(p, name) = {} => q.crt = p.crt
<1> DEFINE q == Logic!SwitchToState(p, name)
           to == IF name \in Found(p, name) THEN name ELSE p.default
           object == p.states[to]
           state == p.heap[object]
<1>1. CASE Found(p, name) = {}
  <2>1. q = [p EXCEPT !.alarm = FALSE] BY <1>1 DEF Logic!SwitchToState, Found
  <2>2. q \in Logic!Policy /\ q.alarm = FALSE
        /\ q.states = p.states /\ q.heap = p.heap /\ q.default = p.default /\ q.crt = p.crt
        /\ q.name = p.name /\ q.actions = p.actions
    BY <2>1 DEF LogicTyped, Logic!Policy
  <2> HIDE DEF q
  <2>3. q.default = Logic!None \/ q.states[q.default] = Logic!NULL BY <1>1, <2>2 DEF Found
  <2>4. AtState(p) BY <1>1
  <2>5. LogicTyped(q) /\ AtState(q) /\ TimeoutWaits(q) /\ q.states = p.states /\ q.default = p.default
        /\ q.crt = p.crt
    BY <2>2, <2>3, <2>4 DEF LogicTyped, AtState, TimeoutWaits
  <2> QED BY <2>5 DEF q
<1>2. CASE Found(p, name) # {}
  <2>1. q = [p EXCEPT !.name = to, !.crt = object, !.actions = state.actions,
                      !.counts = [k \in Logic!Keys |-> 0], !.alarm = state.limited,
                      !.playing = IF state.media THEN to ELSE @]
    BY <1>2 DEF Logic!SwitchToState, Found
  <2>2. to \in Found(p, name) BY <1>2 DEF Found
  <2>3. to \in StateNames /\ to # Logic!None /\ object # Logic!NULL
    BY <2>2 DEF Found, LogicTyped, Logic!Policy
  <2>4. object \in LogicObjects /\ state \in LogicStates
    BY <2>3 DEF LogicTyped, Logic!Policy
  <2>5. state.actions \in [Logic!Keys -> Logic!Action \cup {Logic!NoAction}] /\ state.limited \in BOOLEAN
    BY <2>4, ElementsAssumption DEF Logic!LogicState
  <2>6. [k \in Logic!Keys |-> 0] \in [Logic!Keys -> 0 .. MaxCount] BY ElementsAssumption
  <2> HIDE DEF to, object, state
  <2>7. q \in Logic!Policy
        /\ q.alarm = state.limited /\ q.actions = state.actions /\ q.name = to /\ q.crt = object
        /\ q.states = p.states /\ q.heap = p.heap /\ q.default = p.default
    BY ZenonT(60), <2>1, <2>3, <2>4, <2>5, <2>6 DEF LogicTyped, Logic!Policy
  <2> HIDE DEF q
  <2>8. LogicTyped(q) /\ AtState(q) /\ TimeoutWaits(q) /\ q.states = p.states /\ q.default = p.default
    BY <2>3, <2>7 DEF LogicTyped, AtState, TimeoutWaits, object, state
  <2> QED BY <1>2, <2>8 DEF q
<1> QED BY <1>1, <1>2

\* A new play list: its states are those of the list, and one that is the same
\* stays the object it was.
LEMMA ReplacedTyped ==
  ASSUME NEW p, LogicTyped(p), NEW list \in Logic!Playlists
  PROVE  LET q == Logic!Replaced(p, list)
         IN  /\ LogicTyped(q) /\ q.crt = p.crt /\ q.name = p.name /\ q.actions = p.actions
             /\ q.alarm = p.alarm /\ q.default = list.default
             /\ \A n \in StateNames : p.states[n] # Logic!NULL /\ p.heap[p.states[n]] = list.states[n]
                  => q.states[n] = p.states[n] /\ q.heap[p.states[n]] = p.heap[p.states[n]]
<1> DEFINE q == Logic!Replaced(p, list)
           same == {n \in StateNames : p.states[n] # Logic!NULL /\ p.heap[p.states[n]] = list.states[n]}
           new == {n \in StateNames \ same : list.states[n] # Logic!NoState}
           free == LogicObjects \ {p.states[n] : n \in StateNames}
           at == CHOOSE f \in [new -> free] : \A m, n \in new : f[m] = f[n] => m = n
           states == [n \in StateNames |-> IF n \in same THEN p.states[n]
                                           ELSE IF n \in new THEN at[n] ELSE Logic!NULL]
           heaps == [o \in LogicObjects |->
                      IF \E n \in same : p.states[n] = o THEN p.heap[o]
                      ELSE IF \E n \in new : at[n] = o
                      THEN list.states[CHOOSE n \in new : at[n] = o] ELSE Logic!NoState]
<1>1. q = [p EXCEPT !.states = states, !.heap = heaps, !.default = list.default]
  BY DEF Logic!Replaced, LogicTyped, Logic!Policy
<1>2. /\ p.states \in [StateNames -> LogicObjects \cup {Logic!NULL}]
      /\ p.heap \in [LogicObjects -> LogicStates \cup {Logic!NoState}]
      /\ list.states \in [StateNames -> LogicStates \cup {Logic!NoState}]
      /\ list.default \in StateNames
  BY DEF LogicTyped, Logic!Policy, Logic!Playlists
<1>3. \E f \in [new -> free] : \A m, n \in new : f[m] = f[n] => m = n
  <2>1. IsFiniteSet(free) /\ Cardinality(free) >= Cardinality(LogicObjects) - Cardinality(StateNames)
    <3> DEFINE f == p.states
    <3>1. f \in [StateNames -> LogicObjects \cup {Logic!NULL}] BY <1>2
    <3>2. free = LogicObjects \ Range(f) BY <3>1 DEF Range
    <3> HIDE DEF f, free
    <3>3. IsFiniteSet(StateNames) /\ IsFiniteSet(LogicObjects) BY ElementsAssumption
    <3>4. LET rest == LogicObjects \ Range(f)
          IN  IsFiniteSet(rest) /\ Cardinality(rest) >= Cardinality(LogicObjects) - Cardinality(StateNames)
      BY <3>1, <3>3, RoomWithout
    <3> QED BY <3>2, <3>4
  <2>2. new \subseteq StateNames OBVIOUS
  <2> HIDE DEF new, free
  <2>3. IsFiniteSet(new) /\ Cardinality(new) <= Cardinality(StateNames)
    BY <2>2, FS_Subset, ElementsAssumption
  <2>4. Cardinality(new) \in Nat /\ Cardinality(StateNames) \in Nat /\ Cardinality(LogicObjects) \in Nat
        /\ Cardinality(free) \in Nat
    BY <2>1, <2>3, FS_CardinalityType, ElementsAssumption
  <2>5. Cardinality(new) <= Cardinality(free) BY <2>1, <2>3, <2>4, ElementsAssumption
  <2> QED BY <2>1, <2>3, <2>5, RoomEnough
<1>4. at \in [new -> free] /\ \A m, n \in new : at[m] = at[n] => m = n BY <1>3
<1> HIDE DEF at
<1>5. states \in [StateNames -> LogicObjects \cup {Logic!NULL}] BY <1>2, <1>4
<1>6. heaps \in [LogicObjects -> LogicStates \cup {Logic!NoState}]
  <2>1. ASSUME NEW o \in LogicObjects, \E n \in new : at[n] = o
        PROVE  list.states[CHOOSE n \in new : at[n] = o] \in LogicStates \cup {Logic!NoState}
    <3>1. (CHOOSE n \in new : at[n] = o) \in StateNames BY <2>1
    <3> QED BY <3>1, <1>2
  <2> QED BY <1>2, <2>1
<1>7. ASSUME NEW n \in same
      PROVE  states[n] = p.states[n] /\ heaps[p.states[n]] = p.heap[p.states[n]]
  <2>1. p.states[n] \in LogicObjects BY <1>2
  <2> QED BY <2>1
<1>8. ASSUME NEW n \in StateNames, states[n] # Logic!NULL PROVE heaps[states[n]] # Logic!NoState
  <2>1. CASE n \in same
    <3>1. p.states[n] # Logic!NULL BY <2>1
    <3> HIDE DEF states, heaps, same
    <3> QED BY <1>7, <2>1, <3>1 DEF LogicTyped
  <2>2. CASE n \in new
    <3>1. states[n] = at[n] /\ at[n] \in free BY <2>2, <1>4
    <3>2. at[n] \in LogicObjects /\ ~\E m \in same : p.states[m] = at[n] BY <3>1
    <3>3. (CHOOSE m \in new : at[m] = at[n]) = n
      <4>1. \E m \in new : at[m] = at[n] BY <2>2
      <4>2. (CHOOSE m \in new : at[m] = at[n]) \in new
            /\ at[CHOOSE m \in new : at[m] = at[n]] = at[n] BY <4>1
      <4> HIDE DEF new, free
      <4> QED BY <1>4, <2>2, <4>2
    <3>4. heaps[at[n]] = list.states[n] BY <2>2, <3>2, <3>3
    <3> QED BY <2>2, <3>1, <3>4
  <2>3. CASE n \notin same /\ n \notin new BY <1>8, <2>3
  <2> QED BY <2>1, <2>2, <2>3
<1>9. \A n \in StateNames : p.states[n] # Logic!NULL /\ p.heap[p.states[n]] = list.states[n]
        => states[n] = p.states[n] /\ heaps[p.states[n]] = p.heap[p.states[n]]
  BY <1>7
<1> HIDE DEF states, heaps, same, new, free
<1>10. /\ q \in Logic!Policy /\ q.states = states /\ q.heap = heaps /\ q.default = list.default
       /\ q.crt = p.crt /\ q.name = p.name /\ q.actions = p.actions /\ q.alarm = p.alarm
  BY <1>1, <1>2, <1>5, <1>6 DEF LogicTyped, Logic!Policy
<1> HIDE DEF q
<1> QED BY <1>8, <1>9, <1>10 DEF LogicTyped, q

\* To set a play list puts a policy object in order.
LEMMA SetPlaylistLive ==
  ASSUME NEW p, LogicTyped(p), AtState(p), NEW list \in Logic!Playlists
  PROVE  LET q == Logic!SetPlaylist(p, list)
         IN  /\ LogicTyped(q) /\ AtState(q) /\ TimeoutWaits(q)
             /\ p.crt = Logic!NULL /\ q.crt # Logic!NULL => Found(q, p.name) # {}
<1> DEFINE changed == p.crt # Logic!NULL /\ list.states[p.name] # p.heap[p.crt]
           r == Logic!Replaced(p, list)
           s == [r EXCEPT !.crt = IF changed THEN Logic!NULL ELSE @]
<1>1. LogicTyped(r) /\ r.crt = p.crt /\ r.name = p.name /\ r.actions = p.actions
      /\ \A n \in StateNames : p.states[n] # Logic!NULL /\ p.heap[p.states[n]] = list.states[n]
           => r.states[n] = p.states[n] /\ r.heap[p.states[n]] = p.heap[p.states[n]]
  BY ReplacedTyped
<1> HIDE DEF r
<1>2. /\ LogicTyped(s) /\ s.crt = IF changed THEN Logic!NULL ELSE p.crt
      /\ s.name = p.name /\ s.actions = p.actions /\ s.states = r.states /\ s.heap = r.heap
  BY <1>1 DEF LogicTyped, Logic!Policy
<1>3. AtState(s)
  <2> SUFFICES ASSUME s.crt # Logic!NULL
               PROVE  s.name # Logic!None /\ s.states[s.name] = s.crt /\ s.actions = s.heap[s.crt].actions
    BY DEF AtState
  <2>1. s.crt = p.crt /\ p.crt # Logic!NULL /\ list.states[p.name] = p.heap[p.crt] BY <1>2
  <2>2. p.name # Logic!None /\ p.states[p.name] = p.crt /\ p.actions = p.heap[p.crt].actions
        /\ p.name \in StateNames
    BY <2>1 DEF AtState, LogicTyped, Logic!Policy
  <2>3. r.states[p.name] = p.crt /\ r.heap[p.crt] = p.heap[p.crt] BY <1>1, <2>1, <2>2
  <2> QED BY <1>2, <2>1, <2>2, <2>3
<1>4. p.name \in StateNames \cup {Logic!None} BY DEF LogicTyped, Logic!Policy
<1>5. Logic!SetPlaylist(p, list) = Logic!SwitchToState(s, p.name) BY DEF Logic!SetPlaylist, r
<1> HIDE DEF s
<1> DEFINE q == Logic!SwitchToState(s, p.name)
<1>6. /\ LogicTyped(q) /\ AtState(q) /\ TimeoutWaits(q)
      /\ q.states = s.states /\ q.default = s.default
      /\ Found(s, p.name) = {} => q.crt = s.crt
  BY <1>2, <1>3, <1>4, SwitchLive
<1> HIDE DEF q
<1>7. Found(q, p.name) = Found(s, p.name) BY <1>6 DEF Found
<1>8. p.crt = Logic!NULL => s.crt = Logic!NULL BY <1>2
<1> QED BY <1>5, <1>6, <1>7, <1>8 DEF q

\* What is known of the policy: it is in order.
LogicInv ==
  /\ LogicTyped(logic) /\ AtState(logic) /\ TimeoutWaits(logic)
  /\ logicFailed \in BOOLEAN

\* A policy without a play list.
Empty(up, playing) ==
  [up |-> up, states |-> [n \in StateNames |-> Logic!NULL],
   heap |-> [o \in LogicObjects |-> Logic!NoState],
   default |-> Logic!None, name |-> Logic!None, crt |-> Logic!NULL,
   actions |-> [k \in Logic!Keys |-> Logic!NoAction], counts |-> [k \in Logic!Keys |-> 0],
   alarm |-> FALSE, playing |-> playing]

\* It is in order.
LEMMA DownLive ==
  ASSUME NEW p, NEW up \in BOOLEAN, NEW playing \in StateNames \cup {Logic!None},
         p = Empty(up, playing)
  PROVE  LogicTyped(p) /\ AtState(p) /\ TimeoutWaits(p) /\ p.crt = Logic!NULL /\ p.name = Logic!None
<1> DEFINE states == [n \in StateNames |-> Logic!NULL]
           objects == [o \in LogicObjects |-> Logic!NoState]
           acts == [k \in Logic!Keys |-> Logic!NoAction]
           zeros == [k \in Logic!Keys |-> 0]
<1>1. p = [up |-> up, states |-> states, heap |-> objects,
           default |-> Logic!None, name |-> Logic!None, crt |-> Logic!NULL,
           actions |-> acts, counts |-> zeros, alarm |-> FALSE, playing |-> playing]
  BY DEF Empty
<1>2. zeros \in [Logic!Keys -> 0 .. MaxCount] BY ElementsAssumption
<1>3. /\ states \in [StateNames -> LogicObjects \cup {Logic!NULL}]
      /\ objects \in [LogicObjects -> LogicStates \cup {Logic!NoState}]
      /\ acts \in [Logic!Keys -> Logic!Action \cup {Logic!NoAction}]
  OBVIOUS
<1>4. \A n \in StateNames : states[n] = Logic!NULL OBVIOUS
<1> HIDE DEF states, objects, acts, zeros
<1>5. p \in Logic!Policy BY <1>1, <1>2, <1>3 DEF Logic!Policy
<1> QED BY <1>1, <1>4, <1>5 DEF LogicTyped, AtState, TimeoutWaits

\* The constructor and Initialize put the policy in order.
LEMMA StartLive == Logic!Start => LogicTyped(logic') /\ AtState(logic') /\ TimeoutWaits(logic')
<1> SUFFICES ASSUME Logic!Start PROVE LogicTyped(logic') /\ AtState(logic') /\ TimeoutWaits(logic')
  OBVIOUS
<1> DEFINE d == [Logic!Down EXCEPT !.up = TRUE]
           made(list) == Logic!SetPlaylist(d, list)
           i(list) == [made(list) EXCEPT !.name = Logic!None]
           q(list) == Logic!SwitchToState(i(list), Logic!None)
<1>1. PICK list \in Logic!Playlists :
        logic' = IF q(list).crt = Logic!NULL THEN Logic!Down ELSE q(list)
  BY DEF Logic!Start
<1>2. LogicTyped(d) /\ AtState(d) /\ d.crt = Logic!NULL /\ d.name = Logic!None
  <2>1. Logic!Down = Empty(FALSE, Logic!None) BY DEF Logic!Down, Empty
  <2>2. LogicTyped(Logic!Down) /\ Logic!Down.crt = Logic!NULL /\ Logic!Down.name = Logic!None
    BY <2>1, DownLive
  <2>3. LogicTyped(d) /\ d.crt = Logic!NULL /\ d.name = Logic!None
    BY <2>2 DEF LogicTyped, Logic!Policy
  <2> QED BY <2>3 DEF AtState
<1> HIDE DEF d
<1>3. /\ LogicTyped(made(list))
      /\ made(list).crt # Logic!NULL => Found(made(list), Logic!None) # {}
  BY <1>2, SetPlaylistLive
<1> HIDE DEF made
<1>4. /\ LogicTyped(i(list)) /\ i(list).crt = made(list).crt
      /\ i(list).states = made(list).states /\ i(list).default = made(list).default
  BY <1>3 DEF LogicTyped, Logic!Policy
<1> HIDE DEF i
<1>5. Found(i(list), Logic!None) = Found(made(list), Logic!None) BY <1>4 DEF Found
<1>6. CASE q(list).crt = Logic!NULL
  <2>1. Logic!Down = Empty(FALSE, Logic!None) BY DEF Logic!Down, Empty
  <2> QED BY <1>1, <1>6, <2>1, DownLive
<1>7. CASE q(list).crt # Logic!NULL
  <2>1. CASE Found(i(list), Logic!None) # {}
    BY <1>1, <1>4, <1>7, <2>1, SwitchLive
  <2>2. CASE Found(i(list), Logic!None) = {}
    <3>1. i(list).crt = Logic!NULL BY <1>3, <1>4, <1>5, <2>2
    <3>2. AtState(i(list)) BY <3>1 DEF AtState
    <3>3. q(list).crt = i(list).crt BY <1>4, <2>2, <3>2, SwitchLive
    <3> QED BY <1>7, <3>1, <3>3
  <2> QED BY <2>1, <2>2
<1> QED BY <1>6, <1>7

\* A tag that is counted, or the last one that leads to a state.
LEMMA CountedLive ==
  ASSUME NEW p, LogicTyped(p), AtState(p), TimeoutWaits(p), NEW key \in Logic!Keys,
         p.actions[key] # Logic!NoAction
  PROVE  LET q == Logic!Counted(p, key)
         IN  LogicTyped(q) /\ AtState(q) /\ TimeoutWaits(q)
<1> DEFINE count == IF p.counts[key] < MaxCount THEN p.counts[key] + 1 ELSE MaxCount
           c == [p EXCEPT !.counts[key] = count]
<1>1. count \in 0 .. MaxCount
  <2>1. p.counts[key] \in 0 .. MaxCount BY DEF LogicTyped, Logic!Policy
  <2> QED BY <2>1, ElementsAssumption
<1> HIDE DEF count
<1>2. [p.counts EXCEPT ![key] = count] \in [Logic!Keys -> 0 .. MaxCount]
  BY <1>1 DEF LogicTyped, Logic!Policy
<1>3. LogicTyped(c) /\ c.crt = p.crt /\ c.name = p.name /\ c.states = p.states /\ c.heap = p.heap
      /\ c.actions = p.actions /\ c.alarm = p.alarm /\ c.default = p.default
  BY <1>2 DEF LogicTyped, Logic!Policy
<1>4. p.actions[key].to \in StateNames
  <2>1. p.actions[key] \in Logic!Action BY DEF LogicTyped, Logic!Policy
  <2> QED BY <2>1 DEF Logic!Action
<1>5. Logic!Counted(p, key) = IF count >= p.actions[key].num
                              THEN Logic!SwitchToState(c, p.actions[key].to) ELSE c
  BY DEF Logic!Counted, count
<1> HIDE DEF c
<1>6. AtState(c) /\ TimeoutWaits(c) BY <1>3 DEF AtState, TimeoutWaits
<1> QED BY <1>3, <1>4, <1>5, <1>6, SwitchLive

\* The invariant is inductive.
LEMMA LogicStep == LogicInv /\ (Logic!Next \/ UNCHANGED logicVars) => LogicInv'
<1> SUFFICES ASSUME LogicInv, Logic!Next \/ UNCHANGED logicVars PROVE LogicInv' OBVIOUS
<1>0. /\ LogicTyped(logic) /\ AtState(logic) /\ TimeoutWaits(logic)
      /\ logic.default \in StateNames \cup {Logic!None}
      /\ logic.playing \in StateNames \cup {Logic!None}
  BY DEF LogicInv, LogicTyped, Logic!Policy
<1>f. logicFailed' \in BOOLEAN
  BY DEF LogicInv, Logic!Next, logicVars, Logic!Start, Logic!Stop, Logic!Reset, Logic!Refresh,
     Logic!RpcSetPlaylist, Logic!RpcSetCurrentState, Logic!NotifyEos, Logic!NotifyTag, Logic!NotifyTimeout
<1>s. SUFFICES LogicTyped(logic') /\ AtState(logic') /\ TimeoutWaits(logic') BY <1>f DEF LogicInv
<1>d. Logic!Down = Empty(FALSE, Logic!None) BY DEF Logic!Down, Empty
<1>1. CASE UNCHANGED logicVars BY <1>0, <1>1 DEF logicVars
<1>2. CASE Logic!Start BY <1>2, StartLive
<1>3. CASE Logic!Stop BY <1>3, <1>d, DownLive DEF Logic!Stop
<1>4. CASE Logic!Reset BY <1>0, <1>4, SwitchLive DEF Logic!Reset
<1>5. CASE Logic!Refresh
  <2>1. logic' = Empty(TRUE, logic.playing) BY <1>5 DEF Logic!Refresh, Logic!Down, Empty
  <2> QED BY <1>0, <2>1, DownLive
<1>6. CASE Logic!RpcSetPlaylist
  <2>1. LogicTyped(Logic!Down) /\ AtState(Logic!Down) /\ TimeoutWaits(Logic!Down)
    BY <1>d, DownLive
  <2>2. PICK list \in Logic!Playlists : logic' = Logic!SetPlaylist(logic, list) \/ logic' = Logic!Down
    BY <1>6 DEF Logic!RpcSetPlaylist
  <2> QED BY <1>0, <2>1, <2>2, SetPlaylistLive
<1>7. CASE Logic!RpcSetCurrentState BY <1>0, <1>7, SwitchLive DEF Logic!RpcSetCurrentState
<1>8. CASE Logic!NotifyEos
  <2> DEFINE e == [logic EXCEPT !.playing = Logic!None]
  <2>1. LogicTyped(e) /\ e.crt = logic.crt /\ e.name = logic.name /\ e.states = logic.states
        /\ e.heap = logic.heap /\ e.actions = logic.actions /\ e.alarm = logic.alarm
        /\ e.default = logic.default
    BY <1>0 DEF LogicTyped, Logic!Policy
  <2>2. logic' = IF logic.actions["eos"] # Logic!NoAction THEN Logic!Counted(e, "eos")
                 ELSE IF logic.default # Logic!None THEN Logic!SwitchToState(e, logic.default)
                 ELSE e
    BY <1>8 DEF Logic!NotifyEos
  <2> HIDE DEF e
  <2>3. AtState(e) /\ TimeoutWaits(e) BY <1>0, <2>1 DEF AtState, TimeoutWaits
  <2>4. "eos" \in Logic!Keys BY DEF Logic!Keys
  <2> QED BY <1>0, <2>1, <2>2, <2>3, <2>4, SwitchLive, CountedLive
<1>9. CASE Logic!NotifyTag
  BY <1>0, <1>9, CountedLive DEF Logic!NotifyTag, Logic!Keys
<1>10. CASE Logic!NotifyTimeout
  <2> DEFINE r == [logic EXCEPT !.alarm = FALSE]
             to == IF logic.crt = Logic!NULL THEN Logic!None ELSE logic.heap[logic.crt].timeoutTo
  <2>1. LogicTyped(r) /\ r.crt = logic.crt /\ r.name = logic.name /\ r.states = logic.states
        /\ r.heap = logic.heap /\ r.actions = logic.actions
    BY <1>0 DEF LogicTyped, Logic!Policy
  <2>2. logic' = Logic!SwitchToState(r, IF to = Logic!None THEN logic.default ELSE to)
    BY <1>10 DEF Logic!NotifyTimeout
  <2>3. to \in StateNames \cup {Logic!None}
    <3> SUFFICES ASSUME logic.crt # Logic!NULL
                 PROVE  logic.heap[logic.crt].timeoutTo \in StateNames \cup {Logic!None}
      OBVIOUS
    <3>1. logic.crt \in LogicObjects /\ logic.name \in StateNames
          /\ logic.states[logic.name] = logic.crt
      BY <1>0 DEF AtState, LogicTyped, Logic!Policy
    <3>2. logic.heap[logic.crt] \in LogicStates BY <1>0, <3>1 DEF LogicTyped, Logic!Policy
    <3> QED BY <3>2, ElementsAssumption DEF Logic!LogicState
  <2> HIDE DEF r, to
  <2>4. AtState(r) BY <1>0, <2>1 DEF AtState
  <2> QED BY <1>0, <2>1, <2>2, <2>3, <2>4, SwitchLive
<1> QED BY <1>1, <1>2, <1>3, <1>4, <1>5, <1>6, <1>7, <1>8, <1>9, <1>10 DEF Logic!Next

\* The invariant of the policy while it is the one that is active.
LogicAlways == active = "logic" => LogicInv

\* It is kept in every behaviour.
LEMMA LogicGoesOn ==
  /\ Init => LogicAlways
  /\ LogicAlways /\ [Next]_vars => LogicAlways'
<1>1. Init => LogicAlways
  <2>1. Logic!Down = Empty(FALSE, Logic!None) BY DEF Logic!Down, Empty
  <2> QED BY <2>1, DownLive DEF Init, LogicInv, Logic!Init, LogicAlways
<1>2. LogicAlways /\ [Next]_vars => LogicAlways'
  BY LogicStep DEF Next, vars, LogicAlways
<1> QED BY <1>1, <1>2

\* The current state of a policy is one of its play list.
THEOREM CurrentIsLive == Spec => []CurrentStateIsLive
<1>1. LogicAlways => CurrentStateIsLive
  BY DEF LogicAlways, CurrentStateIsLive, Logic!CurrentStateIsLive, LogicInv, LogicTyped, AtState, TimeoutWaits, Logic!Policy
<1> QED BY <1>1, LogicGoesOn, PTL DEF Spec

-----------------------------------------------------------------------------
(* Flavouring.                                                             *)

\* Clients and flavours know each other, and the media mapper knows both.
Linked(e) ==
  \A c \in FlavourClients, o \in FlavourObjects :
    /\ o \in e.internal[c] <=> c \in e.rs[o]
    /\ o \in e.internal[c] <=> <<c, o>> \in e.upstream
    /\ o \in e.internal[c] => c \in e.reqs

\* No client has two streams of a flavour.
OneStream(e) ==
  \A c \in FlavourClients : \A o, p \in e.internal[c] : o # p => e.mask[o] \cap e.mask[p] = {}

\* Each flavour has an object that knows its mask, and flavours do not overlap.
OwnMasks(e) == \A m \in Flavour!Masks : e.flavours[m] # Flavour!NULL => e.mask[e.flavours[m]] = m
\* No two masks of a set overlap.
Disjoint(S) == \A m, n \in S : m # n => m \cap n = {}

\* The element is in order.
FlavOK(e) ==
  /\ e \in Flavour!Element
  /\ Linked(e) /\ OneStream(e)
  /\ e.stage = "closing" => e.reqs # {}
  /\ OwnMasks(e) /\ Disjoint(Flavour!Flavours(e))

\* Clients who leave, one or several, leave the element in order.
LEMMA RequestsRemoved ==
  ASSUME NEW e, FlavOK(e), NEW cs \in SUBSET FlavourClients
  PROVE  FlavOK(Flavour!RemoveRequests(e, cs))
<1> DEFINE r == Flavour!RemoveRequests(e, cs)
           internal == [c \in FlavourClients |-> IF c \in cs THEN {} ELSE e.internal[c]]
           upstream == {reg \in e.upstream : reg[1] \notin cs}
           rs == [o \in FlavourObjects |-> e.rs[o] \ {c \in cs : o \in e.internal[c]}]
           stage == IF e.stage = "closing" /\ cs # {} /\ e.reqs \subseteq cs THEN "closed" ELSE e.stage
<1>1. r = [e EXCEPT !.reqs = e.reqs \ cs, !.internal = internal, !.upstream = upstream, !.rs = rs,
                    !.stage = stage]
  BY DEF Flavour!RemoveRequests, FlavOK, Flavour!Element
<1>2. /\ internal \in [FlavourClients -> SUBSET FlavourObjects]
      /\ upstream \in SUBSET (FlavourClients \X FlavourObjects)
      /\ rs \in [FlavourObjects -> SUBSET FlavourClients]
      /\ stage \in {"down", "up", "asked", "closing", "closed"}
      /\ e.reqs \ cs \in SUBSET FlavourClients
  BY DEF FlavOK, Flavour!Element
<1>3. ASSUME NEW c \in FlavourClients, NEW o \in FlavourObjects
      PROVE  /\ o \in internal[c] <=> o \in e.internal[c] /\ c \notin cs
             /\ c \in rs[o] <=> c \in e.rs[o] /\ ~(c \in cs /\ o \in e.internal[c])
             /\ <<c, o>> \in upstream <=> <<c, o>> \in e.upstream /\ c \notin cs
  OBVIOUS
<1>4. \A c \in FlavourClients : internal[c] \subseteq e.internal[c] OBVIOUS
<1>5. stage = "closing" => e.reqs \ cs # {} BY DEF FlavOK
<1> HIDE DEF internal, upstream, rs, stage
<1>6. /\ r \in Flavour!Element /\ r.reqs = e.reqs \ cs /\ r.internal = internal
      /\ r.upstream = upstream /\ r.rs = rs /\ r.stage = stage /\ r.flavours = e.flavours /\ r.mask = e.mask
  BY <1>1, <1>2 DEF FlavOK, Flavour!Element
<1> HIDE DEF r
<1>7. Linked(r) BY <1>3, <1>6 DEF FlavOK, Linked
<1>8. OneStream(r) BY <1>4, <1>6 DEF FlavOK, OneStream
<1>9. OwnMasks(r) /\ Disjoint(Flavour!Flavours(r))
  BY <1>6 DEF FlavOK, OwnMasks, Flavour!Flavours
<1>10. FlavOK(r) BY <1>5, <1>6, <1>7, <1>8, <1>9 DEF FlavOK
<1> QED BY <1>10 DEF r

\* A flavour that is deleted leaves the element in order, whomever the loop
\* reaches and whoever leaves.
LEMMA FlavourDeleted ==
  ASSUME NEW e, FlavOK(e), NEW m \in Flavour!Flavours(e), NEW d \in Flavour!DelFlav(e, m)
  PROVE  FlavOK(d) /\ Flavour!Flavours(d) = Flavour!Flavours(e) \ {m}
<1> DEFINE o == e.flavours[m]
           erased == [e EXCEPT !.flavours[m] = Flavour!NULL]
<1>1. PICK reached \in Flavour!Reached(e, m) : \E leaving \in SUBSET reached :
        d = Flavour!Unregister(erased, o, reached, leaving)
  BY DEF Flavour!DelFlav
<1>2. PICK leaving \in SUBSET reached : d = Flavour!Unregister(erased, o, reached, leaving)
  BY <1>1
<1>3. /\ m \in Flavour!Masks /\ o \in FlavourObjects
      /\ reached \subseteq e.rs[o] /\ e.rs[o] \subseteq FlavourClients
  BY DEF Flavour!Reached, Flavour!Flavours, FlavOK, Flavour!Element
<1> DEFINE flavours == [e.flavours EXCEPT ![m] = Flavour!NULL]
           internal == [c \in FlavourClients |-> IF c \in reached THEN e.internal[c] \ {o} ELSE e.internal[c]]
           upstream == {reg \in e.upstream : ~(reg[1] \in reached /\ reg[2] = o)}
           gone == [erased EXCEPT !.internal = internal, !.upstream = upstream]
           told == Flavour!RemoveRequests(gone, leaving)
<1>4. d = [told EXCEPT !.rs[o] = @ \ reached]
  BY <1>2 DEF Flavour!Unregister, FlavOK, Flavour!Element
<1>5. /\ flavours \in [Flavour!Masks -> FlavourObjects \cup {Flavour!NULL}]
      /\ internal \in [FlavourClients -> SUBSET FlavourObjects]
      /\ upstream \in SUBSET (FlavourClients \X FlavourObjects)
  BY DEF FlavOK, Flavour!Element
<1>6. ASSUME NEW c \in FlavourClients, NEW p \in FlavourObjects
      PROVE  /\ p \in internal[c] <=> p \in e.internal[c] /\ ~(c \in reached /\ p = o)
             /\ <<c, p>> \in upstream <=> <<c, p>> \in e.upstream /\ ~(c \in reached /\ p = o)
  OBVIOUS
<1>7. \A n \in Flavour!Masks : flavours[n] = IF n = m THEN Flavour!NULL ELSE e.flavours[n]
  BY DEF FlavOK, Flavour!Element
<1>8. /\ gone \in Flavour!Element /\ gone.flavours = flavours /\ gone.internal = internal
      /\ gone.upstream = upstream /\ gone.rs = e.rs /\ gone.reqs = e.reqs /\ gone.mask = e.mask
      /\ gone.stage = e.stage
  <2> HIDE DEF internal, upstream
  <2> QED BY <1>5 DEF FlavOK, Flavour!Element
<1> HIDE DEF gone, internal, upstream, flavours
<1> DEFINE rs == [p \in FlavourObjects |-> e.rs[p] \ {c \in leaving : p \in internal[c]}]
           stage == IF e.stage = "closing" /\ leaving # {} /\ e.reqs \subseteq leaving
                    THEN "closed" ELSE e.stage
           internal2 == [c \in FlavourClients |-> IF c \in leaving THEN {} ELSE internal[c]]
           upstream2 == {reg \in upstream : reg[1] \notin leaving}
<1>9. told = [gone EXCEPT !.reqs = e.reqs \ leaving, !.internal = internal2, !.upstream = upstream2,
                          !.rs = rs, !.stage = stage]
  BY <1>8 DEF Flavour!RemoveRequests, Flavour!Element
<1>10. /\ internal2 \in [FlavourClients -> SUBSET FlavourObjects]
       /\ upstream2 \in SUBSET (FlavourClients \X FlavourObjects)
       /\ rs \in [FlavourObjects -> SUBSET FlavourClients]
       /\ stage \in {"down", "up", "asked", "closing", "closed"}
       /\ e.reqs \ leaving \in SUBSET FlavourClients
  BY <1>5, <1>8 DEF FlavOK, Flavour!Element
<1>11. ASSUME NEW c \in FlavourClients, NEW p \in FlavourObjects
       PROVE  /\ p \in internal2[c] <=> p \in internal[c] /\ c \notin leaving
              /\ c \in rs[p] <=> c \in e.rs[p] /\ ~(c \in leaving /\ p \in internal[c])
              /\ <<c, p>> \in upstream2 <=> <<c, p>> \in upstream /\ c \notin leaving
  OBVIOUS
<1>12. stage = "closing" => e.reqs \ leaving # {} BY DEF FlavOK
<1> HIDE DEF internal2, upstream2, rs, stage
<1>13. /\ told \in Flavour!Element /\ told.reqs = e.reqs \ leaving /\ told.internal = internal2
       /\ told.upstream = upstream2 /\ told.rs = rs /\ told.stage = stage
       /\ told.flavours = flavours /\ told.mask = e.mask
  BY ZenonT(60), <1>8, <1>9, <1>10 DEF Flavour!Element
<1> HIDE DEF told
<1>14. [rs EXCEPT ![o] = @ \ reached] \in [FlavourObjects -> SUBSET FlavourClients] BY <1>10
<1>15. d \in Flavour!Element /\ d.rs = [rs EXCEPT ![o] = @ \ reached]
       /\ d.reqs = e.reqs \ leaving /\ d.internal = internal2
       /\ d.upstream = upstream2 /\ d.stage = stage
       /\ d.flavours = flavours /\ d.mask = e.mask
  BY <1>4, <1>13, <1>14 DEF Flavour!Element
<1>16. ASSUME NEW c \in FlavourClients, NEW p \in FlavourObjects
       PROVE  c \in d.rs[p] <=> c \in rs[p] /\ ~(p = o /\ c \in reached)
  BY <1>10, <1>15
<1>17. Linked(d)
  <2> SUFFICES ASSUME NEW c \in FlavourClients, NEW p \in FlavourObjects
               PROVE  /\ p \in d.internal[c] <=> c \in d.rs[p]
                      /\ p \in d.internal[c] <=> <<c, p>> \in d.upstream
                      /\ p \in d.internal[c] => c \in d.reqs
    BY DEF Linked
  <2>1. /\ p \in e.internal[c] <=> c \in e.rs[p]
        /\ p \in e.internal[c] <=> <<c, p>> \in e.upstream
        /\ p \in e.internal[c] => c \in e.reqs
    BY DEF FlavOK, Linked
  <2>2. c \in leaving => c \in reached OBVIOUS
  <2> QED BY <1>6, <1>11, <1>15, <1>16, <2>1, <2>2
<1>18. OneStream(d)
  <2>1. \A c \in FlavourClients : d.internal[c] \subseteq e.internal[c]
    <3> SUFFICES ASSUME NEW c \in FlavourClients, NEW p \in d.internal[c] PROVE p \in e.internal[c]
      OBVIOUS
    <3>1. p \in FlavourObjects BY <1>10, <1>15
    <3> QED BY <1>6, <1>11, <1>15, <3>1
  <2> QED BY <1>15, <2>1 DEF FlavOK, OneStream
<1>19. Flavour!Flavours(d) = Flavour!Flavours(e) \ {m}
  BY <1>7, <1>15 DEF Flavour!Flavours
<1>20. OwnMasks(d) /\ Disjoint(Flavour!Flavours(d))
  BY <1>7, <1>15, <1>19 DEF FlavOK, OwnMasks, Disjoint
<1> QED BY <1>12, <1>15, <1>17, <1>18, <1>19, <1>20 DEF FlavOK

\* The recursion of DelAll, and what it leads to.
DelSome(e, f, M) == IF M = {} THEN {e} ELSE UNION {Flavour!DelFlav(s, First(M)) : s \in f[M \ {First(M)}]}
\* The elements in order that have lost the flavours of M and no other.
Left(e, M) == {s \in Flavour!Element : FlavOK(s) /\ Flavour!Flavours(s) = Flavour!Flavours(e) \ M}

\* There are finitely many flavours.
LEMMA FlavoursFinite ==
  ASSUME NEW e
  PROVE  /\ IsFiniteSet(Flavour!Masks) /\ IsFiniteSet(Flavour!Flavours(e))
         /\ Flavour!Flavours(e) \subseteq Flavour!Masks
<1>1. IsFiniteSet(SUBSET Bits) BY FS_SUBSET, ElementsAssumption
<1>2. Flavour!Masks \in SUBSET SUBSET Bits BY DEF Flavour!Masks
<1>3. IsFiniteSet(Flavour!Masks) BY <1>1, <1>2, FS_Subset
<1>4. Flavour!Flavours(e) \in SUBSET Flavour!Masks BY DEF Flavour!Flavours
<1> QED BY <1>3, <1>4, FS_Subset

\* One step of it.
LEMMA DelStep ==
  ASSUME NEW e, FlavOK(e), NEW f, NEW M \in SUBSET Flavour!Flavours(e), M # {},
         f[M \ {First(M)}] \subseteq Left(e, M \ {First(M)})
  PROVE  DelSome(e, f, M) \subseteq Left(e, M)
<1> DEFINE m == First(M)
<1>1. m \in M BY DEF First
<1>2. ASSUME NEW s \in f[M \ {m}], NEW d \in Flavour!DelFlav(s, m) PROVE d \in Left(e, M)
  <2>1. FlavOK(s) /\ Flavour!Flavours(s) = Flavour!Flavours(e) \ (M \ {m}) BY <1>2 DEF Left
  <2>2. m \in Flavour!Flavours(s) BY <1>1, <2>1
  <2>3. FlavOK(d) /\ Flavour!Flavours(d) = Flavour!Flavours(s) \ {m}
    BY <1>2, <2>1, <2>2, FlavourDeleted
  <2>4. Flavour!Flavours(d) = Flavour!Flavours(e) \ M BY <1>1, <2>1, <2>3
  <2> QED BY <2>3, <2>4 DEF Left, FlavOK
<1> HIDE DEF m
<1>3. DelSome(e, f, M) = UNION {Flavour!DelFlav(s, m) : s \in f[M \ {m}]} BY DEF DelSome, m
<1> QED BY <1>2, <1>3

\* All of it.
LEMMA DelTyped ==
  ASSUME NEW e, FlavOK(e), NEW f,
         \A M \in SUBSET Flavour!Flavours(e) :
           (M = {} \/ f[M \ {First(M)}] \subseteq Left(e, M \ {First(M)})) => f[M] = DelSome(e, f, M)
  PROVE  \A M \in SUBSET Flavour!Flavours(e) : f[M] \subseteq Left(e, M)
<1> DEFINE P == {M \in SUBSET Flavour!Flavours(e) : f[M] \subseteq Left(e, M)}
<1>1. {} \in P
  <2>1. f[{}] = {e} BY DEF DelSome
  <2> QED BY <2>1 DEF Left, FlavOK
<1>2. \A M \in SUBSET Flavour!Flavours(e) : M # {} /\ M \ {First(M)} \in P => M \in P
  <2> SUFFICES ASSUME NEW M \in SUBSET Flavour!Flavours(e), M # {}, M \ {First(M)} \in P
               PROVE  M \in P
    OBVIOUS
  <2>1. f[M \ {First(M)}] \subseteq Left(e, M \ {First(M)}) OBVIOUS
  <2>2. f[M] = DelSome(e, f, M) BY <2>1
  <2> QED BY <2>1, <2>2, DelStep
<1>3. ASSUME NEW M \in SUBSET Flavour!Flavours(e) PROVE f[M] \subseteq Left(e, M)
  <2> DEFINE Q == {N \in SUBSET M : N \in P}
  <2>1. IsFiniteSet(M) BY FlavoursFinite, FS_Subset
  <2>2. Q \in SUBSET SUBSET M /\ {} \in Q BY <1>1
  <2>3. \A N \in SUBSET M : N # {} /\ N \ {First(N)} \in Q => N \in Q
    <3> HIDE DEF P
    <3> QED BY <1>2
  <2> HIDE DEF Q, P
  <2>4. M \in Q BY <2>1, <2>2, <2>3, SetsByFirst
  <2> QED BY <2>4 DEF Q, P
<1> QED BY <1>3

\* When all flavours are deleted the element is in order, and has none.
LEMMA AllDeleted ==
  ASSUME NEW e, FlavOK(e), NEW d \in Flavour!DelAll(e)
  PROVE  FlavOK(d) /\ Flavour!Flavours(d) = {}
<1> DEFINE S == Flavour!Flavours(e)
           E == Flavour!Element
           G == [z \in (SUBSET E) \X S |-> UNION {Flavour!DelFlav(s, z[2]) : s \in z[1]}]
           F == CHOOSE f : f = [M \in SUBSET S |-> DelSome(e, f, M)]
<1>1. \E f : f = [M \in SUBSET S |-> DelSome(e, f, M)]
  <2>1. IsFiniteSet(S) BY FlavoursFinite
  <2>2. PICK f : /\ f = [M \in SUBSET S |-> f[M]]
                 /\ \A M \in SUBSET S : f[M] = Folded(S, {e}, G, f, M)
    <3> HIDE DEF S, G
    <3> QED BY <2>1, FoldExists
  <2>3. ASSUME NEW M \in SUBSET S,
               M = {} \/ f[M \ {First(M)}] \subseteq Left(e, M \ {First(M)})
        PROVE  f[M] = DelSome(e, f, M)
    <3>1. f[M] = Folded(S, {e}, G, f, M) BY <2>2
    <3>2. CASE M = {} BY <3>1, <3>2 DEF Folded, DelSome
    <3>3. CASE M # {}
      <4>1. First(M) \in S BY <3>3 DEF First
      <4>2. f[M \ {First(M)}] \in SUBSET E BY <2>3, <3>3 DEF Left
      <4>3. f[M] = G[<<f[M \ {First(M)}], First(M)>>] BY <3>1, <3>3 DEF Folded
      <4>4. <<f[M \ {First(M)}], First(M)>> \in (SUBSET E) \X S BY <4>1, <4>2
      <4>5. f[M] = UNION {Flavour!DelFlav(s, First(M)) : s \in f[M \ {First(M)}]}
        <5> HIDE DEF S, E
        <5> QED BY <4>3, <4>4
      <4> QED BY <3>3, <4>5 DEF DelSome
    <3> QED BY <3>2, <3>3
  <2>4. \A M \in SUBSET S : f[M] \subseteq Left(e, M) BY <2>3, DelTyped
  <2>5. ASSUME NEW M \in SUBSET S PROVE f[M] = DelSome(e, f, M)
    <3>1. M # {} => M \ {First(M)} \in SUBSET S OBVIOUS
    <3> HIDE DEF S
    <3> QED BY <2>3, <2>4, <3>1
  <2>6. f = [M \in SUBSET S |-> f[M]] BY <2>2
  <2>7. f = [M \in SUBSET S |-> DelSome(e, f, M)]
    <3> HIDE DEF S
    <3> QED BY <2>5, <2>6
  <2> QED BY <2>7
<1>2. F = [M \in SUBSET S |-> DelSome(e, F, M)] BY <1>1
<1>3. Flavour!DelAll(e) = F[S] BY DEF Flavour!DelAll, DelSome, First
<1> HIDE DEF F
<1>4. \A M \in SUBSET S : F[M] = DelSome(e, F, M) BY <1>2
<1>5. \A M \in SUBSET S : F[M] \subseteq Left(e, M) BY <1>4, DelTyped
<1>6. d \in Left(e, S) BY <1>3, <1>5
<1> QED BY <1>6 DEF Left

\* New flavours that overlap none, each with an object of its own.
LEMMA FlavoursAdded ==
  ASSUME NEW e, FlavOK(e), NEW new \in SUBSET Flavour!Masks, Disjoint(new),
         \A m \in new, n \in Flavour!Flavours(e) : m \cap n = {},
         Cardinality(new) <= Cardinality(Flavour!Unused(e))
  PROVE  LET d == Flavour!AddFlavs(e, new)
         IN  FlavOK(d) /\ Flavour!Flavours(d) \subseteq Flavour!Flavours(e) \cup new
<1> DEFINE unused == Flavour!Unused(e)
           at == CHOOSE f \in [new -> unused] : \A m, n \in new : f[m] = f[n] => m = n
           flavours == [m \in Flavour!Masks |-> IF m \in new THEN at[m] ELSE e.flavours[m]]
           mask == [o \in FlavourObjects |-> IF \E m \in new : at[m] = o
                                            THEN CHOOSE m \in new : at[m] = o ELSE e.mask[o]]
           d == Flavour!AddFlavs(e, new)
<1>1. d = [e EXCEPT !.flavours = flavours, !.mask = mask]
  BY DEF Flavour!AddFlavs, FlavOK, Flavour!Element
<1>2. at \in [new -> unused] /\ \A m, n \in new : at[m] = at[n] => m = n
  <2>1. IsFiniteSet(new) BY FlavoursFinite, FS_Subset
  <2>2. unused \in SUBSET FlavourObjects BY DEF Flavour!Unused
  <2>3. IsFiniteSet(unused) BY <2>2, FS_Subset, ElementsAssumption
  <2> HIDE DEF unused
  <2>4. \E f \in [new -> unused] : \A m, n \in new : f[m] = f[n] => m = n
    BY <2>1, <2>3, RoomEnough DEF unused
  <2> QED BY <2>4
<1>3. unused \subseteq FlavourObjects
      /\ \A o \in unused : e.rs[o] = {} /\ \A m \in Flavour!Masks : e.flavours[m] # o
  BY DEF Flavour!Unused
<1> HIDE DEF at, unused
<1>4. ASSUME NEW m \in new PROVE mask[at[m]] = m
  <2>1. at[m] \in FlavourObjects BY <1>2, <1>3
  <2>2. (CHOOSE n \in new : at[n] = at[m]) \in new /\ at[CHOOSE n \in new : at[n] = at[m]] = at[m]
    OBVIOUS
  <2>3. (CHOOSE n \in new : at[n] = at[m]) = m BY <1>2, <2>2
  <2> QED BY <2>1, <2>3
<1>5. ASSUME NEW o \in FlavourObjects, o \notin unused PROVE mask[o] = e.mask[o]
  <2>1. ~\E m \in new : at[m] = o BY <1>2, <1>5
  <2> QED BY <2>1
<1>6. /\ flavours \in [Flavour!Masks -> FlavourObjects \cup {Flavour!NULL}]
      /\ mask \in [FlavourObjects -> Flavour!Masks]
  <2>1. flavours \in [Flavour!Masks -> FlavourObjects \cup {Flavour!NULL}]
    BY <1>2, <1>3 DEF FlavOK, Flavour!Element
  <2>2. ASSUME NEW o \in FlavourObjects, \E m \in new : at[m] = o
        PROVE  (CHOOSE m \in new : at[m] = o) \in Flavour!Masks
    <3>1. (CHOOSE m \in new : at[m] = o) \in new BY <2>2
    <3> QED BY <3>1
  <2> QED BY <2>1, <2>2 DEF FlavOK, Flavour!Element
<1>7. \A m \in Flavour!Masks : flavours[m] = IF m \in new THEN at[m] ELSE e.flavours[m] OBVIOUS
<1> HIDE DEF flavours, mask, d
<1>8. /\ d \in Flavour!Element /\ d.flavours = flavours /\ d.mask = mask
      /\ d.rs = e.rs /\ d.reqs = e.reqs /\ d.internal = e.internal
      /\ d.upstream = e.upstream /\ d.stage = e.stage
  BY <1>1, <1>6 DEF FlavOK, Flavour!Element
<1>9. Linked(d) BY <1>8 DEF FlavOK, Linked
<1>10. OneStream(d)
  <2>1. \A c \in FlavourClients : \A o \in e.internal[c] : o \in FlavourObjects /\ o \notin unused
    BY <1>3 DEF FlavOK, Linked, Flavour!Element
  <2> QED BY <1>5, <1>8, <2>1 DEF FlavOK, OneStream
<1>11. OwnMasks(d)
  <2> SUFFICES ASSUME NEW m \in Flavour!Masks, d.flavours[m] # Flavour!NULL
               PROVE  d.mask[d.flavours[m]] = m
    BY DEF OwnMasks
  <2>1. CASE m \in new BY <1>4, <1>7, <1>8, <2>1
  <2>2. CASE m \notin new
    <3>1. d.flavours[m] = e.flavours[m] /\ e.flavours[m] \in FlavourObjects
      BY <1>7, <1>8, <2>2 DEF FlavOK, Flavour!Element
    <3>2. e.flavours[m] \notin unused BY <1>3
    <3> QED BY <1>5, <1>8, <3>1, <3>2 DEF FlavOK, OwnMasks
  <2> QED BY <2>1, <2>2
<1>12. Flavour!Flavours(d) \subseteq Flavour!Flavours(e) \cup new
  BY <1>7, <1>8 DEF Flavour!Flavours
<1>13. Disjoint(Flavour!Flavours(d))
  BY <1>12 DEF FlavOK, Disjoint
<1> QED BY <1>8, <1>9, <1>10, <1>11, <1>12, <1>13 DEF FlavOK, d

\* Flavours that do not overlap are not more than the bits.
LEMMA FewFlavours ==
  ASSUME NEW new \in SUBSET Flavour!Masks, Disjoint(new)
  PROVE  Cardinality(new) <= Cardinality(Bits)
<1> DEFINE f == [m \in new |-> CHOOSE b \in m : TRUE]
<1>1. \A m \in new : (CHOOSE b \in m : TRUE) \in m /\ m \subseteq Bits BY DEF Flavour!Masks
<1>2. f \in [new -> Bits] BY <1>1
<1>3. ASSUME NEW m \in new, NEW n \in new, f[m] = f[n] PROVE m = n
  <2>1. f[m] \in m \cap n BY <1>1, <1>3
  <2> QED BY <2>1 DEF Disjoint
<1> HIDE DEF f
<1>4. f \in Injection(new, Bits) BY <1>2, <1>3 DEF Injection, IsInjective
<1> QED BY <1>4, FS_Injection, ElementsAssumption

\* A new element is in order, and all its objects are unused.
LEMMA EmptyOK ==
  ASSUME NEW e, e = Flavour!Empty \/ e = [Flavour!Empty EXCEPT !.stage = "up"]
  PROVE  FlavOK(e) /\ Flavour!Flavours(e) = {} /\ Flavour!Unused(e) = FlavourObjects
<1> DEFINE flavours == [m \in Flavour!Masks |-> Flavour!NULL]
           mask == [o \in FlavourObjects |-> Bits]
           rs == [o \in FlavourObjects |-> {}]
           internal == [c \in FlavourClients |-> {}]
<1>1. PICK stage \in {"down", "up"} :
        e = [stage |-> stage, flavours |-> flavours, mask |-> mask, rs |-> rs,
             reqs |-> {}, internal |-> internal, upstream |-> {}]
  BY DEF Flavour!Empty
<1>2. /\ flavours \in [Flavour!Masks -> FlavourObjects \cup {Flavour!NULL}]
      /\ mask \in [FlavourObjects -> Flavour!Masks]
      /\ rs \in [FlavourObjects -> SUBSET FlavourClients]
      /\ internal \in [FlavourClients -> SUBSET FlavourObjects]
  BY ElementsAssumption DEF Flavour!Masks
<1>3. /\ \A m \in Flavour!Masks : flavours[m] = Flavour!NULL
      /\ \A o \in FlavourObjects : rs[o] = {}
      /\ \A c \in FlavourClients : internal[c] = {}
  OBVIOUS
<1> HIDE DEF flavours, mask, rs, internal
<1>4. e \in Flavour!Element BY <1>1, <1>2 DEF Flavour!Element
<1>5. Linked(e) /\ OneStream(e) /\ OwnMasks(e) /\ e.stage # "closing"
  BY <1>1, <1>3 DEF Linked, OneStream, OwnMasks
<1>6. Flavour!Flavours(e) = {} BY <1>1, <1>3 DEF Flavour!Flavours
<1>7. Flavour!Unused(e) = FlavourObjects
  <2>1. \A o \in FlavourObjects : e.rs[o] = {} BY <1>1, <1>3
  <2>2. \A o \in FlavourObjects : \A m \in Flavour!Masks : e.flavours[m] # o
    BY <1>1, <1>3, ElementsAssumption DEF Flavour!NULL
  <2> QED BY <2>1, <2>2 DEF Flavour!Unused
<1> QED BY <1>4, <1>5, <1>6, <1>7 DEF FlavOK, Disjoint

\* What is known of the element: it is in order, and the flavours that are
\* saved do not overlap.
FlavInv ==
  /\ FlavOK(flavouring)
  /\ flavKeeper \subseteq Flavour!Masks /\ Disjoint(flavKeeper)
  /\ configured \in Configurations

\* A subset of the flavours overlaps no more than all of them.
LEMMA DisjointSubset == ASSUME NEW S, Disjoint(S), NEW T \in SUBSET S PROVE Disjoint(T)
BY DEF Disjoint

\* The element is saved after a step that leaves it in order.
LEMMA SavedFlavours ==
  ASSUME FlavInv, NEW e, FlavOK(e), Flavour!Becomes(e), Flavour!Saves \/ UNCHANGED flavKeeper
  PROVE  FlavInv'
<1>1. flavouring' = e /\ configured' = configured BY DEF Flavour!Becomes
<1>2. flavKeeper' = Flavour!Flavours(e) \/ flavKeeper' = flavKeeper BY <1>1 DEF Flavour!Saves
<1>3. Flavour!Flavours(e) \subseteq Flavour!Masks /\ Disjoint(Flavour!Flavours(e))
  BY DEF FlavOK, Flavour!Flavours
<1>4. flavKeeper' \subseteq Flavour!Masks /\ Disjoint(flavKeeper') BY <1>2, <1>3 DEF FlavInv
<1>5. FlavOK(flavouring') BY <1>1
<1> QED BY <1>1, <1>4, <1>5 DEF FlavInv

\* The flavours that the element starts with do not overlap.
LEMMA InitialFlavours ==
  ASSUME FlavInv PROVE Flavour!Initial \in SUBSET Flavour!Masks /\ Disjoint(Flavour!Initial)
<1>1. configured \subseteq Flavour!Masks /\ Disjoint(configured)
  BY ElementsAssumption DEF FlavInv, Disjoint
<1> QED BY <1>1 DEF FlavInv, Flavour!Initial

\* A request that is added leaves the element in order.
LEMMA RequestAdded ==
  ASSUME FlavInv, NEW c \in FlavourClients, Flavour!AddRequest(c)
  PROVE  FlavInv'
<1> DEFINE e == flavouring
<1>1. PICK caps \in Flavour!Masks :
      \E got \in SUBSET {e.flavours[m] : m \in {m \in Flavour!Flavours(e) : m \cap caps # {}}} :
        /\ got # {}
        /\ Flavour!Becomes([e EXCEPT !.reqs = @ \cup {c}, !.internal[c] = got,
             !.upstream = @ \cup ({c} \X got),
             !.rs = [o \in FlavourObjects |-> IF o \in got THEN @[o] \cup {c} ELSE @[o]]])
  BY DEF Flavour!AddRequest
<1>2. PICK got \in SUBSET {e.flavours[m] : m \in {m \in Flavour!Flavours(e) : m \cap caps # {}}} :
        Flavour!Becomes([e EXCEPT !.reqs = @ \cup {c}, !.internal[c] = got,
             !.upstream = @ \cup ({c} \X got),
             !.rs = [o \in FlavourObjects |-> IF o \in got THEN @[o] \cup {c} ELSE @[o]]])
  BY <1>1
<1>3. FlavOK(e) /\ e \in Flavour!Element /\ c \notin e.reqs /\ UNCHANGED flavKeeper
  BY DEF FlavInv, FlavOK, Flavour!AddRequest
<1>4. ASSUME NEW o \in got
      PROVE  \E m \in Flavour!Flavours(e) : o = e.flavours[m] /\ o \in FlavourObjects /\ e.mask[o] = m
    BY <1>3 DEF FlavOK, OwnMasks, Flavour!Flavours, Flavour!Element
<1>5. got \subseteq FlavourObjects BY <1>4
<1> DEFINE internal == [e.internal EXCEPT ![c] = got]
           upstream == e.upstream \cup ({c} \X got)
           rs == [o \in FlavourObjects |-> IF o \in got THEN e.rs[o] \cup {c} ELSE e.rs[o]]
           d == [e EXCEPT !.reqs = e.reqs \cup {c}, !.internal = internal, !.upstream = upstream, !.rs = rs]
<1>6. Flavour!Becomes(d) BY <1>2
<1>7. /\ internal \in [FlavourClients -> SUBSET FlavourObjects]
      /\ upstream \in SUBSET (FlavourClients \X FlavourObjects)
      /\ rs \in [FlavourObjects -> SUBSET FlavourClients]
      /\ e.reqs \cup {c} \in SUBSET FlavourClients
  BY <1>3, <1>5 DEF Flavour!Element
<1>8. ASSUME NEW b \in FlavourClients, NEW o \in FlavourObjects
      PROVE  /\ o \in internal[b] <=> IF b = c THEN o \in got ELSE o \in e.internal[b]
             /\ b \in rs[o] <=> b \in e.rs[o] \/ (b = c /\ o \in got)
             /\ <<b, o>> \in upstream <=> <<b, o>> \in e.upstream \/ (b = c /\ o \in got)
  BY <1>3 DEF Flavour!Element
<1>9. \A b \in FlavourClients : internal[b] = IF b = c THEN got ELSE e.internal[b]
  BY <1>3 DEF Flavour!Element
<1> HIDE DEF internal, upstream, rs
<1>10. /\ d \in Flavour!Element /\ d.reqs = e.reqs \cup {c} /\ d.internal = internal
       /\ d.upstream = upstream /\ d.rs = rs /\ d.stage = e.stage /\ d.flavours = e.flavours
       /\ d.mask = e.mask
  BY <1>3, <1>7 DEF Flavour!Element
<1> HIDE DEF d, e
<1>11. Linked(d)
  <2>1. \A o \in FlavourObjects : o \notin e.internal[c] /\ c \notin e.rs[o] /\ <<c, o>> \notin e.upstream
    BY <1>3 DEF FlavOK, Linked
  <2> QED BY <1>3, <1>8, <1>10, <2>1 DEF FlavOK, Linked
<1>12. OneStream(d)
  <2> SUFFICES ASSUME NEW b \in FlavourClients, NEW o \in d.internal[b], NEW p \in d.internal[b], o # p
               PROVE  d.mask[o] \cap d.mask[p] = {}
    BY DEF OneStream
  <2>1. CASE b # c BY <1>3, <1>9, <1>10, <2>1 DEF FlavOK, OneStream
  <2>2. CASE b = c
    <3>1. o \in got /\ p \in got BY <1>9, <1>10, <2>2
    <3>2. PICK m \in Flavour!Flavours(e) : o = e.flavours[m] /\ e.mask[o] = m BY <1>4, <3>1
    <3>3. PICK n \in Flavour!Flavours(e) : p = e.flavours[n] /\ e.mask[p] = n BY <1>4, <3>1
    <3>4. m # n BY <3>2, <3>3
    <3> QED BY <1>3, <1>10, <3>2, <3>3, <3>4 DEF FlavOK, Disjoint
  <2> QED BY <2>1, <2>2
<1>13. OwnMasks(d) /\ Flavour!Flavours(d) = Flavour!Flavours(e)
  BY <1>3, <1>10 DEF FlavOK, OwnMasks, Flavour!Flavours
<1>14. FlavOK(d) BY <1>3, <1>10, <1>11, <1>12, <1>13 DEF FlavOK
<1> QED BY <1>3, <1>6, <1>14, SavedFlavours

\* The flavours of a play list that is set take the place of all others.
LEMMA FlavoursSet ==
  ASSUME FlavInv, NEW new \in SUBSET Flavour!Masks, Flavour!SetFlavours(new)
  PROVE  FlavInv'
<1>1. PICK e \in Flavour!DelAll(flavouring) :
        /\ Cardinality(Flavour!Unused(e)) >= Cardinality(new)
        /\ Flavour!Becomes(Flavour!AddFlavs(e, new))
  BY DEF Flavour!SetFlavours, Flavour!Cardinality, Flavour!IsFiniteSet, Cardinality, IsFiniteSet
<1>2. FlavOK(e) /\ Flavour!Flavours(e) = {} BY AllDeleted DEF FlavInv
<1>3. Disjoint(new) /\ Flavour!Saves BY DEF Flavour!SetFlavours, Disjoint
<1>4. Cardinality(new) <= Cardinality(Flavour!Unused(e))
  <2>1. IsFiniteSet(new) BY FlavoursFinite, FS_Subset
  <2>2. Flavour!Unused(e) \in SUBSET FlavourObjects BY DEF Flavour!Unused
  <2>3. IsFiniteSet(Flavour!Unused(e)) BY <2>2, FS_Subset, ElementsAssumption
  <2>4. Cardinality(new) \in Nat /\ Cardinality(Flavour!Unused(e)) \in Nat
    BY <2>1, <2>3, FS_CardinalityType
  <2> QED BY <1>1, <2>4
<1>5. FlavOK(Flavour!AddFlavs(e, new)) BY <1>2, <1>3, <1>4, FlavoursAdded
<1> QED BY <1>1, <1>3, <1>5, SavedFlavours

\* One more flavour.
LEMMA FlavourAdded ==
  ASSUME FlavInv, NEW m \in Flavour!Masks, Flavour!AddFlavour(m)
  PROVE  FlavInv'
<1>1. /\ Flavour!Becomes(Flavour!AddFlavs(flavouring, {m})) /\ Flavour!Saves
      /\ \A n \in Flavour!Flavours(flavouring) : m \cap n = {}
      /\ Flavour!Unused(flavouring) # {}
  BY DEF Flavour!AddFlavour, Flavour!Overlaps
<1>2. Cardinality({m}) <= Cardinality(Flavour!Unused(flavouring))
  <2> DEFINE unused == Flavour!Unused(flavouring)
  <2>1. unused \in SUBSET FlavourObjects BY DEF Flavour!Unused
  <2>2. IsFiniteSet(unused) BY <2>1, FS_Subset, ElementsAssumption
  <2> HIDE DEF unused
  <2>3. Cardinality(unused) \in Nat /\ Cardinality(unused) # 0
    BY <1>1, <2>2, FS_CardinalityType, FS_EmptySet DEF unused
  <2>4. Cardinality({m}) = 1 BY FS_Singleton
  <2>5. Cardinality({m}) <= Cardinality(unused) BY <2>3, <2>4
  <2> QED BY <2>5 DEF unused
<1>3. Disjoint({m}) BY DEF Disjoint
<1>4. FlavOK(Flavour!AddFlavs(flavouring, {m}))
  BY <1>1, <1>2, <1>3, FlavoursAdded DEF FlavInv
<1> QED BY <1>1, <1>4, SavedFlavours

\* The constructor, from the configuration or what was saved.
LEMMA ElementStarts ==
  ASSUME FlavInv, Flavour!Start
  PROVE  FlavInv'
<1> DEFINE e == [Flavour!Empty EXCEPT !.stage = "up"]
<1>1. FlavOK(e) /\ Flavour!Flavours(e) = {} /\ Flavour!Unused(e) = FlavourObjects
  <2> HIDE DEF e
  <2> QED BY EmptyOK DEF e
<1>2. Flavour!Becomes(Flavour!AddFlavs(e, Flavour!Initial)) /\ Flavour!Saves BY DEF Flavour!Start
<1>3. Cardinality(Flavour!Initial) <= Cardinality(FlavourObjects)
  <2> DEFINE new == Flavour!Initial
  <2>1. new \in SUBSET Flavour!Masks /\ Disjoint(new) BY InitialFlavours
  <2> HIDE DEF new
  <2>2. Cardinality(new) <= Cardinality(Bits) BY <2>1, FewFlavours
  <2>3. IsFiniteSet(new) BY <2>1, FlavoursFinite, FS_Subset
  <2>4. Cardinality(new) \in Nat /\ Cardinality(Bits) \in Nat /\ Cardinality(FlavourObjects) \in Nat
    BY <2>3, FS_CardinalityType, ElementsAssumption
  <2>5. Cardinality(new) <= Cardinality(FlavourObjects) BY <2>2, <2>4, ElementsAssumption
  <2> QED BY <2>5 DEF new
<1> HIDE DEF e
<1>4. FlavOK(Flavour!AddFlavs(e, Flavour!Initial))
  BY <1>1, <1>3, InitialFlavours, FlavoursAdded
<1> QED BY <1>2, <1>4, SavedFlavours

\* The invariant is inductive.
LEMMA FlavStep == FlavInv /\ (Flavour!Next \/ UNCHANGED flavVars) => FlavInv'
<1> SUFFICES ASSUME FlavInv, Flavour!Next \/ UNCHANGED flavVars PROVE FlavInv' OBVIOUS
<1>0. FlavOK(flavouring) /\ flavouring \in Flavour!Element BY DEF FlavInv, FlavOK
<1>1. CASE UNCHANGED flavVars BY <1>1 DEF flavVars, FlavInv
<1>2. CASE Flavour!CrashInStart
  <2>1. PICK first \in (SUBSET Flavour!Initial) \ {{}} : flavKeeper' = first
    BY <1>2 DEF Flavour!CrashInStart
  <2>2. flavKeeper' \subseteq Flavour!Masks /\ Disjoint(flavKeeper')
    BY <2>1, InitialFlavours, DisjointSubset
  <2> QED BY <1>2, <2>2 DEF Flavour!CrashInStart, FlavInv
<1>3. CASE Flavour!Crash
  BY <1>3, EmptyOK, SavedFlavours DEF Flavour!Crash
<1>4. CASE Flavour!Close
  <2> DEFINE e == [flavouring EXCEPT !.stage = "asked"]
  <2>1. /\ e \in Flavour!Element /\ e.stage = "asked" /\ e.reqs = flavouring.reqs /\ e.rs = flavouring.rs
        /\ e.internal = flavouring.internal /\ e.upstream = flavouring.upstream
        /\ e.flavours = flavouring.flavours /\ e.mask = flavouring.mask
    BY <1>0 DEF Flavour!Element
  <2>2. Flavour!Becomes(e) /\ UNCHANGED flavKeeper BY <1>4 DEF Flavour!Close
  <2> HIDE DEF e
  <2>3. FlavOK(e) BY <1>0, <2>1 DEF FlavOK, Linked, OneStream, OwnMasks, Flavour!Flavours
  <2> QED BY <2>2, <2>3, SavedFlavours
<1>5. CASE Flavour!InternalClose
  <2>1. flavouring.stage = "asked" /\ UNCHANGED flavKeeper BY <1>5 DEF Flavour!InternalClose
  <2>2. CASE flavouring.reqs = {}
    <3> DEFINE e == [flavouring EXCEPT !.stage = "closed"]
    <3>1. /\ e \in Flavour!Element /\ e.stage = "closed" /\ e.reqs = flavouring.reqs /\ e.rs = flavouring.rs
          /\ e.internal = flavouring.internal /\ e.upstream = flavouring.upstream
          /\ e.flavours = flavouring.flavours /\ e.mask = flavouring.mask
      BY <1>0 DEF Flavour!Element
    <3>2. Flavour!Becomes(e) BY <1>5, <2>2 DEF Flavour!InternalClose
    <3> HIDE DEF e
    <3>3. FlavOK(e) BY <1>0, <3>1 DEF FlavOK, Linked, OneStream, OwnMasks, Flavour!Flavours
    <3> QED BY <2>1, <3>2, <3>3, SavedFlavours
  <2>3. CASE flavouring.reqs # {}
    <3> DEFINE e == [flavouring EXCEPT !.stage = "closing"]
    <3>1. /\ e \in Flavour!Element /\ e.stage = "closing" /\ e.reqs = flavouring.reqs /\ e.rs = flavouring.rs
          /\ e.internal = flavouring.internal /\ e.upstream = flavouring.upstream
          /\ e.flavours = flavouring.flavours /\ e.mask = flavouring.mask
      BY <1>0 DEF Flavour!Element
    <3>2. PICK leaving \in SUBSET flavouring.reqs : Flavour!Becomes(Flavour!RemoveRequests(e, leaving))
      BY <1>5, <2>3 DEF Flavour!InternalClose
    <3> HIDE DEF e
    <3>3. FlavOK(e) BY <1>0, <2>3, <3>1 DEF FlavOK, Linked, OneStream, OwnMasks, Flavour!Flavours
    <3>4. leaving \in SUBSET FlavourClients BY <1>0 DEF Flavour!Element
    <3>5. FlavOK(Flavour!RemoveRequests(e, leaving)) BY <3>3, <3>4, RequestsRemoved
    <3> QED BY <2>1, <3>2, <3>5, SavedFlavours
  <2> QED BY <2>2, <2>3
<1>6. ASSUME NEW c \in FlavourClients, Flavour!ClientLeaves(c) PROVE FlavInv'
  <2>1. FlavOK(Flavour!RemoveRequests(flavouring, {c})) BY <1>0, RequestsRemoved
  <2> QED BY <1>6, <2>1, SavedFlavours DEF Flavour!ClientLeaves
<1>7. ASSUME NEW m \in Flavour!Masks, Flavour!DelFlavour(m) PROVE FlavInv'
  <2>1. PICK d \in Flavour!DelFlav(flavouring, m) : Flavour!Becomes(d)
    BY <1>7 DEF Flavour!DelFlavour
  <2>2. m \in Flavour!Flavours(flavouring) /\ Flavour!Saves BY <1>7 DEF Flavour!DelFlavour
  <2> QED BY <1>0, <2>1, <2>2, FlavourDeleted, SavedFlavours
<1> QED BY <1>1, <1>2, <1>3, <1>4, <1>5, <1>6, <1>7, RequestAdded, FlavoursSet, FlavourAdded, ElementStarts
        DEF Flavour!Next

\* The invariant of the element while it is the one that is active.
FlavAlways == active = "flavouring" => FlavInv

\* It is kept in every behaviour.
LEMMA FlavGoesOn ==
  /\ Init => FlavAlways
  /\ FlavAlways /\ [Next]_vars => FlavAlways'
<1>1. Init => FlavAlways
  <2> SUFFICES ASSUME Flavour!Init PROVE FlavInv BY DEF Init, FlavAlways
  <2> QED BY EmptyOK DEF FlavInv, Flavour!Init, Disjoint
<1>2. FlavAlways /\ [Next]_vars => FlavAlways'
  BY FlavStep DEF Next, vars, FlavAlways
<1> QED BY <1>1, <1>2

\* Clients, flavours and upstream requests agree.
THEOREM RegistrationsAgree == Spec => []RegistrationsMatch
<1>1. FlavAlways => RegistrationsMatch
  BY DEF FlavAlways, RegistrationsMatch, Flavour!RegistrationsMatch, FlavInv, FlavOK, Linked, OneStream
<1> QED BY <1>1, FlavGoesOn, PTL DEF Spec

\* Close is over when the last client is gone.
THEOREM CloseEnds == Spec => []CloseIsNotStuck
<1>1. FlavAlways => CloseIsNotStuck
  BY DEF FlavAlways, CloseIsNotStuck, Flavour!CloseIsNotStuck, FlavInv, FlavOK
<1> QED BY <1>1, FlavGoesOn, PTL DEF Spec

-----------------------------------------------------------------------------
(* HttpAuthorizer.                                                         *)

\* The theorems about HttpAuthorizer.
A == INSTANCE HttpAuthorizer_proofs WITH active <- actives

\* Its invariant, while the authorizer is the element that is active.
AuthorizerInv == active = "authorizer" => A!AnswersInv

\* The two instances of HttpAuthorizer say the same.
LEMMA SameAuthorizer ==
  /\ Authorizer!Init => A!Init
  /\ Authorizer!Next => A!Next
  /\ UNCHANGED authVars => UNCHANGED A!authVars
  /\ A!OneAnswerEach => Authorizer!OneAnswerEach
  /\ A!TypeOK => Authorizer!TypeOK
<1>1. Authorizer!Init => A!Init
  BY Zenon DEF Authorizer!Init, A!Init, Authorizer!Authorizations, A!Authorizations, Authorizer!Nobody, A!Nobody
<1>2. Authorizer!Next => A!Next
  BY Zenon DEF Authorizer!Next, A!Next, Authorizer!Authorize, A!Authorize, Authorizer!Cancel, A!Cancel,
     Authorizer!RequestCallback, A!RequestCallback, Authorizer!Nobody, A!Nobody
<1>3. UNCHANGED authVars => UNCHANGED A!authVars BY DEF authVars, A!authVars
<1>4. A!OneAnswerEach => Authorizer!OneAnswerEach
  BY Zenon DEF A!OneAnswerEach, Authorizer!OneAnswerEach, A!Nobody, Authorizer!Nobody,
     Authorizer!Authorizations, A!Authorizations
<1>5. A!TypeOK => Authorizer!TypeOK
  BY Zenon DEF A!TypeOK, Authorizer!TypeOK, A!Request, Authorizer!Request, A!Nobody, Authorizer!Nobody,
     Authorizer!Authorizations, A!Authorizations
<1> QED BY <1>1, <1>2, <1>3, <1>4, <1>5

\* The authorizer keeps its invariant in every behaviour.
LEMMA AuthorizerGoesOn ==
  /\ Init => AuthorizerInv
  /\ AuthorizerInv /\ [Next]_vars => AuthorizerInv'
<1>0. MaxRequests \in Nat BY ElementsAssumption
<1>1. Init => AuthorizerInv
  <2>1. A!Init => A!AnswersInv
    BY <1>0 DEF A!Init, A!AnswersInv, A!TypeOK, A!OneAnswerEach, A!Nobody, A!Authorizations
  <2> QED BY <2>1, SameAuthorizer DEF Init, AuthorizerInv
<1>2. AuthorizerInv /\ [Next]_vars => AuthorizerInv'
  <2> SUFFICES ASSUME AuthorizerInv, [Next]_vars, active' = "authorizer" PROVE A!AnswersInv'
    BY DEF AuthorizerInv
  <2>1. active = "authorizer" /\ A!AnswersInv BY DEF AuthorizerInv, Next, vars
  <2>2. A!Next \/ UNCHANGED authVars BY <2>1, SameAuthorizer DEF Next, vars
  <2>3. CASE A!Next
    BY <1>0, <2>1, <2>3, A!AuthorizeKeeps, A!CancelKeeps, A!ReplyKeeps DEF A!Next
  <2>4. CASE UNCHANGED authVars
    BY <2>1, <2>4 DEF authVars, A!AnswersInv, A!TypeOK, A!OneAnswerEach
  <2> QED BY <2>2, <2>3, <2>4
<1> QED BY <1>1, <1>2

\* Whoever asks HttpAuthorizer::Authorize is answered once, unless he cancels:
\* no order of requests, answers and cancellations loses or repeats one.
THEOREM OneAnswer == Spec => []OneAnswerEach
<1>1. AuthorizerInv => OneAnswerEach BY SameAuthorizer DEF AuthorizerInv, OneAnswerEach, A!AnswersInv
<1> QED BY <1>1, AuthorizerGoesOn, PTL DEF Spec

-----------------------------------------------------------------------------
(* SchedulePolicy.                                                         *)

\* A remainder is less than the divisor.
LEMMA Remainder ==
  ASSUME NEW x \in Int, NEW d \in Nat \ {0}
  PROVE  /\ (x % d) \in 0 .. (d - 1)
         /\ (x \div d) \in Int
         /\ x = d * (x \div d) + (x % d)
OBVIOUS

\* A number has only one remainder.
LEMMA OneRemainder ==
  ASSUME NEW d \in Nat \ {0}, NEW p \in Int, NEW q \in Int,
         NEW r \in 0 .. (d - 1), NEW s \in 0 .. (d - 1), d * p + r = d * q + s
  PROVE  r = s
<1>1. d * (p - q) = s - r OBVIOUS
<1>2. p - q = 0
  <2>1. ASSUME p - q >= 1 PROVE FALSE
    <3>1. d * (p - q) >= d BY <2>1
    <3> QED BY <1>1, <3>1
  <2>2. ASSUME p - q <= -1 PROVE FALSE
    <3>1. d * (p - q) <= -d BY <2>2
    <3> QED BY <1>1, <3>1
  <2> QED BY <2>1, <2>2
<1> QED BY <1>1, <1>2

\* What the remainder is after a multiple of the divisor.
LEMMA RemainderIs ==
  ASSUME NEW d \in Nat \ {0}, NEW p \in Int, NEW r \in 0 .. (d - 1)
  PROVE  (d * p + r) % d = r
<1> DEFINE x == d * p + r
           q == x \div d
           s == x % d
<1>1. d * p \in Int OBVIOUS
<1>2. x \in Int BY <1>1
<1> HIDE DEF x
<1>3. q \in Int /\ s \in 0 .. (d - 1) /\ x = d * q + s BY <1>2, Remainder
<1> HIDE DEF q, s
<1>4. d * p + r = d * q + s BY <1>3 DEF x
<1>5. r = s BY <1>3, <1>4, OneRemainder
<1> QED BY <1>5 DEF s, x

\* It grows with the number until it reaches the divisor.
LEMMA RemainderLater ==
  ASSUME NEW x \in Int, NEW d \in Nat \ {0}, NEW k \in Nat, (x % d) + k < d
  PROVE  (x + k) % d = (x % d) + k
<1> DEFINE q == x \div d
           r == (x % d) + k
<1>1. q \in Int /\ (x % d) \in 0 .. (d - 1) /\ x = d * q + (x % d) BY Remainder
<1>2. r \in 0 .. (d - 1) /\ d * q \in Int BY <1>1
<1>3. x + k = d * q + r
  <2> DEFINE s == x % d
             y == d * q
  <2>1. x = y + s /\ s \in Int /\ y \in Int BY <1>1, <1>2
  <2> HIDE DEF s, y, q
  <2>2. x + k = y + (s + k) BY <2>1
  <2> QED BY <2>2 DEF s, y
<1> HIDE DEF q, r
<1>4. (d * q + r) % d = r BY <1>1, <1>2, RemainderIs
<1> QED BY <1>3, <1>4 DEF r

\* It is 0 where the next multiple is.
LEMMA RemainderNext ==
  ASSUME NEW x \in Int, NEW d \in Nat \ {0}
  PROVE  (x + (d - (x % d))) % d = 0
<1> DEFINE q == x \div d
           s == x % d
           y == d * q
<1>1. q \in Int /\ s \in 0 .. (d - 1) /\ x = y + s BY Remainder
<1>2. y \in Int /\ d * (q + 1) = y + d BY <1>1
<1>3. (d * (q + 1) + 0) % d = 0
  <2>1. q + 1 \in Int /\ 0 \in 0 .. (d - 1) BY <1>1
  <2> QED BY <2>1, RemainderIs
<1> HIDE DEF q, s, y
<1>4. x + (d - s) = d * (q + 1) + 0 BY <1>1, <1>2
<1> QED BY <1>3, <1>4 DEF s

-----------------------------------------------------------------------------
(* When an item begins and ends.                                           *)

\* What is a number of seconds.
Seconds(t) == t \in Int /\ \E q \in Int : t = Second * q

\* Sums and differences of seconds are seconds.
LEMMA SecondsAdd ==
  ASSUME NEW t, NEW u, Seconds(t), Seconds(u)
  PROVE  Seconds(t + u) /\ Seconds(t - u)
<1>1. PICK p \in Int : t = Second * p BY DEF Seconds
<1>2. PICK q \in Int : u = Second * q BY DEF Seconds
<1>3. Second \in Int BY ElementsAssumption
<1>4. t \in Int /\ u \in Int BY DEF Seconds
<1>5. t + u = Second * (p + q) BY <1>1, <1>2, <1>3
<1>6. t - u = Second * (p - q) BY <1>1, <1>2, <1>3
<1> QED BY <1>1, <1>2, <1>4, <1>5, <1>6 DEF Seconds

\* So are products.
LEMMA SecondsTimes ==
  ASSUME NEW t, Seconds(t), NEW k \in Int
  PROVE  Seconds(t * k)
<1>1. PICK p \in Int : t = Second * p BY DEF Seconds
<1>2. Second \in Int BY ElementsAssumption
<1>3. t * k = Second * (p * k) BY <1>1, <1>2
<1>4. p * k \in Int /\ t * k \in Int BY <1>1, <1>2
<1> QED BY <1>3, <1>4 DEF Seconds

\* Two that differ differ by a second, which is more than the tolerance.
LEMMA SecondsApart ==
  ASSUME NEW t, NEW u, Seconds(t), Seconds(u), t < u
  PROVE  t + 2 <= u
<1>1. PICK p \in Int : t = Second * p BY DEF Seconds
<1>2. PICK q \in Int : u = Second * q BY DEF Seconds
<1>3. Second \in Int /\ Second >= 2 BY ElementsAssumption
<1>4. u - t = Second * (q - p) BY <1>1, <1>2, <1>3
<1>5. q - p >= 1
  <2> SUFFICES ASSUME q - p <= 0 PROVE FALSE OBVIOUS
  <2>1. Second * (q - p) <= 0 BY <1>3
  <2>2. t \in Int /\ u \in Int BY DEF Seconds
  <2> QED BY <1>4, <2>1, <2>2
<1>6. Second * (q - p) >= Second BY <1>3, <1>5
<1>7. t \in Int /\ u \in Int BY DEF Seconds
<1> QED BY <1>3, <1>4, <1>6, <1>7

\* An item has begun less than a day ago, will begin within a day, and ends
\* later than it begins; all of that in whole seconds.
LEMMA ItemTimes ==
  ASSUME NEW item \in Schedule!Item, NEW t \in Int
  PROVE  /\ Schedule!PrevHappening(item, t) \in 0 .. (Day - 1)
         /\ Schedule!NextFutureHappening(item, t) = Day - Schedule!PrevHappening(item, t)
         /\ Schedule!NextFutureHappening(item, t) \in 1 .. Day
         /\ Schedule!Length(item) \in Nat \ {0}
         /\ Schedule!Began(item, t) = t - Schedule!PrevHappening(item, t)
         /\ Schedule!Began(item, t) \in Int
         /\ Schedule!Ended(item, t) = Schedule!Began(item, t) + Schedule!Length(item)
         /\ Schedule!Ended(item, t) \in Int
         /\ Seconds(Schedule!Began(item, t)) /\ Seconds(Schedule!Ended(item, t))
         /\ Seconds(t + Schedule!NextFutureHappening(item, t))
<1> DEFINE k == item.at * Second
           x == t - k
           p == x % Day
<1>1. /\ item.at \in Nat /\ item.duration \in Nat /\ Second \in Nat \ {0} /\ Day \in Nat \ {0}
      /\ UndefinedDuration \in Nat \ {0}
  BY ElementsAssumption DEF Schedule!Item
<1>2. k \in Int BY <1>1
<1>3. x \in Int BY <1>2
<1>4. p \in 0 .. (Day - 1) /\ x = Day * (x \div Day) + p /\ (x \div Day) \in Int BY <1>1, <1>3, Remainder
<1>5. Schedule!PrevHappening(item, t) = p BY DEF Schedule!PrevHappening
<1>6. Seconds(Second) /\ Seconds(Day) /\ Seconds(UndefinedDuration)
  <2>1. Second = Second * 1 BY <1>1
  <2>2. ASSUME NEW d \in Nat \ {0}, d % Second = 0 PROVE Seconds(d)
    <3>1. d = Second * (d \div Second) + (d % Second) /\ (d \div Second) \in Int BY <1>1, Remainder
    <3> DEFINE q == d \div Second
    <3>2. d = Second * q + 0 /\ q \in Int BY <3>1, <2>2
    <3> HIDE DEF q
    <3>3. d = Second * q BY <3>2, <1>1
    <3> QED BY <3>2, <3>3 DEF Seconds
  <2>3. Day % Second = 0 /\ UndefinedDuration % Second = 0 BY ElementsAssumption
  <2>4. Seconds(Second) BY <1>1, <2>1 DEF Seconds
  <2> QED BY <1>1, <2>2, <2>3, <2>4
<1>7. Seconds(k)
  <2>1. k = Second * item.at BY <1>1
  <2> QED BY <1>1, <1>2, <2>1 DEF Seconds
<1>8. Seconds(t - p)
  <2> DEFINE q == x \div Day
  <2>1. Seconds(Day * q) BY <1>4, <1>6, SecondsTimes
  <2>2. Seconds(Day * q + k) BY <1>7, <2>1, SecondsAdd
  <2> DEFINE y == Day * q
  <2>3. y \in Int /\ x = y + p BY <1>4, <2>1 DEF Seconds
  <2> HIDE DEF y, q, p, k
  <2>4. t - p = y + k
    <3>1. t - k = y + p BY <2>3
    <3>2. p \in Int BY <1>4
    <3> QED BY <1>2, <2>3, <3>1, <3>2
  <2> QED BY <2>2, <2>4 DEF y
<1>9. Schedule!Length(item) \in Nat \ {0} /\ Seconds(Schedule!Length(item))
  <2>1. CASE item.duration > 0
    <3>1. Schedule!Length(item) = item.duration * Second BY <2>1 DEF Schedule!Length
    <3> DEFINE y == item.duration * Second
    <3>2. y = Second * item.duration /\ y \in Int /\ y > 0 BY <1>1, <2>1
    <3> HIDE DEF y
    <3>3. item.duration \in Int BY <1>1
    <3>4. \E q \in Int : y = Second * q BY <3>2, <3>3, Zenon
    <3>5. Seconds(y) BY <3>2, <3>4 DEF Seconds
    <3> QED BY <3>1, <3>2, <3>5 DEF y
  <2>2. CASE ~(item.duration > 0) BY <1>1, <1>6, <2>2 DEF Schedule!Length
  <2> QED BY <2>1, <2>2
<1> HIDE DEF p, x, k
<1>10. Schedule!Began(item, t) = t - p /\ p \in Int BY <1>4, <1>5 DEF Schedule!Began
<1>11. Schedule!NextFutureHappening(item, t) = Day - p BY <1>5 DEF Schedule!NextFutureHappening
<1>12. Seconds(t + (Day - p))
  <2>1. Seconds((t - p) + Day) BY <1>6, <1>8, SecondsAdd
  <2>2. (t - p) + Day = t + (Day - p) BY <1>1, <1>10
  <2> QED BY <2>1, <2>2
<1>13. Schedule!Ended(item, t) = (t - p) + Schedule!Length(item) BY <1>10 DEF Schedule!Ended
<1>14. Seconds(Schedule!Ended(item, t)) BY <1>8, <1>9, <1>13, SecondsAdd
<1>15. Schedule!Ended(item, t) \in Int BY <1>14 DEF Seconds
<1> QED BY <1>1, <1>4, <1>5, <1>8, <1>9, <1>10, <1>11, <1>12, <1>13, <1>14, <1>15

\* Until it begins again nothing of that changes.
LEMMA UntilNext ==
  ASSUME NEW item \in Schedule!Item, NEW t \in Int, NEW u \in Int, t <= u,
         u < t + Schedule!NextFutureHappening(item, t)
  PROVE  /\ Schedule!Began(item, u) = Schedule!Began(item, t)
         /\ Schedule!Ended(item, u) = Schedule!Ended(item, t)
         /\ u + Schedule!NextFutureHappening(item, u) = t + Schedule!NextFutureHappening(item, t)
<1> DEFINE k == item.at * Second
           x == t - k
           p == x % Day
           n == u - t
<1>1. item.at \in Nat /\ Second \in Nat /\ Day \in Nat \ {0} BY ElementsAssumption DEF Schedule!Item
<1>2. k \in Int /\ n \in Nat BY <1>1
<1>3. x \in Int /\ u - k = x + n BY <1>2
<1>4. p \in 0 .. (Day - 1) BY <1>1, <1>3, Remainder
<1>5. Schedule!PrevHappening(item, t) = p BY DEF Schedule!PrevHappening
<1>6. Schedule!PrevHappening(item, u) = (x + n) % Day BY <1>3 DEF Schedule!PrevHappening
<1> HIDE DEF x, k
<1>7. p + n < Day
  BY <1>1, <1>2, <1>4, <1>5 DEF Schedule!NextFutureHappening
<1>8. (x + n) % Day = p + n BY <1>1, <1>2, <1>3, <1>7, RemainderLater
<1> HIDE DEF p
<1>9. Schedule!Began(item, u) = Schedule!Began(item, t)
  BY <1>2, <1>4, <1>5, <1>6, <1>8 DEF Schedule!Began
<1> QED BY <1>1, <1>2, <1>4, <1>5, <1>6, <1>8, <1>9 DEF Schedule!Ended, Schedule!NextFutureHappening

\* Then it begins.
LEMMA AtNext ==
  ASSUME NEW item \in Schedule!Item, NEW t \in Int
  PROVE  LET f == t + Schedule!NextFutureHappening(item, t)
         IN  Schedule!Began(item, f) = f /\ Schedule!NextFutureHappening(item, f) = Day
<1> DEFINE k == item.at * Second
           x == t - k
           p == x % Day
           f == t + (Day - p)
<1>1. item.at \in Nat /\ Second \in Nat /\ Day \in Nat \ {0} BY ElementsAssumption DEF Schedule!Item
<1>2. k \in Int BY <1>1
<1>3. x \in Int BY <1>2
<1>4. p \in 0 .. (Day - 1) BY <1>1, <1>3, Remainder
<1>5. t + Schedule!NextFutureHappening(item, t) = f
  BY DEF Schedule!NextFutureHappening, Schedule!PrevHappening
<1>6. (x + (Day - p)) % Day = 0 BY <1>1, <1>3, RemainderNext
<1>7. f - k = x + (Day - p)
  <2> HIDE DEF p, k
  <2> QED BY <1>1, <1>2, <1>4
<1> HIDE DEF p, x
<1>8. f \in Int BY <1>1, <1>4
<1> HIDE DEF f
<1>9. Schedule!PrevHappening(item, f) = 0 BY <1>6, <1>7 DEF Schedule!PrevHappening
<1> QED BY <1>1, <1>5, <1>8, <1>9 DEF Schedule!Began, Schedule!NextFutureHappening

-----------------------------------------------------------------------------
(* The item that GetCurrentItemAtTime chooses.                             *)

\* A function that is defined for one number after the other.
IsCounted(N, a, G, f) ==
  /\ f = [i \in 0 .. N |-> f[i]]
  /\ f[0] = a /\ \A i \in 1 .. N : f[i] = G[<<i, f[i - 1]>>]

\* There is one.
LEMMA Counted ==
  ASSUME NEW N \in Nat, NEW R, NEW a \in R, NEW G \in [(1 .. N) \X R -> R]
  PROVE  \E f \in [0 .. N -> R] : IsCounted(N, a, G, f)
<1> DEFINE Good(k) == \E f \in [0 .. k -> R] : f[0] = a /\ \A i \in 1 .. k : f[i] = G[<<i, f[i - 1]>>]
           bad == {k \in 0 .. N : ~Good(k)}
<1>1. bad = {}
  <2> SUFFICES ASSUME bad # {} PROVE FALSE OBVIOUS
  <2>1. PICK k \in bad : \A j \in bad : k <= j
    <3>1. bad \in SUBSET Nat OBVIOUS
    <3> HIDE DEF bad
    <3> QED BY <3>1, LeastOf
  <2>2. k \in 0 .. N /\ ~Good(k) OBVIOUS
  <2>3. k # 0
    <3> DEFINE g == [i \in 0 .. 0 |-> a]
    <3>1. g \in [0 .. 0 -> R] /\ g[0] = a OBVIOUS
    <3>2. \A i \in 1 .. 0 : g[i] = G[<<i, g[i - 1]>>] OBVIOUS
    <3>3. Good(0) BY <3>1, <3>2
    <3> QED BY <2>2, <3>3
  <2>4. k - 1 \in 0 .. N /\ k - 1 \notin bad
    <3>1. k - 1 \in 0 .. N /\ ~(k <= k - 1) BY <2>2, <2>3
    <3> HIDE DEF bad
    <3> QED BY <2>1, <3>1
  <2>5. PICK f \in [0 .. (k - 1) -> R] :
          f[0] = a /\ \A i \in 1 .. (k - 1) : f[i] = G[<<i, f[i - 1]>>]
    BY <2>4
  <2> DEFINE g == [i \in 0 .. k |-> IF i = k THEN G[<<k, f[k - 1]>>] ELSE f[i]]
  <2>6. f[k - 1] \in R /\ k \in 1 .. N BY <2>2, <2>3, <2>5
  <2>7. G[<<k, f[k - 1]>>] \in R BY <2>6
  <2>8. g \in [0 .. k -> R] /\ g[0] = a BY <2>2, <2>3, <2>5, <2>7
  <2>9. \A i \in 1 .. k : g[i] = G[<<i, g[i - 1]>>]
    <3> TAKE i \in 1 .. k
    <3>1. i - 1 \in 0 .. (k - 1) /\ g[i - 1] = f[i - 1] BY <2>2
    <3>2. CASE i = k
      <4>1. g[k] = G[<<k, f[k - 1]>>] BY <2>2
      <4> HIDE DEF g
      <4> QED BY <3>1, <3>2, <4>1
    <3>3. CASE i # k
      <4>1. i \in 1 .. (k - 1) BY <2>2, <3>3
      <4>2. g[i] = f[i] BY <2>2, <3>3
      <4> QED BY <2>5, <3>1, <4>1, <4>2
    <3> QED BY <3>2, <3>3
  <2>10. Good(k) BY <2>8, <2>9
  <2> QED BY <2>2, <2>10
<1>2. Good(N)
  <2>1. N \in 0 .. N OBVIOUS
  <2> HIDE DEF Good
  <2> QED BY <1>1, <2>1
<1>3. PICK f \in [0 .. N -> R] : f[0] = a /\ \A i \in 1 .. N : f[i] = G[<<i, f[i - 1]>>]
  BY <1>2
<1> QED BY <1>3 DEF IsCounted

\* What it may choose.
Choice == [id : Int, begin : Int, switch : Int, end : Int]

\* What GetCurrentItemAtTime begins with.
Unchosen(t) == [id |-> Schedule!InvalidItemId, begin |-> t - Schedule!Far,
                switch |-> t - Schedule!Far, end |-> t + Schedule!Far]

\* What it makes of the best so far when it sees one more item.
Chosen(specs, t, id, best) ==
  IF specs[id] = Schedule!NoItem THEN best
  ELSE Schedule!Interrupted(Schedule!Better(best, specs[id], id, t), specs[id], t)

\* An item is better, or interrupted, or neither.
LEMMA ChosenCases ==
  ASSUME NEW specs \in Schedule!Specs, NEW t \in Int, NEW id \in 1 .. Items, NEW best \in Choice
  PROVE  LET new == Chosen(specs, t, id, best)
             item == specs[id]
             began == Schedule!Began(item, t)
             ended == Schedule!Ended(item, t)
             better == item # Schedule!NoItem /\ ended >= t /\ began > best.begin
             over == item # Schedule!NoItem /\ ended < t /\ began > best.begin
         IN  /\ new \in Choice
             /\ better => new.id = id /\ new.begin = began /\ new.end = ended
             /\ better => new.switch >= best.switch /\ new.switch >= began
                          /\ new.switch \in {best.switch, began}
             /\ ~better => new.id = best.id /\ new.begin = best.begin /\ new.end = best.end
             /\ over => new.switch >= best.switch /\ new.switch >= ended
                        /\ new.switch \in {best.switch, ended}
             /\ ~better /\ ~over => new = best
<1> DEFINE new == Chosen(specs, t, id, best)
           item == specs[id]
           began == Schedule!Began(item, t)
           ended == Schedule!Ended(item, t)
<1>1. CASE item = Schedule!NoItem BY <1>1 DEF Chosen
<1>2. CASE item # Schedule!NoItem
  <2>1. item \in Schedule!Item BY <1>2 DEF Schedule!Specs, Schedule!ItemIds
  <2>2. began \in Int /\ ended \in Int BY <2>1, ItemTimes
  <2>3. new = Schedule!Interrupted(Schedule!Better(best, item, id, t), item, t) BY <1>2 DEF Chosen
  <2>4. best \in [id : Int, begin : Int, switch : Int, end : Int] BY DEF Choice
  <2>5. CASE ended >= t /\ began > best.begin
    <3> DEFINE b == [id |-> id, begin |-> began, end |-> ended, switch |-> Schedule!Larger(best.switch, began)]
    <3>1. Schedule!Better(best, item, id, t) = b BY <2>5 DEF Schedule!Better
    <3>2. Schedule!Interrupted(b, item, t) = b BY <2>2 DEF Schedule!Interrupted
    <3>3. new = b BY <2>3, <3>1, <3>2
    <3> HIDE DEF new, item, began, ended
    <3>4. b.switch \in Int BY <2>2, <2>4 DEF Schedule!Larger
    <3>5. new \in Choice /\ new.id = id /\ new.begin = began /\ new.end = ended
          /\ new.switch = Schedule!Larger(best.switch, began)
      BY <2>2, <3>3, <3>4 DEF Choice
    <3>6. /\ new.switch >= best.switch /\ new.switch >= began /\ new.switch \in {best.switch, began}
          /\ ended >= t
      BY <2>2, <2>4, <2>5, <3>5 DEF Schedule!Larger
    <3> QED BY <1>2, <2>2, <2>4, <2>5, <3>5, <3>6 DEF new, item, began, ended
  <2>6. CASE ~(ended >= t /\ began > best.begin) /\ ended <= t /\ began > best.begin
    <3>1. Schedule!Better(best, item, id, t) = best BY <2>6 DEF Schedule!Better
    <3>2. new = [best EXCEPT !.switch = Schedule!Larger(@, ended)] BY <2>3, <2>6, <3>1 DEF Schedule!Interrupted
    <3> HIDE DEF new, item, began, ended
    <3>3. new = [best EXCEPT !.switch = Schedule!Larger(best.switch, ended)] BY <2>4, <3>2
    <3>4. Schedule!Larger(best.switch, ended) \in Int BY <2>2, <2>4 DEF Schedule!Larger
    <3>5. new \in Choice /\ new.id = best.id /\ new.begin = best.begin /\ new.end = best.end
          /\ new.switch = Schedule!Larger(best.switch, ended)
      BY <2>4, <3>3, <3>4 DEF Choice
    <3>6. /\ new.switch >= best.switch /\ new.switch >= ended /\ new.switch \in {best.switch, ended}
          /\ ended < t
      BY <2>2, <2>4, <2>6, <3>5 DEF Schedule!Larger
    <3> QED BY <1>2, <2>2, <2>4, <2>6, <3>5, <3>6 DEF new, item, began, ended
  <2>7. CASE ~(ended >= t /\ began > best.begin) /\ ~(ended <= t /\ began > best.begin)
    <3>1. Schedule!Better(best, item, id, t) = best BY <2>7 DEF Schedule!Better
    <3>2. new = best BY <2>3, <2>7, <3>1 DEF Schedule!Interrupted
    <3> HIDE DEF new, item, began, ended
    <3>3. ~(began > best.begin) BY <2>2, <2>4, <2>7
    <3> QED BY <1>2, <2>2, <2>4, <3>2, <3>3 DEF new, item, began, ended
  <2> QED BY <2>5, <2>6, <2>7
<1> QED BY <1>1, <1>2

\* The recursion of GetCurrentItemAtTime.
LEMMA CurrentIsLast ==
  ASSUME NEW specs \in Schedule!Specs, NEW t \in Int
  PROVE  \E f \in [0 .. Items -> Choice] :
           /\ f[0] = Unchosen(t)
           /\ \A i \in 1 .. Items : f[i] = Chosen(specs, t, i, f[i - 1])
           /\ Schedule!GetCurrentItemAtTime(specs, t) = f[Items]
<1> DEFINE G == [x \in (1 .. Items) \X Choice |-> Chosen(specs, t, x[1], x[2])]
           Is(f) == f = [i \in 0 .. Items |-> IF i = 0 THEN Unchosen(t) ELSE Chosen(specs, t, i, f[i - 1])]
           best == CHOOSE f : Is(f)
<1>1. Items \in Nat /\ Day \in Int BY ElementsAssumption
<1>2. Unchosen(t) \in Choice
  BY <1>1 DEF Unchosen, Choice, Schedule!Far, Schedule!InvalidItemId
<1>3. G \in [(1 .. Items) \X Choice -> Choice]
  <2>1. \A x \in (1 .. Items) \X Choice : Chosen(specs, t, x[1], x[2]) \in Choice BY ChosenCases
  <2> QED BY <2>1
<1> HIDE DEF G
<1>4. PICK f \in [0 .. Items -> Choice] : IsCounted(Items, Unchosen(t), G, f)
  <2> DEFINE a == Unchosen(t)
  <2> HIDE DEF a
  <2>1. \E f \in [0 .. Items -> Choice] : IsCounted(Items, a, G, f)
    BY <1>1, <1>2, <1>3, Counted DEF a
  <2> QED BY <2>1 DEF a
<1>5. Is(f)
  <2>1. \A i \in 1 .. Items : f[i - 1] \in Choice BY <1>1
  <2>2. \A i \in 1 .. Items : G[<<i, f[i - 1]>>] = Chosen(specs, t, i, f[i - 1]) BY <2>1 DEF G
  <2>3. \A i \in 0 .. Items : f[i] = IF i = 0 THEN Unchosen(t) ELSE Chosen(specs, t, i, f[i - 1])
    <3> TAKE i \in 0 .. Items
    <3>1. CASE i = 0 BY <1>4, <3>1 DEF IsCounted
    <3>2. CASE i # 0
      <4>1. i \in 1 .. Items BY <1>1, <3>2
      <4> QED BY <1>4, <2>2, <3>2, <4>1 DEF IsCounted
    <3> QED BY <3>1, <3>2
  <2> QED BY <1>4, <2>3
<1>6. Is(best) BY <1>5
<1>7. Schedule!GetCurrentItemAtTime(specs, t) = best[Items]
  BY DEF Schedule!GetCurrentItemAtTime, Unchosen, Chosen
<1> HIDE DEF best
<1>8. best[0] = Unchosen(t) /\ \A i \in 1 .. Items : best[i] = Chosen(specs, t, i, best[i - 1])
  BY <1>1, <1>6
<1>9. \A i \in 0 .. Items : best[i] \in Choice
  <2> DEFINE bad == {i \in 0 .. Items : best[i] \notin Choice}
  <2> SUFFICES ASSUME bad # {} PROVE FALSE OBVIOUS
  <2>1. PICK i \in bad : \A j \in bad : i <= j
    <3>1. bad \in SUBSET Nat OBVIOUS
    <3> HIDE DEF bad
    <3> QED BY <3>1, LeastOf
  <2>2. i # 0 BY <1>2, <1>8
  <2>3. i \in 1 .. Items /\ i - 1 \in 0 .. Items /\ best[i - 1] \in Choice BY <1>1, <2>1, <2>2
  <2>4. best[i] \in Choice BY <1>8, <2>3, ChosenCases
  <2> QED BY <2>4
<1>10. best \in [0 .. Items -> Choice]
  <2>1. best = [i \in 0 .. Items |-> best[i]] BY <1>6
  <2> QED BY <1>9, <2>1
<1> QED BY <1>7, <1>8, <1>10

\* An item that has begun and not ended.
Runs(specs, t, id) == specs[id] # Schedule!NoItem /\ Schedule!Ended(specs[id], t) >= t

\* Of the items up to i, the one that began last; of several, the first one.
IsLatest(specs, t, i, b) ==
  /\ b.id \in 1 .. i /\ Runs(specs, t, b.id)
  /\ b.begin = Schedule!Began(specs[b.id], t) /\ b.end = Schedule!Ended(specs[b.id], t)
  /\ \A j \in 1 .. i : Runs(specs, t, j) =>
       /\ Schedule!Began(specs[j], t) <= b.begin
       /\ j < b.id => Schedule!Began(specs[j], t) < b.begin

\* None of them runs.
IsNone(specs, t, i, b) ==
  /\ b.id = Schedule!InvalidItemId /\ b.begin = t - Schedule!Far /\ b.end = t + Schedule!Far
  /\ \A j \in 1 .. i : ~Runs(specs, t, j)

\* The switch is not earlier than its begin and the end of what it follows,
\* but not later than now.
HasSwitch(specs, t, i, b) ==
  /\ b.begin <= b.switch /\ b.switch <= t
  /\ Seconds(b.switch) \/ b.switch = t - Schedule!Far
  /\ \A j \in 1 .. i : specs[j] # Schedule!NoItem /\ ~Runs(specs, t, j) =>
       \/ Schedule!Ended(specs[j], t) <= b.switch
       \/ \E k \in 1 .. (j - 1) : /\ Runs(specs, t, k) /\ Schedule!Began(specs[k], t) <= b.switch
                                  /\ Schedule!Began(specs[j], t) <= Schedule!Began(specs[k], t)

\* What GetCurrentItemAtTime finds.
ChoiceOK(specs, t, i, b) ==
  /\ b \in Choice
  /\ IsLatest(specs, t, i, b) \/ IsNone(specs, t, i, b)
  /\ HasSwitch(specs, t, i, b)

\* What the times of the items of a list are.
LEMMA SpecTimes ==
  ASSUME NEW specs \in Schedule!Specs, NEW t \in Int, NEW id \in 1 .. Items, specs[id] # Schedule!NoItem
  PROVE  /\ specs[id] \in Schedule!Item
         /\ Schedule!Began(specs[id], t) \in Int /\ Schedule!Ended(specs[id], t) \in Int
         /\ Schedule!Began(specs[id], t) <= t /\ t - Schedule!Far < Schedule!Began(specs[id], t)
         /\ Schedule!Began(specs[id], t) < Schedule!Ended(specs[id], t)
         /\ Seconds(Schedule!Began(specs[id], t)) /\ Seconds(Schedule!Ended(specs[id], t))
<1>1. specs[id] \in Schedule!Item BY DEF Schedule!Specs, Schedule!ItemIds
<1>2. Day \in Nat \ {0} /\ Schedule!Far = 100 * Day BY ElementsAssumption DEF Schedule!Far
<1> DEFINE p == Schedule!PrevHappening(specs[id], t)
           b == Schedule!Began(specs[id], t)
           e == Schedule!Ended(specs[id], t)
           l == Schedule!Length(specs[id])
<1>3. /\ p \in 0 .. (Day - 1) /\ b = t - p /\ b \in Int /\ e = b + l /\ e \in Int
      /\ l \in Nat \ {0} /\ Seconds(b) /\ Seconds(e)
  BY <1>1, ItemTimes
<1> HIDE DEF p, b, e, l
<1>4. b <= t /\ t - Schedule!Far < b /\ b < e BY <1>2, <1>3
<1> QED BY <1>1, <1>3, <1>4 DEF b, e

\* One more item.
LEMMA ChoiceStep ==
  ASSUME NEW specs \in Schedule!Specs, NEW t \in Int, NEW i \in 1 .. Items, NEW b,
         ChoiceOK(specs, t, i - 1, b)
  PROVE  ChoiceOK(specs, t, i, Chosen(specs, t, i, b))
<1> DEFINE new == Chosen(specs, t, i, b)
           began == Schedule!Began(specs[i], t)
           ended == Schedule!Ended(specs[i], t)
           has == specs[i] # Schedule!NoItem
           better == has /\ ended >= t /\ began > b.begin
           over == has /\ ended < t /\ began > b.begin
<1>1. b \in Choice BY DEF ChoiceOK
<1>2. /\ new \in Choice
      /\ better => new.id = i /\ new.begin = began /\ new.end = ended
      /\ better => new.switch >= b.switch /\ new.switch >= began
                   /\ new.switch \in {b.switch, began}
      /\ ~better => new.id = b.id /\ new.begin = b.begin /\ new.end = b.end
      /\ over => new.switch >= b.switch /\ new.switch >= ended
                 /\ new.switch \in {b.switch, ended}
      /\ ~better /\ ~over => new = b
  BY <1>1, ChosenCases
<1>3. has => /\ began \in Int /\ ended \in Int /\ began <= t /\ t - Schedule!Far < began
             /\ Seconds(began) /\ Seconds(ended) /\ (Runs(specs, t, i) <=> ended >= t)
  BY SpecTimes DEF Runs
<1>4. ~has => ~Runs(specs, t, i) BY DEF Runs
<1>5. /\ b.id \in Int /\ b.begin \in Int /\ b.switch \in Int /\ b.end \in Int
      /\ new.id \in Int /\ new.begin \in Int /\ new.switch \in Int /\ new.end \in Int
  BY <1>1, <1>2 DEF Choice
<1>6. i \in Int /\ \A j \in 1 .. i : (j \in 1 .. (i - 1) \/ j = i) /\ j \in 1 .. Items
  BY ElementsAssumption
<1>7. \A j \in 1 .. (i - 1) : Runs(specs, t, j) => Schedule!Began(specs[j], t) \in Int
  <2> TAKE j \in 1 .. (i - 1)
  <2>1. j \in 1 .. Items BY ElementsAssumption
  <2> QED BY <2>1, SpecTimes DEF Runs
<1>8. b.switch <= new.switch BY <1>2, <1>5
<1> HIDE DEF new, better, over, began, ended, has
<1>9. IsLatest(specs, t, i, new) \/ IsNone(specs, t, i, new)
  <2>1. CASE better
    <3>1. Runs(specs, t, i) BY <1>3, <2>1 DEF better
    <3>2. ASSUME NEW j \in 1 .. (i - 1), Runs(specs, t, j) PROVE Schedule!Began(specs[j], t) < began
      <4>1. Schedule!Began(specs[j], t) <= b.begin BY <3>2 DEF ChoiceOK, IsLatest, IsNone
      <4>2. has BY <2>1 DEF better
      <4> QED BY <1>3, <1>5, <1>7, <2>1, <3>2, <4>1, <4>2 DEF better
    <3>3. began \in Int BY <1>3, <2>1 DEF better
    <3>4. new.id \in 1 .. i /\ new.id = i BY <1>2, <2>1
    <3>5. new.begin = began /\ new.end = ended BY <1>2, <2>1
    <3>6. ASSUME NEW j \in 1 .. i, Runs(specs, t, j)
          PROVE  Schedule!Began(specs[j], t) <= began /\ (j < i => Schedule!Began(specs[j], t) < began)
      <4>1. CASE j = i BY <3>3, <4>1 DEF began
      <4>2. CASE j # i
        <5>1. j \in 1 .. (i - 1) BY <1>6, <4>2
        <5>2. Schedule!Began(specs[j], t) < began BY <3>2, <3>6, <5>1
        <5> QED BY <1>7, <3>3, <3>6, <5>1, <5>2
      <4> QED BY <4>1, <4>2
    <3> QED BY <3>1, <3>4, <3>5, <3>6 DEF IsLatest, began, ended
  <2>2. CASE ~better
    <3>1. new.id = b.id /\ new.begin = b.begin /\ new.end = b.end BY <1>2, <2>2
    <3>2. Runs(specs, t, i) => began <= b.begin /\ began \in Int
      BY <1>3, <1>4, <1>5, <2>2 DEF better
    <3>3. CASE IsLatest(specs, t, i - 1, b)
      <4>1. b.id \in 1 .. i /\ i > b.id BY <3>3 DEF IsLatest
      <4>2. ASSUME NEW j \in 1 .. i, Runs(specs, t, j)
            PROVE  Schedule!Began(specs[j], t) <= b.begin /\ (j < b.id => Schedule!Began(specs[j], t) < b.begin)
        <5>1. CASE j = i BY <3>2, <4>1, <4>2, <5>1 DEF began
        <5>2. CASE j \in 1 .. (i - 1) BY <3>3, <4>2, <5>2 DEF IsLatest
        <5> QED BY <1>6, <5>1, <5>2
      <4> QED BY <3>1, <3>3, <4>1, <4>2 DEF IsLatest
    <3>4. CASE IsNone(specs, t, i - 1, b)
      <4>1. ~Runs(specs, t, i) BY <1>3, <1>4, <1>5, <3>2, <3>4 DEF IsNone
      <4> QED BY <1>6, <3>1, <3>4, <4>1 DEF IsNone
    <3> QED BY <3>3, <3>4 DEF ChoiceOK
  <2> QED BY <2>1, <2>2
<1>10. HasSwitch(specs, t, i, new)
  <2>1. /\ b.begin <= b.switch /\ b.switch <= t
        /\ Seconds(b.switch) \/ b.switch = t - Schedule!Far
    BY DEF ChoiceOK, HasSwitch
  <2>2. new.begin <= new.switch
    BY <1>2, <1>5, <1>8, <2>1
  <2>3. new.switch = b.switch \/ (has /\ ended <= t /\ new.switch = ended) \/ (has /\ new.switch = began)
    BY <1>2, <1>3 DEF better, over
  <2>4. new.switch <= t BY <1>3, <1>5, <2>1, <2>3
  <2>5. Seconds(new.switch) \/ new.switch = t - Schedule!Far BY <1>3, <2>1, <2>3
  <2>6. ASSUME NEW j \in 1 .. i, specs[j] # Schedule!NoItem, ~Runs(specs, t, j)
        PROVE  \/ Schedule!Ended(specs[j], t) <= new.switch
               \/ \E k \in 1 .. (j - 1) : /\ Runs(specs, t, k) /\ Schedule!Began(specs[k], t) <= new.switch
                                          /\ Schedule!Began(specs[j], t) <= Schedule!Began(specs[k], t)
    <3>1. CASE j \in 1 .. (i - 1)
      <4>1. CASE Schedule!Ended(specs[j], t) <= b.switch
        <5>1. Schedule!Ended(specs[j], t) \in Int BY <1>6, <2>6, SpecTimes
        <5> QED BY <1>5, <1>8, <4>1, <5>1
      <4>2. CASE \E k \in 1 .. (j - 1) : /\ Runs(specs, t, k) /\ Schedule!Began(specs[k], t) <= b.switch
                                          /\ Schedule!Began(specs[j], t) <= Schedule!Began(specs[k], t)
        <5>1. PICK k \in 1 .. (j - 1) : /\ Runs(specs, t, k) /\ Schedule!Began(specs[k], t) <= b.switch
                                        /\ Schedule!Began(specs[j], t) <= Schedule!Began(specs[k], t)
          BY <4>2
        <5>2. Schedule!Began(specs[k], t) \in Int BY <1>7, <3>1, <5>1
        <5>3. Schedule!Began(specs[k], t) <= new.switch BY <1>5, <1>8, <5>1, <5>2
        <5> QED BY <5>1, <5>3
      <4> QED BY <2>6, <3>1, <4>1, <4>2 DEF ChoiceOK, HasSwitch
    <3>2. CASE j = i
      <4>1. has BY <2>6, <3>2 DEF has
      <4>2. ended < t BY <1>3, <2>6, <3>2, <4>1 
      <4>3. CASE over BY <1>2, <3>2, <4>3 DEF ended
      <4>4. CASE ~over
        <5>1. began <= b.begin BY <1>3, <1>5, <4>1, <4>2, <4>4 DEF over
        <5>2. IsLatest(specs, t, i - 1, b) BY <1>3, <1>5, <4>1, <5>1 DEF ChoiceOK, IsNone
        <5>3. /\ b.id \in 1 .. (i - 1) /\ Runs(specs, t, b.id)
              /\ Schedule!Began(specs[b.id], t) = b.begin
          BY <5>2 DEF IsLatest
        <5>4. b.begin <= new.switch BY <1>5, <1>8, <2>1
        <5> QED BY <3>2, <5>1, <5>3, <5>4 DEF began
      <4> QED BY <4>3, <4>4
    <3> QED BY <1>6, <3>1, <3>2
  <2> QED BY <2>2, <2>4, <2>5, <2>6 DEF HasSwitch
<1> QED BY <1>2, <1>9, <1>10 DEF ChoiceOK, new

\* What GetCurrentItemAtTime returns.
LEMMA CurrentOK ==
  ASSUME NEW specs \in Schedule!Specs, NEW t \in Int
  PROVE  ChoiceOK(specs, t, Items, Schedule!GetCurrentItemAtTime(specs, t))
<1>1. PICK f \in [0 .. Items -> Choice] :
           /\ f[0] = Unchosen(t)
           /\ \A i \in 1 .. Items : f[i] = Chosen(specs, t, i, f[i - 1])
           /\ Schedule!GetCurrentItemAtTime(specs, t) = f[Items]
  BY CurrentIsLast
<1>2. Items \in Nat /\ Day \in Nat \ {0} BY ElementsAssumption
<1>3. ChoiceOK(specs, t, 0, f[0])
  <2>1. f[0] \in Choice BY <1>2
  <2>2. Schedule!Far \in Nat BY <1>2 DEF Schedule!Far
  <2>3. f[0].id = Schedule!InvalidItemId /\ f[0].begin = t - Schedule!Far
        /\ f[0].switch = t - Schedule!Far /\ f[0].end = t + Schedule!Far
    BY <1>1 DEF Unchosen
  <2>4. 1 .. 0 = {} OBVIOUS
  <2> QED BY <2>1, <2>2, <2>3, <2>4 DEF ChoiceOK, IsNone, HasSwitch
<1> DEFINE bad == {i \in 0 .. Items : ~ChoiceOK(specs, t, i, f[i])}
<1>4. bad = {}
  <2> SUFFICES ASSUME bad # {} PROVE FALSE OBVIOUS
  <2>1. PICK i \in bad : \A j \in bad : i <= j
    <3>1. bad \in SUBSET Nat OBVIOUS
    <3> HIDE DEF bad
    <3> QED BY <3>1, LeastOf
  <2>2. i # 0 BY <1>3
  <2>3. i \in 1 .. Items /\ i - 1 \in 0 .. Items /\ ChoiceOK(specs, t, i - 1, f[i - 1]) BY <1>2, <2>1, <2>2
  <2>4. ChoiceOK(specs, t, i, f[i]) BY <1>1, <2>3, ChoiceStep
  <2> QED BY <2>4
<1>5. Items \in 0 .. Items BY <1>2
<1> QED BY <1>1, <1>4, <1>5

-----------------------------------------------------------------------------
(* What is due, and until when.                                            *)

\* The next time at which an item begins, if there are any.
Future(specs, t, f) ==
  /\ f \in Int /\ t < f
  /\ \A j \in 1 .. Items : specs[j] # Schedule!NoItem =>
       f <= t + Schedule!NextFutureHappening(specs[j], t)
  /\ \/ f = t + Schedule!Far /\ \A j \in 1 .. Items : specs[j] = Schedule!NoItem
     \/ /\ f < t + Schedule!Far /\ Seconds(f)
        /\ \E j \in 1 .. Items : /\ specs[j] # Schedule!NoItem
                                 /\ f = t + Schedule!NextFutureHappening(specs[j], t)

\* What GetFutureBegin returns.
LEMMA FutureOK ==
  ASSUME NEW specs \in Schedule!Specs, NEW t \in Int
  PROVE  Future(specs, t, Schedule!GetFutureBegin(specs, t))
<1> DEFINE has == {i \in 1 .. Items : specs[i] # Schedule!NoItem}
           next(i) == Schedule!NextFutureHappening(specs[i], t)
           begins == {t + next(i) : i \in has}
           nexts == {next(i) : i \in has}
           far == t + Schedule!Far
           Least(b) == \A c \in begins : b <= c
           f == CHOOSE b \in begins \cup {far} : Least(b)
<1>1. Schedule!GetFutureBegin(specs, t) = f
  BY DEF Schedule!GetFutureBegin, Schedule!ItemIds
<1>2. Day \in Nat \ {0} /\ Schedule!Far = 100 * Day BY ElementsAssumption DEF Schedule!Far
<1>3. \A i \in has : next(i) \in 1 .. Day /\ Seconds(t + next(i))
  <2> TAKE i \in has
  <2>1. specs[i] \in Schedule!Item BY DEF Schedule!Specs, Schedule!ItemIds
  <2> QED BY <2>1, ItemTimes
<1> HIDE DEF next
<1>4. CASE has = {}
  <2>1. begins = {} BY <1>4
  <2>2. f = far
    <3> HIDE DEF begins, far
    <3>1. far \in begins \cup {far} /\ Least(far) BY <2>1
    <3> HIDE DEF Least
    <3>2. f \in begins \cup {far} BY <3>1
    <3> QED BY <2>1, <3>2
  <2>3. \A j \in 1 .. Items : specs[j] = Schedule!NoItem BY <1>4
  <2>4. far \in Int /\ t < far BY <1>2
  <2> HIDE DEF f
  <2> QED BY <1>1, <2>2, <2>3, <2>4 DEF Future
<1>5. CASE has # {}
  <2>1. \E i \in has : \A j \in has : next(i) <= next(j)
    <3>1. nexts \in SUBSET Nat BY <1>2, <1>3
    <3>2. nexts # {} BY <1>5
    <3>3. PICK n \in nexts : \A k \in nexts : n <= k
      <4> HIDE DEF nexts
      <4> QED BY <3>1, <3>2, LeastOf
    <3>4. PICK i \in has : n = next(i) OBVIOUS
    <3>5. \A j \in has : next(j) \in nexts OBVIOUS
    <3> QED BY <3>3, <3>4, <3>5
  <2>2. PICK i \in has : \A j \in has : next(i) <= next(j) BY <2>1
  <2>3. Least(t + next(i))
    <3> TAKE c \in begins
    <3>1. PICK j \in has : c = t + next(j) OBVIOUS
    <3> QED BY <1>2, <1>3, <2>2, <3>1
  <2>4. t + next(i) \in begins OBVIOUS
  <2>5. f \in begins \cup {far} /\ Least(f)
    <3> HIDE DEF Least, begins
    <3> QED BY <2>3, <2>4
  <2>6. f <= t + next(i) BY <2>4, <2>5
  <2> HIDE DEF f
  <2>7. f # far BY <1>2, <1>3, <2>6
  <2>8. PICK k \in has : f = t + next(k) BY <2>5, <2>7
  <2>9. f \in Int /\ t < f /\ f < far /\ Seconds(f) BY <1>2, <1>3, <2>8
  <2>10. \A j \in has : f <= t + next(j)
    <3> TAKE j \in has
    <3>1. t + next(j) \in begins OBVIOUS
    <3> QED BY <2>5, <3>1
  <2> QED BY <1>1, <2>8, <2>9, <2>10 DEF Future, next
<1> QED BY <1>4, <1>5

\* GetItemAtTime ends the current item when another one begins.
LEMMA ItemAtTime ==
  ASSUME NEW specs \in Schedule!Specs, NEW t \in Int
  PROVE  LET item == Schedule!GetItemAtTime(specs, t)
             best == Schedule!GetCurrentItemAtTime(specs, t)
             f == Schedule!GetFutureBegin(specs, t)
         IN  /\ item \in Choice /\ item.id = best.id /\ item.begin = best.begin
             /\ item.switch = best.switch
             /\ item.end = Schedule!Smaller(best.end, f)
             /\ t <= best.end /\ t <= item.end /\ item.end <= best.end /\ item.end <= f
<1> DEFINE item == Schedule!GetItemAtTime(specs, t)
           best == Schedule!GetCurrentItemAtTime(specs, t)
           f == Schedule!GetFutureBegin(specs, t)
<1>1. ChoiceOK(specs, t, Items, best) BY CurrentOK
<1>2. Future(specs, t, f) BY FutureOK
<1>3. item = [best EXCEPT !.end = Schedule!Smaller(@, f)] BY DEF Schedule!GetItemAtTime
<1> HIDE DEF item, best, f
<1>4. best \in [id : Int, begin : Int, switch : Int, end : Int] BY <1>1 DEF ChoiceOK, Choice
<1>5. f \in Int /\ t < f BY <1>2 DEF Future
<1>6. Schedule!Smaller(best.end, f) \in Int /\ Schedule!Smaller(best.end, f) <= best.end
      /\ Schedule!Smaller(best.end, f) <= f /\ Schedule!Smaller(best.end, f) \in {best.end, f}
  BY <1>4, <1>5 DEF Schedule!Smaller
<1>7. t <= best.end
  <2>1. Schedule!Far \in Nat BY ElementsAssumption DEF Schedule!Far
  <2>2. CASE IsLatest(specs, t, Items, best) BY <2>2 DEF IsLatest, Runs
  <2>3. CASE IsNone(specs, t, Items, best) BY <2>1, <2>3 DEF IsNone
  <2> QED BY <1>1, <2>2, <2>3 DEF ChoiceOK
<1>8. item.end = Schedule!Smaller(best.end, f) /\ item.id = best.id /\ item.begin = best.begin
      /\ item.switch = best.switch /\ item \in Choice
  BY <1>3, <1>4, <1>6 DEF Choice
<1>9. t <= item.end BY <1>4, <1>5, <1>6, <1>7, <1>8
<1> QED BY <1>6, <1>7, <1>8, <1>9 DEF item, best, f

\* The item that is due, of any list.
DueOf(specs, t) ==
  LET runs == {id \in 1 .. Items : Runs(specs, t, id)}
      last == {id \in runs : \A other \in runs :
                 Schedule!Began(specs[other], t) <= Schedule!Began(specs[id], t)}
  IN  IF last = {} THEN Schedule!InvalidItemId
      ELSE CHOOSE id \in last : \A other \in last : id <= other

\* It is that of the policy's list.
LEMMA DueIsOf == ASSUME NEW t PROVE Schedule!Due(t) = DueOf(policy.specs, t)
BY DEF Schedule!Due, DueOf, Runs, Schedule!ItemIds

\* What is due is the latest item.
LEMMA LatestIsDue ==
  ASSUME NEW specs \in Schedule!Specs, NEW t \in Int, NEW b, IsLatest(specs, t, Items, b)
  PROVE  DueOf(specs, t) = b.id
<1> DEFINE runs == {id \in 1 .. Items : Runs(specs, t, id)}
           began(id) == Schedule!Began(specs[id], t)
           last == {id \in runs : \A other \in runs : began(other) <= began(id)}
           First1(id) == \A other \in last : id <= other
           chosen == CHOOSE id \in last : First1(id)
<1>1. b.id \in runs /\ b.begin = began(b.id) /\ \A j \in runs : began(j) \in Int
  BY SpecTimes DEF IsLatest, Runs
<1>2. \A j \in runs : began(j) <= b.begin /\ (j < b.id => began(j) < b.begin) BY DEF IsLatest
<1> HIDE DEF began
<1>3. b.id \in last BY <1>1, <1>2
<1>4. First1(b.id)
  <2> TAKE j \in last
  <2>1. j \in runs /\ began(b.id) <= began(j) BY <1>1
  <2> QED BY <1>1, <1>2, <2>1
<1>5. chosen \in last /\ First1(chosen)
  <2> HIDE DEF last, First1
  <2> QED BY <1>3, <1>4
<1> HIDE DEF chosen
<1>6. chosen <= b.id /\ b.id <= chosen BY <1>3, <1>4, <1>5
<1>7. chosen = b.id BY <1>1, <1>5, <1>6
<1>8. DueOf(specs, t) = chosen BY <1>3 DEF DueOf, chosen, began
<1> QED BY <1>7, <1>8

\* If there is none nothing is due.
LEMMA NoneIsDue ==
  ASSUME NEW specs, NEW t, \A j \in 1 .. Items : ~Runs(specs, t, j)
  PROVE  DueOf(specs, t) = Schedule!InvalidItemId
BY DEF DueOf

\* GetItemAtTime returns what is due.
LEMMA ItemIsDue ==
  ASSUME NEW specs \in Schedule!Specs, NEW t \in Int
  PROVE  Schedule!GetItemAtTime(specs, t).id = DueOf(specs, t)
<1> DEFINE best == Schedule!GetCurrentItemAtTime(specs, t)
<1>1. ChoiceOK(specs, t, Items, best) BY CurrentOK
<1>2. Schedule!GetItemAtTime(specs, t).id = best.id BY ItemAtTime
<1> HIDE DEF best
<1>3. CASE IsLatest(specs, t, Items, best) BY <1>2, <1>3, LatestIsDue
<1>4. CASE IsNone(specs, t, Items, best) BY <1>2, <1>4, NoneIsDue DEF IsNone
<1> QED BY <1>1, <1>3, <1>4 DEF ChoiceOK

\* Until an item begins nothing changes.
LEMMA TimesStay ==
  ASSUME NEW specs \in Schedule!Specs, NEW t \in Int, NEW u \in Int, t <= u,
         u < Schedule!GetFutureBegin(specs, t), NEW j \in 1 .. Items, specs[j] # Schedule!NoItem
  PROVE  /\ Schedule!Began(specs[j], u) = Schedule!Began(specs[j], t)
         /\ Schedule!Ended(specs[j], u) = Schedule!Ended(specs[j], t)
         /\ u + Schedule!NextFutureHappening(specs[j], u) = t + Schedule!NextFutureHappening(specs[j], t)
         /\ Runs(specs, u, j) => Runs(specs, t, j)
<1> DEFINE f == Schedule!GetFutureBegin(specs, t)
           n == Schedule!NextFutureHappening(specs[j], t)
<1>1. Future(specs, t, f) BY FutureOK
<1>2. specs[j] \in Schedule!Item /\ Schedule!Ended(specs[j], t) \in Int BY SpecTimes
<1>3. n \in 1 .. Day /\ Day \in Nat BY <1>2, ItemTimes, ElementsAssumption
<1>4. f \in Int /\ f <= t + n BY <1>1 DEF Future
<1>5. u < t + n
  <2> HIDE DEF f, n
  <2>1. u < f BY DEF f
  <2> QED BY <1>3, <1>4, <2>1
<1>6. /\ Schedule!Began(specs[j], u) = Schedule!Began(specs[j], t)
      /\ Schedule!Ended(specs[j], u) = Schedule!Ended(specs[j], t)
      /\ u + Schedule!NextFutureHappening(specs[j], u) = t + n
  BY <1>2, <1>5, UntilNext
<1>7. Runs(specs, u, j) => Runs(specs, t, j)
  BY <1>2, <1>6 DEF Runs
<1> QED BY <1>6, <1>7

\* The latest item stays the latest one until it ends or another one begins.
LEMMA LatestStays ==
  ASSUME NEW specs \in Schedule!Specs, NEW t \in Int, NEW u \in Int, t <= u,
         u < Schedule!GetFutureBegin(specs, t), NEW b, IsLatest(specs, t, Items, b), u <= b.end
  PROVE  IsLatest(specs, u, Items, b)
<1>1. /\ b.id \in 1 .. Items /\ Runs(specs, t, b.id)
      /\ b.begin = Schedule!Began(specs[b.id], t) /\ b.end = Schedule!Ended(specs[b.id], t)
  BY DEF IsLatest
<1>2. specs[b.id] # Schedule!NoItem BY <1>1 DEF Runs
<1>3. b.begin = Schedule!Began(specs[b.id], u) /\ b.end = Schedule!Ended(specs[b.id], u)
  BY <1>1, <1>2, TimesStay
<1>4. Runs(specs, u, b.id) BY <1>2, <1>3 DEF Runs
<1>5. ASSUME NEW j \in 1 .. Items, Runs(specs, u, j)
      PROVE  /\ Schedule!Began(specs[j], u) <= b.begin
             /\ j < b.id => Schedule!Began(specs[j], u) < b.begin
  <2>1. specs[j] # Schedule!NoItem BY <1>5 DEF Runs
  <2>2. Runs(specs, t, j) /\ Schedule!Began(specs[j], u) = Schedule!Began(specs[j], t)
    BY <1>5, <2>1, TimesStay
  <2> QED BY <2>2 DEF IsLatest
<1> QED BY <1>1, <1>3, <1>4, <1>5 DEF IsLatest

\* If there is none there is none until an item begins.
LEMMA NoneStays ==
  ASSUME NEW specs \in Schedule!Specs, NEW t \in Int, NEW u \in Int, t <= u,
         u < Schedule!GetFutureBegin(specs, t), \A j \in 1 .. Items : ~Runs(specs, t, j)
  PROVE  \A j \in 1 .. Items : ~Runs(specs, u, j)
BY TimesStay DEF Runs

\* So what is due stays due until the end that GetItemAtTime finds.
LEMMA DueStays ==
  ASSUME NEW specs \in Schedule!Specs, NEW t \in Int, NEW u \in Int, t <= u,
         u < Schedule!GetItemAtTime(specs, t).end \/ u = t
  PROVE  DueOf(specs, u) = DueOf(specs, t)
<1> DEFINE best == Schedule!GetCurrentItemAtTime(specs, t)
           f == Schedule!GetFutureBegin(specs, t)
           item == Schedule!GetItemAtTime(specs, t)
<1> SUFFICES ASSUME u < item.end PROVE DueOf(specs, u) = DueOf(specs, t) OBVIOUS
<1>1. ChoiceOK(specs, t, Items, best) BY CurrentOK
<1>2. item.end <= best.end /\ item.end <= f /\ item.end \in Int BY ItemAtTime DEF Choice
<1>3. Future(specs, t, f) BY FutureOK
<1>4. f \in Int /\ best.end \in Int BY <1>1, <1>3 DEF Future, ChoiceOK, Choice
<1>5. u < f /\ u <= best.end
  <2> HIDE DEF item, best, f
  <2> QED BY <1>2, <1>4
<1>6. CASE IsLatest(specs, t, Items, best)
  <2>1. IsLatest(specs, u, Items, best) BY <1>5, <1>6, LatestStays
  <2> HIDE DEF best
  <2> QED BY <1>6, <2>1, LatestIsDue
<1>7. CASE IsNone(specs, t, Items, best)
  <2>1. \A j \in 1 .. Items : ~Runs(specs, u, j) BY <1>5, <1>7, NoneStays DEF IsNone
  <2> QED BY <1>7, <2>1, NoneIsDue DEF IsNone
<1> QED BY <1>1, <1>6, <1>7 DEF ChoiceOK

\* The end does not come nearer by waiting.
LEMMA EndLater ==
  ASSUME NEW specs \in Schedule!Specs, NEW t \in Int
  PROVE  Schedule!GetItemAtTime(specs, t).end <= Schedule!GetItemAtTime(specs, t + 1).end
<1> DEFINE u == t + 1
           best == Schedule!GetCurrentItemAtTime(specs, t)
           later == Schedule!GetCurrentItemAtTime(specs, u)
           f == Schedule!GetFutureBegin(specs, t)
           g == Schedule!GetFutureBegin(specs, u)
           e == Schedule!GetItemAtTime(specs, t).end
           e2 == Schedule!GetItemAtTime(specs, u).end
<1>0. u \in Int OBVIOUS
<1>1. ChoiceOK(specs, t, Items, best) /\ ChoiceOK(specs, u, Items, later) BY <1>0, CurrentOK
<1>2. Future(specs, t, f) /\ Future(specs, u, g) BY <1>0, FutureOK
<1>3. e <= best.end /\ e <= f /\ e \in Int BY ItemAtTime DEF Choice
<1>4. e2 = Schedule!Smaller(later.end, g) /\ u <= e2 /\ e2 \in Int BY <1>0, ItemAtTime DEF Choice
<1>5. f \in Int /\ g \in Int /\ best.end \in Int /\ later.end \in Int
  BY <1>1, <1>2 DEF Future, ChoiceOK, Choice
<1>6. Schedule!Far \in Nat BY ElementsAssumption DEF Schedule!Far
<1>7. CASE e <= u
  <2> HIDE DEF e, e2, u
  <2> QED BY <1>0, <1>3, <1>4, <1>7 DEF e, e2, u
<1>8. CASE u < e
  <2>1. u < f /\ u <= best.end /\ t <= u
    <3> HIDE DEF e, f, best
    <3> QED BY <1>3, <1>5, <1>8
  <2>2. e <= g
    <3>1. CASE \A j \in 1 .. Items : specs[j] = Schedule!NoItem
      <4>1. f = t + Schedule!Far /\ g = u + Schedule!Far BY <1>2, <3>1 DEF Future
      <4> HIDE DEF f, g, e
      <4> QED BY <1>3, <1>6, <4>1
    <3>2. ASSUME NEW j \in 1 .. Items, specs[j] # Schedule!NoItem,
                 g = u + Schedule!NextFutureHappening(specs[j], u)
          PROVE  e <= g
      <4>1. g = t + Schedule!NextFutureHappening(specs[j], t)
        <5>1. u + Schedule!NextFutureHappening(specs[j], u) = t + Schedule!NextFutureHappening(specs[j], t)
          BY <1>0, <2>1, <3>2, TimesStay
        <5> QED BY <3>2, <5>1
      <4>2. f <= g BY <1>2, <3>2, <4>1 DEF Future
      <4> HIDE DEF f, g, e
      <4> QED BY <1>3, <1>5, <4>2
    <3>3. \/ \A j \in 1 .. Items : specs[j] = Schedule!NoItem
          \/ \E j \in 1 .. Items : /\ specs[j] # Schedule!NoItem
                                   /\ g = u + Schedule!NextFutureHappening(specs[j], u)
      <4>1. Future(specs, u, g) BY <1>2
      <4> HIDE DEF g, u
      <4> QED BY <4>1 DEF Future
    <3> QED BY <3>1, <3>2, <3>3
  <2>3. e <= later.end
    <3>1. CASE IsLatest(specs, t, Items, best)
      <4>1. IsLatest(specs, u, Items, best) BY <1>0, <2>1, <3>1, LatestStays
      <4>2. ~IsNone(specs, u, Items, later) BY <4>1 DEF IsNone, IsLatest
      <4>3. IsLatest(specs, u, Items, later) BY <1>1, <4>2 DEF ChoiceOK
      <4> HIDE DEF best, later, u, e
      <4>4. later.id = best.id BY <1>0, <4>1, <4>3, LatestIsDue
      <4>5. later.end = best.end BY <4>1, <4>3, <4>4 DEF IsLatest
      <4> QED BY <1>3, <4>5
    <3>2. CASE IsNone(specs, t, Items, best)
      <4>1. \A j \in 1 .. Items : ~Runs(specs, u, j) BY <1>0, <2>1, <3>2, NoneStays DEF IsNone
      <4>2. IsNone(specs, u, Items, later) BY <1>1, <4>1 DEF ChoiceOK, IsLatest
      <4>3. best.end = t + Schedule!Far /\ later.end = u + Schedule!Far BY <3>2, <4>2 DEF IsNone
      <4> HIDE DEF best, later, e
      <4> QED BY <1>3, <1>6, <4>3
    <3> QED BY <1>1, <3>1, <3>2 DEF ChoiceOK
  <2> HIDE DEF e, e2, g, later, u
  <2>4. e <= e2 BY <1>4, <2>2, <2>3 DEF Schedule!Smaller
  <2> QED BY <2>4 DEF e, e2, u
<1> HIDE DEF e
<1> QED BY <1>3, <1>7, <1>8 DEF e

\* A day is longer than the tolerance.
LEMMA DayIsLong == Day \in Nat /\ Day >= 2 /\ Seconds(Day) /\ Schedule!Far = 100 * Day
<1>1. Day \in Nat \ {0} /\ Second \in Nat \ {0} /\ Day % Second = 0 BY ElementsAssumption
<1>2. Day = Second * (Day \div Second) + (Day % Second) /\ (Day \div Second) \in Int BY <1>1, Remainder
<1> DEFINE q == Day \div Second
<1>3. Day = Second * q + 0 /\ q \in Int BY <1>1, <1>2
<1> HIDE DEF q
<1>4. Day = Second * q BY <1>1, <1>3
<1>5. Seconds(Day) BY <1>1, <1>3, <1>4 DEF Seconds
<1>6. Seconds(0)
  <2>1. 0 = Second * 0 BY <1>1
  <2> QED BY <2>1 DEF Seconds
<1>7. 0 + 2 <= Day BY <1>1, <1>5, <1>6, SecondsApart
<1> QED BY <1>1, <1>5, <1>7 DEF Schedule!Far

\* If there are items the end is one of whole seconds: that of an item, before
\* another one begins, or the moment when that happens.
LEMMA EndCases ==
  ASSUME NEW specs \in Schedule!Specs, NEW t \in Int,
         \E j \in 1 .. Items : specs[j] # Schedule!NoItem
  PROVE  LET item == Schedule!GetItemAtTime(specs, t)
             best == Schedule!GetCurrentItemAtTime(specs, t)
             f == Schedule!GetFutureBegin(specs, t)
         IN  /\ Seconds(item.end) /\ item.end < t + Schedule!Far
             /\ \/ item.end = f
                \/ IsLatest(specs, t, Items, best) /\ item.end = best.end /\ item.end + 2 <= f
<1> DEFINE item == Schedule!GetItemAtTime(specs, t)
           best == Schedule!GetCurrentItemAtTime(specs, t)
           f == Schedule!GetFutureBegin(specs, t)
           far == t + Schedule!Far
<1>1. ChoiceOK(specs, t, Items, best) BY CurrentOK
<1>2. f \in Int /\ f < far /\ Seconds(f)
  <2>1. Future(specs, t, f) BY FutureOK
  <2> HIDE DEF f
  <2> QED BY <2>1 DEF Future
<1>3. item.end = Schedule!Smaller(best.end, f) BY ItemAtTime
<1>4. best.end \in Int BY <1>1 DEF ChoiceOK, Choice
<1>5. far \in Int BY DayIsLong
<1>6. IsNone(specs, t, Items, best) => best.end = far BY DEF IsNone
<1>7. IsLatest(specs, t, Items, best) => Seconds(best.end)
  BY SpecTimes DEF IsLatest, Runs
<1>8. IsLatest(specs, t, Items, best) \/ IsNone(specs, t, Items, best) BY <1>1 DEF ChoiceOK
<1> HIDE DEF item, best, f, far
<1>9. CASE best.end < f
  <2>1. item.end = best.end /\ IsLatest(specs, t, Items, best)
    BY <1>2, <1>3, <1>4, <1>5, <1>6, <1>8, <1>9 DEF Schedule!Smaller
  <2>2. best.end + 2 <= f BY <1>2, <1>7, <1>9, <2>1, SecondsApart
  <2>3. item.end < far BY <1>2, <1>4, <1>5, <1>9, <2>1
  <2> QED BY <1>7, <2>1, <2>2, <2>3 DEF item, best, f, far
<1>10. CASE ~(best.end < f)
  <2>1. item.end = f BY <1>2, <1>3, <1>4, <1>10 DEF Schedule!Smaller
  <2> QED BY <1>2, <2>1 DEF item, best, f, far
<1> QED BY <1>9, <1>10

\* The switch for which the alarm is set is not before what is asked about,
\* and not after the end of what is due then, but for the tolerance.
LEMMA NextSwitch ==
  ASSUME NEW specs \in Schedule!Specs, NEW t \in Int
  PROVE  LET switch == Schedule!GetNextItem(specs, t).switch
             end == Schedule!GetItemAtTime(specs, t).end
         IN  switch \in Int /\ t <= switch /\ switch <= end
<1> DEFINE item == Schedule!GetItemAtTime(specs, t)
           end == item.end
           best == Schedule!GetCurrentItemAtTime(specs, t)
           f == Schedule!GetFutureBegin(specs, t)
           at == end + 1
           next == Schedule!GetItemAtTime(specs, at)
           found == Schedule!GetCurrentItemAtTime(specs, at)
           n == Schedule!GetNextItem(specs, t)
<1>1. n = IF next.id = Schedule!InvalidItemId
          THEN [next EXCEPT !.begin = at - 1, !.switch = at - 1] ELSE next
  BY DEF Schedule!GetNextItem, Schedule!Error
<1>2. end \in Int /\ t <= end BY ItemAtTime DEF Choice
<1>3. at \in Int BY <1>2
<1>4. next \in Choice /\ next.id = found.id /\ next.switch = found.switch BY <1>3, ItemAtTime
<1>5. ChoiceOK(specs, at, Items, found) BY <1>3, CurrentOK
<1>6. CASE next.id = Schedule!InvalidItemId
  <2>1. n.switch = at - 1
    <3> HIDE DEF n, next, at
    <3> QED BY <1>1, <1>4, <1>6 DEF Choice
  <2> HIDE DEF end, n
  <2> QED BY <1>2, <2>1 DEF end, n
<1>7. CASE next.id # Schedule!InvalidItemId
  <2>1. n.switch = found.switch BY <1>1, <1>4, <1>7
  <2>2. IsLatest(specs, at, Items, found) BY <1>4, <1>5, <1>7 DEF ChoiceOK, IsNone
  <2>3. HasSwitch(specs, at, Items, found) BY <1>5 DEF ChoiceOK
  <2>4. \E j \in 1 .. Items : specs[j] # Schedule!NoItem BY <2>2 DEF IsLatest, Runs
  <2>5. /\ Seconds(end)
        /\ \/ end = f
           \/ IsLatest(specs, t, Items, best) /\ end = best.end /\ end + 2 <= f
    BY <2>4, EndCases
  <2>6. found.id \in 1 .. Items /\ specs[found.id] # Schedule!NoItem /\ found.begin = Schedule!Began(specs[found.id], at)
    BY <2>2 DEF IsLatest, Runs
  <2>7. at - Schedule!Far < found.begin /\ found.begin \in Int BY <1>3, <2>6, SpecTimes
  <2>8. found.switch \in Int BY <1>5 DEF ChoiceOK, Choice
  <2>9. found.begin <= found.switch /\ found.switch <= at
        /\ (Seconds(found.switch) \/ found.switch = at - Schedule!Far)
    BY <2>3 DEF HasSwitch
  <2>10. Seconds(found.switch)
    <3>1. Schedule!Far \in Int BY DayIsLong
    <3> HIDE DEF found, at
    <3> QED BY <1>3, <2>7, <2>8, <2>9, <3>1
  <2>11. found.switch <= end
    <3> HIDE DEF found, end
    <3> SUFFICES ASSUME end < found.switch PROVE FALSE BY <1>2, <2>8
    <3>1. end + 2 <= found.switch BY <2>5, <2>10, SecondsApart
    <3> QED BY <1>2, <2>8, <2>9, <3>1
  <2>12. t <= found.switch
    <3>1. CASE end = f
      <4>1. PICK j \in 1 .. Items : /\ specs[j] # Schedule!NoItem
                                    /\ f = t + Schedule!NextFutureHappening(specs[j], t)
        <5>1. Future(specs, t, f) BY FutureOK
        <5> HIDE DEF f
        <5> QED BY <2>4, <5>1 DEF Future
      <4>2. specs[j] \in Schedule!Item BY <4>1, SpecTimes
      <4>3. Schedule!Began(specs[j], f) = f /\ Schedule!NextFutureHappening(specs[j], f) = Day
        BY <4>1, <4>2, AtNext
      <4>4. f \in Int /\ f <= at /\ at < f + Day
        <5> HIDE DEF end, f
        <5> QED BY <1>2, <3>1, DayIsLong
      <4>5. Schedule!Began(specs[j], at) = f
        <5>1. at < f + Schedule!NextFutureHappening(specs[j], f) BY <4>3, <4>4
        <5> QED BY <1>3, <4>2, <4>3, <4>4, <5>1, UntilNext
      <4>6. Runs(specs, at, j)
        <5>1. Schedule!Began(specs[j], at) < Schedule!Ended(specs[j], at)
              /\ Schedule!Ended(specs[j], at) \in Int
          BY <1>3, <4>1, SpecTimes
        <5>2. f < Schedule!Ended(specs[j], at) BY <4>5, <5>1
        <5>3. at <= Schedule!Ended(specs[j], at)
          <6> HIDE DEF end, f
          <6> QED BY <1>2, <3>1, <5>1, <5>2
        <5> QED BY <4>1, <5>1, <5>3 DEF Runs
      <4>7. f <= found.begin BY <2>2, <4>5, <4>6 DEF IsLatest
      <4> HIDE DEF f, end, found
      <4> QED BY <1>2, <2>7, <2>8, <2>9, <3>1, <4>7
    <3>2. CASE IsLatest(specs, t, Items, best) /\ end = best.end /\ end + 2 <= f
      <4> DEFINE c == best.id
      <4>1. c \in 1 .. Items /\ Runs(specs, t, c) /\ best.end = Schedule!Ended(specs[c], t)
            /\ best.begin = Schedule!Began(specs[c], t)
        BY <3>2 DEF IsLatest
      <4>2. specs[c] # Schedule!NoItem BY <4>1 DEF Runs
      <4>3. t <= at /\ at < f
        <5>1. Future(specs, t, f) BY FutureOK
        <5>2. f \in Int BY <5>1 DEF Future
        <5> HIDE DEF end, f
        <5> QED BY <1>2, <3>2, <5>2
      <4>4. Schedule!Ended(specs[c], at) = end BY <1>3, <3>2, <4>1, <4>2, <4>3, TimesStay
      <4>5. ~Runs(specs, at, c)
        <5> HIDE DEF end, c
        <5> QED BY <1>2, <4>4 DEF Runs
      <4>6. \/ Schedule!Ended(specs[c], at) <= found.switch
            \/ \E k \in 1 .. (c - 1) : /\ Runs(specs, at, k) /\ Schedule!Began(specs[k], at) <= found.switch
                                       /\ Schedule!Began(specs[c], at) <= Schedule!Began(specs[k], at)
        BY <2>3, <4>1, <4>2, <4>5 DEF HasSwitch
      <4>7. CASE Schedule!Ended(specs[c], at) <= found.switch
        <5>1. end <= found.switch BY <4>4, <4>7
        <5> HIDE DEF end, found
        <5> QED BY <1>2, <2>8, <5>1
      <4>8. ASSUME NEW k \in 1 .. (c - 1), Runs(specs, at, k),
                   Schedule!Began(specs[c], at) <= Schedule!Began(specs[k], at)
            PROVE  FALSE
        <5>1. k \in 1 .. Items /\ k < c /\ specs[k] # Schedule!NoItem
          <6> HIDE DEF c
          <6> QED BY <4>1, <4>8, ElementsAssumption DEF Runs
        <5>2. Runs(specs, t, k) /\ Schedule!Began(specs[k], at) = Schedule!Began(specs[k], t)
          BY <1>3, <4>3, <4>8, <5>1, TimesStay
        <5>3. Schedule!Began(specs[c], at) = Schedule!Began(specs[c], t)
          BY <1>3, <4>1, <4>2, <4>3, TimesStay
        <5>4. Schedule!Began(specs[k], t) < best.begin BY <3>2, <5>1, <5>2 DEF IsLatest
        <5>5. Schedule!Began(specs[k], t) \in Int /\ best.begin \in Int
          BY <4>1, <4>2, <5>1, SpecTimes
        <5> HIDE DEF c, best
        <5> QED BY <4>1, <4>8, <5>2, <5>3, <5>4, <5>5
      <4> QED BY <4>6, <4>7, <4>8
    <3> QED BY <2>5, <3>1, <3>2
  <2> QED BY <2>1, <2>8, <2>11, <2>12
<1> QED BY <1>6, <1>7

-----------------------------------------------------------------------------
(* The operations of the policy.                                           *)

\* The states of a policy, its player and its state keeper.
ScheduleState == [policy : Schedule!Policy, player : Schedule!Media, keeper : Schedule!Keeper,
                  failed : SUBSET {"now > current_begin_ts_"}]

\* An operation leaves the play list and the default media as they were.
SameList(st, new) ==
  /\ new \in ScheduleState /\ new.failed = st.failed /\ new.policy.up = st.policy.up
  /\ new.policy.specs = st.policy.specs /\ new.policy.default = st.policy.default

\* What it saved, if it did.
SavesOrNot(st, new) == new.keeper.specs \in {new.policy.specs, st.keeper.specs}

\* There is an alarm, in the future, and not after the end of what is due.
Alarmed(st) ==
  st.policy.specs # Schedule!NoSpecs =>
    /\ st.policy.alarm \in Nat /\ now < st.policy.alarm
    /\ st.policy.alarm <= Schedule!GetItemAtTime(st.policy.specs, now + 1).end

\* What is due is current, if anything is.
PlaysDue(st) == DueOf(st.policy.specs, now + 1) \in {st.policy.current, Schedule!InvalidItemId}

\* SaveState saves the play list, and changes nothing else.
LEMMA SaveOK ==
  ASSUME NEW st \in ScheduleState
  PROVE  LET new == Schedule!Save(st)
         IN  /\ SameList(st, new) /\ new.policy = st.policy
             /\ new.keeper.specs = new.policy.specs
<1> DEFINE k == [set |-> TRUE, specs |-> st.policy.specs, default |-> st.policy.default,
                 current |-> st.policy.current]
           new == [st EXCEPT !.keeper = k]
<1>1. Schedule!Save(st) = new BY DEF Schedule!Save
<1>2. st.policy \in Schedule!Policy BY DEF ScheduleState
<1>3. k \in Schedule!Keeper /\ k.specs = st.policy.specs BY <1>2 DEF Schedule!Policy, Schedule!Keeper
<1> HIDE DEF k
<1>4. new \in ScheduleState /\ new.policy = st.policy /\ new.keeper = k /\ new.failed = st.failed
  BY <1>3 DEF ScheduleState
<1> QED BY <1>1, <1>3, <1>4 DEF SameList

\* So does SwitchCurrentMedia, after it has switched.
LEMMA SwitchToOK ==
  ASSUME NEW st \in ScheduleState, NEW media \in Schedule!Media
  PROVE  LET new == Schedule!SwitchTo(st, media)
         IN  /\ SameList(st, new) /\ new.policy = st.policy
             /\ new.keeper.specs = new.policy.specs
<1> DEFINE s == [st EXCEPT !.player = media]
<1>1. s \in ScheduleState /\ s.policy = st.policy /\ s.failed = st.failed BY DEF ScheduleState
<1>2. Schedule!SwitchTo(st, media) = Schedule!Save(s) BY DEF Schedule!SwitchTo
<1> HIDE DEF s
<1> QED BY <1>1, <1>2, SaveOK DEF SameList

\* A policy whose current item or alarm changes.
LEMMA PolicySet ==
  ASSUME NEW st \in ScheduleState, NEW p \in Schedule!Policy,
         p.up = st.policy.up, p.specs = st.policy.specs, p.default = st.policy.default
  PROVE  LET new == [st EXCEPT !.policy = p]
         IN  SameList(st, new) /\ new.policy = p /\ new.keeper = st.keeper
BY DEF ScheduleState, SameList

\* Switching to an item.
LEMMA SwitchToItemOK ==
  ASSUME NEW st \in ScheduleState, NEW id \in 1 .. Items, now \in Nat
  PROVE  LET new == Schedule!SwitchToItem(st, id)
         IN  /\ SameList(st, new) /\ new.policy.current = id /\ new.policy.alarm = st.policy.alarm
             /\ new.keeper.specs = new.policy.specs
<1> DEFINE p == [st.policy EXCEPT !.current = id, !.begin = now]
           s == [st EXCEPT !.policy = p]
<1>1. st.policy \in Schedule!Policy BY DEF ScheduleState
<1>2. /\ p \in Schedule!Policy /\ p.up = st.policy.up /\ p.specs = st.policy.specs
      /\ p.default = st.policy.default /\ p.current = id /\ p.alarm = st.policy.alarm
  BY <1>1 DEF Schedule!Policy, Schedule!ItemIds
<1>3. [st EXCEPT !.policy.current = id, !.policy.begin = now] = s BY DEF ScheduleState
<1>4. Schedule!SwitchToItem(st, id) = Schedule!SwitchTo(s, <<"item", id>>)
  BY <1>3 DEF Schedule!SwitchToItem
<1> HIDE DEF p
<1>5. SameList(st, s) /\ s.policy = p BY <1>2, PolicySet
<1>6. <<"item", id>> \in Schedule!Media BY DEF Schedule!Media, Schedule!ItemIds
<1> HIDE DEF s
<1> DEFINE new == Schedule!SwitchTo(s, <<"item", id>>)
<1>7. SameList(s, new) /\ new.policy = s.policy /\ new.keeper.specs = new.policy.specs
  BY <1>5, <1>6, SwitchToOK DEF SameList
<1> HIDE DEF new
<1> QED BY <1>2, <1>4, <1>5, <1>7 DEF SameList, new

\* Switching to the default media, if it has a name.
LEMMA SwitchToDefaultOK ==
  ASSUME NEW st \in ScheduleState, now \in Nat
  PROVE  LET new == Schedule!SwitchToDefault(st)
         IN  /\ SameList(st, new) /\ new.policy.current = Schedule!InvalidItemId
             /\ new.policy.alarm = st.policy.alarm
             /\ SavesOrNot(st, new)
             /\ st.policy.default # 0 => new.keeper.specs = new.policy.specs
<1> DEFINE p == [st.policy EXCEPT !.current = Schedule!InvalidItemId, !.begin = now]
           s == [st EXCEPT !.policy = p]
           media == <<"default", s.policy.default>>
<1>1. st.policy \in Schedule!Policy BY DEF ScheduleState
<1>2. /\ p \in Schedule!Policy /\ p.up = st.policy.up /\ p.specs = st.policy.specs
      /\ p.default = st.policy.default /\ p.current = Schedule!InvalidItemId /\ p.alarm = st.policy.alarm
  BY <1>1 DEF Schedule!Policy
<1>3. [st EXCEPT !.policy.current = Schedule!InvalidItemId, !.policy.begin = now] = s BY DEF ScheduleState
<1>4. Schedule!SwitchToDefault(st) = IF s.policy.default = 0 THEN s ELSE Schedule!SwitchTo(s, media)
  BY <1>3 DEF Schedule!SwitchToDefault
<1> HIDE DEF p
<1>5. SameList(st, s) /\ s.policy = p /\ s.keeper = st.keeper BY <1>2, PolicySet
<1>6. media \in Schedule!Media BY <1>2, <1>5 DEF Schedule!Media, Schedule!Policy
<1> HIDE DEF s, media
<1> DEFINE new == Schedule!SwitchTo(s, media)
<1>7. SameList(s, new) /\ new.policy = s.policy /\ new.keeper.specs = new.policy.specs
  BY <1>5, <1>6, SwitchToOK DEF SameList
<1> HIDE DEF new
<1> QED BY <1>2, <1>4, <1>5, <1>7 DEF SameList, SavesOrNot, new

\* The alarm is set: the CHECK that its delay is positive holds.
LEMMA RegisterOK ==
  ASSUME NEW st \in ScheduleState, now \in Nat
  PROVE  LET new == Schedule!Register(st)
         IN  /\ SameList(st, new) /\ new.policy.current = st.policy.current
             /\ new.keeper = st.keeper /\ Alarmed(new)
<1> DEFINE switch == Schedule!GetNextItem(st.policy.specs, now + 1).switch
           end == Schedule!GetItemAtTime(st.policy.specs, now + 1).end
           alarm == now + (switch - now)
           p == [st.policy EXCEPT !.alarm = alarm]
           s == [st EXCEPT !.policy = p]
<1>1. st.policy \in Schedule!Policy BY DEF ScheduleState
<1>2. st.policy.specs \in Schedule!Specs BY <1>1 DEF Schedule!Policy
<1>3. switch \in Int /\ now + 1 <= switch /\ switch <= end
  BY <1>2, NextSwitch
<1>4. end \in Int BY <1>2, ItemAtTime DEF Choice
<1>5. Schedule!Register(st) = IF switch - now > 0 THEN [st EXCEPT !.policy.alarm = alarm]
                              ELSE [st EXCEPT !.failed = @ \cup {"delay > 0"}]
  BY DEF Schedule!Register, Schedule!Soon, Schedule!Error
<1> HIDE DEF switch, end
<1>6. switch - now > 0 /\ alarm = switch /\ alarm \in Nat /\ now < alarm /\ alarm <= end BY <1>3, <1>4
<1> HIDE DEF alarm
<1>7. [st EXCEPT !.policy.alarm = alarm] = s BY DEF ScheduleState
<1>8. /\ p \in Schedule!Policy /\ p.up = st.policy.up /\ p.specs = st.policy.specs
      /\ p.default = st.policy.default /\ p.current = st.policy.current /\ p.alarm = alarm
  BY <1>1, <1>6 DEF Schedule!Policy
<1> HIDE DEF p
<1>9. SameList(st, s) /\ s.policy = p /\ s.keeper = st.keeper BY <1>8, PolicySet
<1>10. Schedule!Register(st) = s BY <1>5, <1>6, <1>7
<1> HIDE DEF s
<1>11. Alarmed(s) BY <1>6, <1>8, <1>9 DEF Alarmed, end
<1> QED BY <1>8, <1>9, <1>10, <1>11

\* GoToNext switches to what is due, and sets the alarm.
LEMMA GoToNextOK ==
  ASSUME NEW st \in ScheduleState, NEW eos \in BOOLEAN, now \in Nat
  PROVE  LET new == Schedule!GoToNext(st, eos)
         IN  /\ SameList(st, new) /\ Alarmed(new) /\ PlaysDue(new) /\ SavesOrNot(st, new)
             /\ eos /\ st.policy.default # 0 => new.keeper.specs = new.policy.specs
<1> DEFINE due == Schedule!GetItemAtTime(st.policy.specs, now + 1).id
           switched ==
             IF due # Schedule!InvalidItemId /\ (due # st.policy.current \/ eos) THEN Schedule!SwitchToItem(st, due)
             ELSE IF eos THEN Schedule!SwitchToDefault(st) ELSE st
           new == Schedule!GoToNext(st, eos)
<1>1. new = IF st.policy.specs = Schedule!NoSpecs THEN [switched EXCEPT !.policy.alarm = Schedule!Never]
            ELSE Schedule!Register(switched)
  BY DEF Schedule!GoToNext, Schedule!Soon, Schedule!Error
<1>2. st.policy.specs \in Schedule!Specs BY DEF ScheduleState, Schedule!Policy
<1>3. due = DueOf(st.policy.specs, now + 1) BY <1>2, ItemIsDue
<1>4. due # Schedule!InvalidItemId => due \in 1 .. Items
  <2> DEFINE best == Schedule!GetCurrentItemAtTime(st.policy.specs, now + 1)
  <2>1. ChoiceOK(st.policy.specs, now + 1, Items, best) /\ due = best.id BY <1>2, CurrentOK, ItemAtTime
  <2> HIDE DEF best, due
  <2> QED BY <2>1 DEF ChoiceOK, IsLatest, IsNone
<1> HIDE DEF due
<1>5. /\ SameList(st, switched) /\ SavesOrNot(st, switched)
      /\ due \in {switched.policy.current, Schedule!InvalidItemId}
      /\ eos /\ st.policy.default # 0 => switched.keeper.specs = switched.policy.specs
  <2>1. CASE due # Schedule!InvalidItemId /\ (due # st.policy.current \/ eos)
    <3>1. switched = Schedule!SwitchToItem(st, due) BY <2>1
    <3> HIDE DEF switched
    <3> QED BY <1>4, <2>1, <3>1, SwitchToItemOK DEF SavesOrNot
  <2>2. CASE ~(due # Schedule!InvalidItemId /\ (due # st.policy.current \/ eos)) /\ eos
    <3>1. switched = Schedule!SwitchToDefault(st) BY <2>2
    <3> HIDE DEF switched
    <3> QED BY <2>2, <3>1, SwitchToDefaultOK
  <2>3. CASE ~(due # Schedule!InvalidItemId /\ (due # st.policy.current \/ eos)) /\ ~eos
    <3>1. switched = st BY <2>3
    <3> HIDE DEF switched
    <3> QED BY <2>3, <3>1 DEF SavesOrNot, SameList
  <2> QED BY <2>1, <2>2, <2>3
<1> HIDE DEF switched, new
<1>6. /\ SameList(switched, new) /\ new.policy.current = switched.policy.current
      /\ new.keeper = switched.keeper /\ Alarmed(new)
  <2>1. CASE st.policy.specs = Schedule!NoSpecs
    <3> DEFINE p == [switched.policy EXCEPT !.alarm = Schedule!Never]
    <3>1. switched \in ScheduleState /\ switched.policy \in Schedule!Policy
      BY <1>5 DEF SameList, ScheduleState
    <3>2. p \in Schedule!Policy /\ p.up = switched.policy.up /\ p.specs = switched.policy.specs
          /\ p.default = switched.policy.default /\ p.current = switched.policy.current
      BY <3>1 DEF Schedule!Policy
    <3>3. new = [switched EXCEPT !.policy = p] BY <1>1, <2>1, <3>1 DEF ScheduleState
    <3> HIDE DEF p
    <3>4. SameList(switched, new) /\ new.policy = p /\ new.keeper = switched.keeper
      BY <3>1, <3>2, <3>3, PolicySet
    <3>5. Alarmed(new) BY <1>5, <2>1, <3>4 DEF Alarmed, SameList
    <3> QED BY <3>2, <3>4, <3>5
  <2>2. CASE st.policy.specs # Schedule!NoSpecs
    <3>1. switched \in ScheduleState BY <1>5 DEF SameList
    <3>2. new = Schedule!Register(switched) BY <1>1, <2>2
    <3> QED BY <3>1, <3>2, RegisterOK
  <2> QED BY <2>1, <2>2
<1>7. SameList(st, new) /\ SavesOrNot(st, new) BY <1>5, <1>6 DEF SameList, SavesOrNot
<1>8. PlaysDue(new) BY <1>3, <1>5, <1>6 DEF PlaysDue, SameList
<1>9. eos /\ st.policy.default # 0 => new.keeper.specs = new.policy.specs BY <1>5, <1>6 DEF SameList
<1> QED BY <1>6, <1>7, <1>8, <1>9 DEF new

\* SetPlaylist changes the list, and goes to what is due by it.
LEMMA SetPlaylistOK ==
  ASSUME NEW st \in ScheduleState, NEW d \in Defaults, NEW specs \in Schedule!Specs, now \in Nat
  PROVE  LET new == Schedule!SetPlaylist(st, d, specs)
         IN  /\ new \in ScheduleState /\ new.failed = st.failed /\ new.policy.up = st.policy.up
             /\ new.policy.specs = specs /\ new.policy.default = d
             /\ Alarmed(new) /\ PlaysDue(new)
<1> DEFINE p == [st.policy EXCEPT !.default = d]
           named == [st EXCEPT !.policy = p]
           q == [p EXCEPT !.begin = now]
           to == [st EXCEPT !.policy = q]
           begun == IF st.policy.current # Schedule!InvalidItemId THEN named
                    ELSE Schedule!SwitchTo(to, <<"default", d>>)
           given == [begun EXCEPT !.policy.specs = specs]
           new == Schedule!GoToNext(given, FALSE)
<1>1. st.policy \in Schedule!Policy BY DEF ScheduleState
<1>2. /\ p \in Schedule!Policy /\ p.up = st.policy.up /\ p.default = d
      /\ q \in Schedule!Policy /\ q.up = st.policy.up /\ q.default = d
  BY <1>1 DEF Schedule!Policy
<1>3. [st EXCEPT !.policy.default = d] = named BY DEF ScheduleState
<1>4. [[st EXCEPT !.policy.default = d] EXCEPT !.policy.begin = now] = to BY DEF ScheduleState
<1>5. Schedule!SetPlaylist(st, d, specs) = new
  <2> HIDE DEF named, to
  <2>1. begun = IF st.policy.current # Schedule!InvalidItemId THEN [st EXCEPT !.policy.default = d]
                ELSE Schedule!SwitchTo([[st EXCEPT !.policy.default = d] EXCEPT !.policy.begin = now],
                                       <<"default", d>>)
    <3> DEFINE x == [st EXCEPT !.policy.default = d]
               y == [[st EXCEPT !.policy.default = d] EXCEPT !.policy.begin = now]
    <3>1. x = named /\ y = to BY <1>3, <1>4
    <3> HIDE DEF x, y
    <3>2. begun = IF st.policy.current # Schedule!InvalidItemId THEN x
                  ELSE Schedule!SwitchTo(y, <<"default", d>>)
      BY <3>1
    <3> QED BY <3>2 DEF x, y
  <2> HIDE DEF begun
  <2> QED BY <2>1 DEF Schedule!SetPlaylist
<1> HIDE DEF p, q
<1>6. named \in ScheduleState /\ named.policy = p /\ named.failed = st.failed
      /\ to \in ScheduleState /\ to.policy = q /\ to.failed = st.failed
  BY <1>2 DEF ScheduleState
<1>7. <<"default", d>> \in Schedule!Media BY DEF Schedule!Media
<1> HIDE DEF named, to
<1>8. begun \in ScheduleState /\ begun.policy.up = st.policy.up /\ begun.policy.default = d
      /\ begun.failed = st.failed
  BY <1>2, <1>6, <1>7, SwitchToOK DEF SameList
<1> HIDE DEF begun
<1>9. given \in ScheduleState /\ given.policy.up = st.policy.up /\ given.policy.default = d
      /\ given.policy.specs = specs /\ given.failed = st.failed
  <2> DEFINE r == [begun.policy EXCEPT !.specs = specs]
  <2>1. begun.policy \in Schedule!Policy BY <1>8 DEF ScheduleState
  <2>2. r \in Schedule!Policy /\ r.up = begun.policy.up /\ r.default = begun.policy.default /\ r.specs = specs
    BY <2>1 DEF Schedule!Policy
  <2>3. given = [begun EXCEPT !.policy = r] BY <1>8 DEF ScheduleState
  <2> HIDE DEF given, r
  <2>4. given \in ScheduleState /\ given.policy = r /\ given.failed = begun.failed
    BY <1>8, <2>2, <2>3 DEF ScheduleState
  <2> QED BY <1>8, <2>2, <2>4
<1> HIDE DEF given
<1>10. SameList(given, new) /\ Alarmed(new) /\ PlaysDue(new) BY <1>9, GoToNextOK
<1> HIDE DEF new
<1> QED BY <1>5, <1>9, <1>10 DEF SameList

\* SetDefaultMedia leaves the list, the item and the alarm alone.
LEMMA SetDefaultMediaOK ==
  ASSUME NEW st \in ScheduleState, NEW d \in Defaults, now \in Nat
  PROVE  LET new == Schedule!SetDefaultMedia(st, d)
         IN  /\ new \in ScheduleState /\ new.failed = st.failed /\ new.policy.up = st.policy.up
             /\ new.policy.specs = st.policy.specs /\ new.policy.current = st.policy.current
             /\ new.policy.alarm = st.policy.alarm /\ SavesOrNot(st, new)
<1> DEFINE p == [st.policy EXCEPT !.default = d]
           named == [st EXCEPT !.policy = p]
           q == [p EXCEPT !.begin = now]
           to == [st EXCEPT !.policy = q]
           new == Schedule!SetDefaultMedia(st, d)
<1>1. st.policy \in Schedule!Policy BY DEF ScheduleState
<1>2. /\ p \in Schedule!Policy /\ p.up = st.policy.up /\ p.specs = st.policy.specs
      /\ p.current = st.policy.current /\ p.alarm = st.policy.alarm
      /\ q \in Schedule!Policy /\ q.up = st.policy.up /\ q.specs = st.policy.specs
      /\ q.current = st.policy.current /\ q.alarm = st.policy.alarm
  BY <1>1 DEF Schedule!Policy
<1>3. [st EXCEPT !.policy.default = d] = named BY DEF ScheduleState
<1>4. [named EXCEPT !.policy.begin = now] = to BY DEF ScheduleState
<1>5. new = IF d # st.policy.default /\ st.policy.current = Schedule!InvalidItemId
            THEN Schedule!SwitchTo(to, <<"default", d>>) ELSE named
  BY <1>3, <1>4 DEF Schedule!SetDefaultMedia
<1> HIDE DEF p, q
<1>6. named \in ScheduleState /\ named.policy = p /\ named.failed = st.failed /\ named.keeper = st.keeper
      /\ to \in ScheduleState /\ to.policy = q /\ to.failed = st.failed
  BY <1>2 DEF ScheduleState
<1>7. <<"default", d>> \in Schedule!Media BY DEF Schedule!Media
<1> HIDE DEF named, to, new
<1>8. CASE new = named BY <1>2, <1>6, <1>8 DEF SavesOrNot, new
<1>9. CASE new = Schedule!SwitchTo(to, <<"default", d>>)
  <2>1. SameList(to, new) /\ new.policy = to.policy /\ new.keeper.specs = new.policy.specs
    BY <1>6, <1>7, <1>9, SwitchToOK
  <2> QED BY <1>2, <1>6, <2>1 DEF SavesOrNot, SameList, new
<1> QED BY <1>5, <1>8, <1>9

\* The length of an item that has ended is measured, and saved.
LEMMA MeasuredOK ==
  ASSUME NEW st \in ScheduleState, now \in Nat,
         Schedule!IsUnknown(st.policy) => st.policy.begin < now
  PROVE  LET new == Schedule!Measured(st)
         IN  /\ new \in ScheduleState /\ new.failed = st.failed /\ new.policy.up = st.policy.up
             /\ new.policy.default = st.policy.default
             /\ new = st \/ new.keeper.specs = new.policy.specs
<1>1. st.policy \in Schedule!Policy BY DEF ScheduleState
<1>2. CASE Schedule!IsUnknown(st.policy)
  <2> DEFINE id == st.policy.current
             length == (now - st.policy.begin) \div Second
             item == [st.policy.specs[id] EXCEPT !.duration = length]
             specs == [st.policy.specs EXCEPT ![id] = item]
             p == [st.policy EXCEPT !.specs = specs]
             s == [st EXCEPT !.policy = p]
             new == Schedule!Save(s)
  <2>1. Schedule!Measured(st) = Schedule!Save([st EXCEPT !.policy.specs[id].duration = length])
    BY <1>2 DEF Schedule!Measured
  <2>2. id \in 1 .. Items /\ st.policy.specs[id] # Schedule!NoItem
    BY <1>1, <1>2 DEF Schedule!IsUnknown, Schedule!Policy, Schedule!ItemIds
  <2>3. st.policy.specs \in [1 .. Items -> Schedule!Item \cup {Schedule!NoItem}]
    BY <1>1 DEF Schedule!Policy, Schedule!Specs, Schedule!ItemIds
  <2>4. st.policy.specs[id] \in Schedule!Item BY <2>2, <2>3
  <2>5. length \in Nat
    <3> DEFINE n == now - st.policy.begin
    <3>1. n \in Nat BY <1>1, <1>2 DEF Schedule!Policy
    <3>2. Second \in Nat \ {0} BY ElementsAssumption
    <3> HIDE DEF n
    <3>3. (n \div Second) \in Nat BY <3>1, <3>2
    <3> QED BY <3>3 DEF n
  <2> HIDE DEF length
  <2>6. item \in Schedule!Item BY <2>4, <2>5 DEF Schedule!Item
  <2>7. [st EXCEPT !.policy.specs[id].duration = length] = s
    BY <2>2, <2>3 DEF ScheduleState, Schedule!Policy
  <2> HIDE DEF item
  <2>8. specs \in Schedule!Specs BY <2>3, <2>6 DEF Schedule!Specs, Schedule!ItemIds
  <2> HIDE DEF specs
  <2>9. p \in Schedule!Policy /\ p.up = st.policy.up /\ p.default = st.policy.default
    BY <1>1, <2>8 DEF Schedule!Policy
  <2> HIDE DEF p
  <2>10. s \in ScheduleState /\ s.policy = p /\ s.failed = st.failed BY <2>9 DEF ScheduleState
  <2> HIDE DEF s
  <2>11. SameList(s, new) /\ new.policy = s.policy /\ new.keeper.specs = new.policy.specs
    BY <2>10, SaveOK
  <2>12. Schedule!Measured(st) = new BY <2>1, <2>7
  <2> HIDE DEF new
  <2> QED BY <2>9, <2>10, <2>11, <2>12 DEF SameList
<1>3. CASE ~Schedule!IsUnknown(st.policy)
  BY <1>3 DEF Schedule!Measured
<1> QED BY <1>2, <1>3

\* What the state keeper has is loaded, and saved again if there is a default
\* media or an item to go back to.
LEMMA LoadStateOK ==
  ASSUME NEW st \in ScheduleState, st.policy.specs = Schedule!NoSpecs, now \in Nat
  PROVE  LET new == Schedule!LoadState(st)
         IN  /\ new \in ScheduleState /\ new.failed = st.failed /\ new.policy.up = st.policy.up
             /\ Alarmed(new)
             /\ ~(st.keeper.set /\ st.keeper.current # Schedule!InvalidItemId) => PlaysDue(new)
             /\ 0 \notin Defaults /\ new.policy.specs # Schedule!NoSpecs =>
                  new.keeper.specs = new.policy.specs
<1> DEFINE was == st.keeper
           loaded == IF was.set THEN Schedule!SetPlaylist(st, was.default, was.specs) ELSE st
           p == [loaded.policy EXCEPT !.current = was.current]
           s == [loaded EXCEPT !.policy = p]
           back == was.set /\ was.current # Schedule!InvalidItemId
                   /\ loaded.policy.specs[was.current] # Schedule!NoItem
           new == Schedule!LoadState(st)
<1>1. /\ was.set \in BOOLEAN /\ was.specs \in Schedule!Specs /\ was.default \in Defaults
      /\ was.current \in (1 .. Items) \cup {Schedule!InvalidItemId}
  BY DEF ScheduleState, Schedule!Keeper, Schedule!ItemIds
<1>2. /\ loaded \in ScheduleState /\ loaded.failed = st.failed /\ loaded.policy.up = st.policy.up
      /\ was.set => Alarmed(loaded)
  BY <1>1, SetPlaylistOK
<1> HIDE DEF loaded
<1>3. loaded.policy \in Schedule!Policy BY <1>2 DEF ScheduleState
<1>4. /\ p \in Schedule!Policy /\ p.up = loaded.policy.up /\ p.specs = loaded.policy.specs
      /\ p.default = loaded.policy.default /\ p.current = was.current /\ p.alarm = loaded.policy.alarm
  BY <1>1, <1>3 DEF Schedule!Policy, Schedule!ItemIds
<1>5. [loaded EXCEPT !.policy.current = was.current] = s BY <1>2 DEF ScheduleState
<1>6. new = IF back THEN Schedule!SwitchTo(s, <<"item", was.current>>) ELSE Schedule!GoToNext(s, TRUE)
  BY <1>5 DEF Schedule!LoadState, loaded
<1> HIDE DEF p
<1>7. SameList(loaded, s) /\ s.policy = p BY <1>2, <1>4, PolicySet
<1>8. s \in ScheduleState BY <1>7 DEF SameList
<1> HIDE DEF s, new
<1>9. CASE back
  <2>1. <<"item", was.current>> \in Schedule!Media
    BY <1>1, <1>9 DEF Schedule!Media, Schedule!ItemIds
  <2>2. new = Schedule!SwitchTo(s, <<"item", was.current>>) BY <1>6, <1>9
  <2>3. SameList(s, new) /\ new.policy = s.policy /\ new.keeper.specs = new.policy.specs
    BY <1>8, <2>1, <2>2, SwitchToOK
  <2>4. Alarmed(new)
    <3>1. Alarmed(loaded) BY <1>2, <1>9
    <3> QED BY <1>4, <1>7, <2>3, <3>1 DEF Alarmed
  <2> QED BY <1>2, <1>7, <1>9, <2>3, <2>4 DEF SameList, new
<1>10. CASE ~back
  <2>1. new = Schedule!GoToNext(s, TRUE) BY <1>6, <1>10
  <2>2. SameList(s, new) /\ Alarmed(new) /\ PlaysDue(new)
        /\ (s.policy.default # 0 => new.keeper.specs = new.policy.specs)
    BY <1>8, <2>1, GoToNextOK
  <2>3. s.policy.default \in Defaults BY <1>8 DEF ScheduleState, Schedule!Policy
  <2> QED BY <1>2, <1>7, <2>2, <2>3 DEF SameList, new
<1> QED BY <1>9, <1>10

-----------------------------------------------------------------------------
(* The invariant of the policy.                                            *)

\* The alarm of a state is soon enough for what is due.
InTime(st, n) ==
  st.policy.up /\ st.policy.specs # Schedule!NoSpecs =>
    /\ st.policy.alarm \in Nat
    /\ st.policy.alarm <= Schedule!Larger(Schedule!GetItemAtTime(st.policy.specs, n + 1).end + 1,
                                          n + MinEosRetry)

\* What was due at a time plays, and the alarm is set for its end, which is not
\* over for longer than the tolerance.
PlaysUntilAlarm(st, n) ==
  \E t \in Int :
    /\ t <= n + 1
    /\ DueOf(st.policy.specs, t) \in {st.policy.current, Schedule!InvalidItemId}
    /\ st.policy.alarm <= Schedule!GetItemAtTime(st.policy.specs, t).end
    /\ n <= st.policy.alarm + 1

\* The state keeper has the play list.
HasList(st) ==
  st.policy.up /\ 0 \notin Defaults /\ st.policy.specs # Schedule!NoSpecs =>
    st.keeper.specs = st.policy.specs

\* No CHECK has failed but that a stream of unknown length ends after its begin.
ClockOnly(f) == f \subseteq {"now > current_begin_ts_"}

\* A policy that is up has the alarm and the list, and plays what is due; no CHECK
\* but one has failed.
ScheduleInv ==
  /\ now \in Nat /\ late \in BOOLEAN /\ Schedule!State \in ScheduleState
  /\ ClockOnly(failed)
  /\ InTime(Schedule!State, now) /\ HasList(Schedule!State)
  /\ policy.up /\ ~late /\ policy.specs # Schedule!NoSpecs => PlaysUntilAlarm(Schedule!State, now)

\* What the policy knows and what it is made of.
LEMMA StateIs ==
  /\ Schedule!State.policy = policy /\ Schedule!State.player = player
  /\ Schedule!State.keeper = scheduleKeeper /\ Schedule!State.failed = {}
BY DEF Schedule!State

\* A policy that was configured has no items and is not up.
LEMMA ConfiguredOK ==
  ASSUME NEW d \in Defaults
  PROVE  LET p == Schedule!Configured(d)
             started == [Schedule!Configured(d) EXCEPT !.up = TRUE]
         IN  /\ p \in Schedule!Policy /\ ~p.up /\ p.specs = Schedule!NoSpecs
             /\ started \in Schedule!Policy /\ started.up /\ started.specs = Schedule!NoSpecs
<1>1. Schedule!NoSpecs \in Schedule!Specs BY DEF Schedule!NoSpecs, Schedule!Specs
<1> DEFINE none == Schedule!NoSpecs
<1> HIDE DEF none
<1>2. Schedule!Configured(d) = [up |-> FALSE, specs |-> none, default |-> d,
                                current |-> Schedule!InvalidItemId, begin |-> 0, alarm |-> Schedule!Never]
  BY DEF Schedule!Configured, none
<1>3. none \in Schedule!Specs BY <1>1 DEF none
<1>4. none = Schedule!NoSpecs BY DEF none
<1> DEFINE p == Schedule!Configured(d)
           started == [p EXCEPT !.up = TRUE]
<1>5. p \in Schedule!Policy /\ ~p.up /\ p.specs = none BY <1>2, <1>3 DEF Schedule!Policy
<1> HIDE DEF p
<1>6. started \in Schedule!Policy /\ started.up /\ started.specs = none BY <1>5 DEF Schedule!Policy
<1> QED BY <1>4, <1>5, <1>6 DEF p

\* An alarm that was just set is in time.
LEMMA AlarmedInTime ==
  ASSUME NEW st \in ScheduleState, now \in Nat, Alarmed(st)
  PROVE  /\ InTime(st, now)
         /\ PlaysDue(st) /\ st.policy.specs # Schedule!NoSpecs => PlaysUntilAlarm(st, now)
<1> DEFINE alarm == st.policy.alarm
           end == Schedule!GetItemAtTime(st.policy.specs, now + 1).end
<1>1. st.policy.specs \in Schedule!Specs BY DEF ScheduleState, Schedule!Policy
<1>2. end \in Int BY <1>1, ItemAtTime DEF Choice
<1>3. MinEosRetry \in Nat BY ElementsAssumption
<1>4. st.policy.specs # Schedule!NoSpecs => alarm \in Nat /\ now < alarm /\ alarm <= end
  BY DEF Alarmed
<1> HIDE DEF alarm, end
<1>5. st.policy.specs # Schedule!NoSpecs =>
        /\ alarm \in Nat /\ alarm <= Schedule!Larger(end + 1, now + MinEosRetry)
        /\ now <= alarm + 1 /\ alarm <= end
  BY <1>2, <1>3, <1>4 DEF Schedule!Larger
<1>6. InTime(st, now) BY <1>5 DEF InTime, alarm, end
<1>7. PlaysDue(st) /\ st.policy.specs # Schedule!NoSpecs => PlaysUntilAlarm(st, now)
  <2>1. now + 1 \in Int /\ now + 1 <= now + 1 OBVIOUS
  <2> QED BY <1>5, <2>1 DEF PlaysUntilAlarm, PlaysDue, alarm, end
<1> QED BY <1>6, <1>7

\* The invariant after an operation: a CHECK that failed leaves no policy.
LEMMA BecomesOK ==
  ASSUME NEW st \in ScheduleState, Schedule!Becomes(st), now \in Nat, now' = now, late' \in BOOLEAN,
         policy \in Schedule!Policy, ClockOnly(failed),
         st.failed = {} => InTime(st, now) /\ HasList(st),
         st.failed = {} /\ st.policy.up /\ ~late' /\ st.policy.specs # Schedule!NoSpecs => PlaysUntilAlarm(st, now)
  PROVE  ScheduleInv'
<1> DEFINE new == Schedule!State'
<1>1. /\ new.policy = policy' /\ new.player = player' /\ new.keeper = scheduleKeeper' /\ new.failed = {}
      /\ new = [policy |-> policy', player |-> player', keeper |-> scheduleKeeper', failed |-> {}]
  BY DEF Schedule!State
<1>2. scheduleKeeper' = st.keeper /\ ClockOnly(failed')
  BY DEF Schedule!Becomes, ScheduleState, ClockOnly
<1>3. CASE st.failed = {}
  <2>1. policy' = st.policy /\ player' = st.player BY <1>3 DEF Schedule!Becomes
  <2>2. new = st BY <1>1, <1>2, <1>3, <2>1 DEF ScheduleState
  <2>3. InTime(new, now') /\ HasList(new) BY <1>3, <2>2
  <2>4. new.policy.up /\ ~late' /\ new.policy.specs # Schedule!NoSpecs => PlaysUntilAlarm(new, now')
    BY <1>3, <2>2
  <2>5. InTime(Schedule!State, now)' /\ HasList(Schedule!State)' BY <2>3
  <2>6. policy'.up /\ ~late' /\ policy'.specs # Schedule!NoSpecs => PlaysUntilAlarm(Schedule!State, now)'
    BY <1>1, <2>4
  <2> QED BY <1>2, <2>2, <2>5, <2>6 DEF ScheduleInv
<1>4. CASE st.failed # {}
  <2> DEFINE p == Schedule!Configured(policy.default)
  <2>1. policy' = p /\ player' = Schedule!Silence BY <1>4 DEF Schedule!Becomes
  <2>2. p \in Schedule!Policy /\ ~p.up
    <3>1. policy.default \in Defaults BY DEF Schedule!Policy
    <3> QED BY <3>1, ConfiguredOK
  <2> HIDE DEF p
  <2>3. Schedule!Silence \in Schedule!Media BY DEF Schedule!Silence, Schedule!Media
  <2>4. new \in ScheduleState BY <1>1, <1>2, <2>1, <2>2, <2>3 DEF ScheduleState
  <2>5. ~new.policy.up /\ ~policy'.up BY <1>1, <2>1, <2>2
  <2> HIDE DEF new
  <2>6. InTime(Schedule!State, now)' /\ HasList(Schedule!State)' BY <2>5 DEF InTime, HasList, new
  <2> QED BY <1>2, <2>4, <2>5, <2>6 DEF ScheduleInv, new
<1> QED BY <1>3, <1>4

\* A policy starts: it loads its state.
LEMMA PolicyStarts == ScheduleInv /\ Schedule!Start => ScheduleInv'
<1> SUFFICES ASSUME ScheduleInv, Schedule!Start PROVE ScheduleInv' OBVIOUS
<1>1. now \in Nat /\ now' = now /\ ClockOnly(failed) /\ Schedule!State \in ScheduleState /\ policy \in Schedule!Policy
  BY StateIs DEF ScheduleInv, ScheduleState, Schedule!Start
<1>2. PICK d \in Defaults :
        Schedule!Becomes(Schedule!LoadState([Schedule!State EXCEPT !.policy = [Schedule!Configured(d) EXCEPT !.up = TRUE]]))
  BY DEF Schedule!Start
<1> DEFINE p == [Schedule!Configured(d) EXCEPT !.up = TRUE]
           st == [Schedule!State EXCEPT !.policy = p]
           new == Schedule!LoadState(st)
<1>3. p \in Schedule!Policy /\ p.up /\ p.specs = Schedule!NoSpecs BY ConfiguredOK
<1> HIDE DEF p
<1>4. st \in ScheduleState /\ st.policy = p /\ st.failed = {} /\ st.keeper = scheduleKeeper
  BY <1>1, <1>3, StateIs DEF ScheduleState
<1> HIDE DEF st
<1>5. /\ new \in ScheduleState /\ new.failed = {}
      /\ Alarmed(new)
      /\ ~(scheduleKeeper.set /\ scheduleKeeper.current # Schedule!InvalidItemId) => PlaysDue(new)
      /\ 0 \notin Defaults /\ new.policy.specs # Schedule!NoSpecs => new.keeper.specs = new.policy.specs
  BY <1>1, <1>3, <1>4, LoadStateOK
<1>6. late' = (scheduleKeeper.set /\ scheduleKeeper.current # Schedule!InvalidItemId)
  BY DEF Schedule!Start
<1>7. Schedule!Becomes(new) BY <1>2 DEF st, p
<1> HIDE DEF new
<1>8. late' \in BOOLEAN BY <1>6
<1>9. HasList(new) BY <1>5 DEF HasList
<1> QED BY <1>1, <1>5, <1>6, <1>7, <1>8, <1>9, AlarmedInTime, BecomesOK

\* A play list that a user sets.
LEMMA PlaylistIsSet == ScheduleInv /\ Schedule!RpcSetPlaylist => ScheduleInv'
<1> SUFFICES ASSUME ScheduleInv, Schedule!RpcSetPlaylist PROVE ScheduleInv' OBVIOUS
<1>1. now \in Nat /\ now' = now /\ ClockOnly(failed) /\ late' = FALSE /\ Schedule!State \in ScheduleState
      /\ policy \in Schedule!Policy
  BY StateIs DEF ScheduleInv, ScheduleState, Schedule!RpcSetPlaylist
<1>2. PICK d \in Defaults,
           specs \in [Schedule!ItemIds -> [at : Offsets, duration : Durations] \cup {Schedule!NoItem}] :
        Schedule!Becomes(Schedule!Save(Schedule!SetPlaylist(Schedule!State, d, specs)))
  BY DEF Schedule!RpcSetPlaylist
<1>3. specs \in Schedule!Specs
  <2>0. Offsets \subseteq Nat /\ Durations \subseteq Nat BY ElementsAssumption
  <2>1. [at : Offsets, duration : Durations] \subseteq Schedule!Item BY <2>0 DEF Schedule!Item
  <2> QED BY <1>2, <2>1 DEF Schedule!Specs
<1> DEFINE set == Schedule!SetPlaylist(Schedule!State, d, specs)
           new == Schedule!Save(set)
<1>4. set \in ScheduleState /\ set.failed = {} /\ Alarmed(set) /\ PlaysDue(set)
  BY <1>1, <1>3, StateIs, SetPlaylistOK
<1> HIDE DEF set
<1>5. SameList(set, new) /\ new.policy = set.policy /\ new.keeper.specs = new.policy.specs
  BY <1>4, SaveOK
<1>6. Schedule!Becomes(new) BY <1>2 DEF set
<1> HIDE DEF new
<1>7. new \in ScheduleState /\ new.failed = {} /\ Alarmed(new) /\ PlaysDue(new) /\ HasList(new)
  BY <1>4, <1>5 DEF SameList, Alarmed, PlaysDue, HasList
<1> QED BY <1>1, <1>6, <1>7, AlarmedInTime, BecomesOK

\* A default media that a user sets.
LEMMA DefaultIsSet == ScheduleInv /\ Schedule!RpcSetDefaultMedia => ScheduleInv'
<1> SUFFICES ASSUME ScheduleInv, Schedule!RpcSetDefaultMedia PROVE ScheduleInv' OBVIOUS
<1> DEFINE st == Schedule!State
<1>1. /\ now \in Nat /\ now' = now /\ ClockOnly(failed) /\ late' = late /\ late \in BOOLEAN /\ st \in ScheduleState
      /\ policy \in Schedule!Policy /\ st.policy = policy /\ st.failed = {}
      /\ InTime(st, now) /\ HasList(st)
      /\ policy.up /\ ~late /\ policy.specs # Schedule!NoSpecs => PlaysUntilAlarm(st, now)
  BY StateIs DEF ScheduleInv, ScheduleState, Schedule!RpcSetDefaultMedia
<1>2. PICK d \in Defaults : Schedule!Becomes(Schedule!SetDefaultMedia(st, d))
  BY DEF Schedule!RpcSetDefaultMedia
<1> HIDE DEF st
<1> DEFINE new == Schedule!SetDefaultMedia(st, d)
<1>3. /\ new \in ScheduleState /\ new.failed = st.failed /\ new.policy.up = st.policy.up
      /\ new.policy.specs = st.policy.specs /\ new.policy.current = st.policy.current
      /\ new.policy.alarm = st.policy.alarm /\ SavesOrNot(st, new)
  BY <1>1, SetDefaultMediaOK
<1>4. Schedule!Becomes(new) BY <1>2
<1> HIDE DEF new
<1>5. InTime(new, now) BY <1>1, <1>3 DEF InTime
<1>6. HasList(new) BY <1>1, <1>3 DEF HasList, SavesOrNot
<1>7. new.policy.up /\ ~late' /\ new.policy.specs # Schedule!NoSpecs => PlaysUntilAlarm(new, now)
  BY <1>1, <1>3 DEF PlaysUntilAlarm
<1> QED BY <1>1, <1>3, <1>4, <1>5, <1>6, <1>7, BecomesOK

\* An alarm rings.
LEMMA AlarmRings == ScheduleInv /\ Schedule!Alarm => ScheduleInv'
<1> SUFFICES ASSUME ScheduleInv, Schedule!Alarm PROVE ScheduleInv' OBVIOUS
<1> DEFINE old == Schedule!State
           p == [policy EXCEPT !.alarm = Schedule!Never]
           st == [old EXCEPT !.policy = p]
           new == Schedule!GoToNext(st, FALSE)
<1>1. /\ now \in Nat /\ now' = now /\ ClockOnly(failed) /\ late' = FALSE /\ old \in ScheduleState /\ policy.up
      /\ policy \in Schedule!Policy /\ old.policy = policy /\ old.failed = {} /\ HasList(old)
  BY StateIs DEF ScheduleInv, ScheduleState, Schedule!Alarm
<1>2. Schedule!Becomes(new)
  <2>1. [Schedule!State EXCEPT !.policy.alarm = Schedule!Never] = st BY <1>1 DEF Schedule!State
  <2> QED BY <2>1 DEF Schedule!Alarm
<1>3. p \in Schedule!Policy /\ p.up /\ p.specs = policy.specs BY <1>1 DEF Schedule!Policy
<1> HIDE DEF p, old
<1>4. st \in ScheduleState /\ st.policy = p /\ st.failed = {} /\ st.keeper = old.keeper
  BY <1>1, <1>3 DEF ScheduleState
<1> HIDE DEF st
<1>5. SameList(st, new) /\ Alarmed(new) /\ PlaysDue(new) /\ SavesOrNot(st, new)
  BY <1>1, <1>4, GoToNextOK
<1> HIDE DEF new
<1>6. new \in ScheduleState /\ new.failed = {} BY <1>4, <1>5 DEF SameList
<1>7. HasList(new) BY <1>1, <1>3, <1>4, <1>5 DEF HasList, SavesOrNot, SameList
<1> QED BY <1>1, <1>2, <1>5, <1>6, <1>7, AlarmedInTime, BecomesOK

\* A stream ends.
LEMMA StreamEnds == ScheduleInv /\ Schedule!NotifyEos => ScheduleInv'
<1> SUFFICES ASSUME ScheduleInv, Schedule!NotifyEos PROVE ScheduleInv' OBVIOUS
<1> DEFINE old == Schedule!State
           st == [old EXCEPT !.player = Schedule!Silence]
           measured == Schedule!Measured(st)
           failing == [st EXCEPT !.failed = @ \cup {"now > current_begin_ts_"}]
           retried == [measured EXCEPT !.policy.alarm = now + MinEosRetry]
           going == Schedule!GoToNext(measured, TRUE)
           short == now - policy.begin < MinEosInterval
           fails == Schedule!IsUnknown(policy) /\ now <= policy.begin
<1>1. /\ now \in Nat /\ now' = now /\ ClockOnly(failed) /\ old \in ScheduleState /\ policy.up
      /\ policy \in Schedule!Policy /\ old.policy = policy /\ old.failed = {} /\ HasList(old)
  BY StateIs DEF ScheduleInv, ScheduleState, Schedule!NotifyEos
<1>2. /\ IF fails THEN Schedule!Becomes(failing)
         ELSE Schedule!Becomes(IF short THEN retried ELSE going)
      /\ late' = short
  BY DEF Schedule!NotifyEos
<1>3. Schedule!Silence \in Schedule!Media BY DEF Schedule!Silence, Schedule!Media
<1> HIDE DEF old
<1>4. st \in ScheduleState /\ st.policy = policy /\ st.failed = {} /\ st.keeper = old.keeper
  BY <1>1, <1>3 DEF ScheduleState
<1> HIDE DEF st
<1>5. late' \in BOOLEAN
  <2> HIDE DEF short
  <2>1. short = TRUE \/ short = FALSE BY DEF short
  <2> QED BY <1>2, <2>1
<1>6. CASE fails
  <2>1. failing \in ScheduleState /\ failing.failed # {} BY <1>4 DEF ScheduleState
  <2>2. Schedule!Becomes(failing) BY <1>2, <1>6
  <2> HIDE DEF failing
  <2> QED BY <1>1, <1>5, <2>1, <2>2, BecomesOK
<1>7. CASE ~fails
  <2>1. Schedule!IsUnknown(st.policy) => st.policy.begin < now
    <3>1. policy.begin \in Nat BY <1>1 DEF Schedule!Policy
    <3> QED BY <1>1, <1>4, <1>7, <3>1
  <2>2. /\ measured \in ScheduleState /\ measured.failed = {} /\ measured.policy.up
        /\ measured.policy.default = policy.default
        /\ measured = st \/ measured.keeper.specs = measured.policy.specs
    BY <1>1, <1>4, <2>1, MeasuredOK
  <2>3. HasList(measured) BY <1>1, <1>4, <2>2 DEF HasList
  <2> HIDE DEF measured, fails
  <2>4. CASE short
    <3> DEFINE p == [measured.policy EXCEPT !.alarm = now + MinEosRetry]
    <3>1. measured.policy \in Schedule!Policy BY <2>2 DEF ScheduleState
    <3>2. now + MinEosRetry \in Nat BY <1>1, ElementsAssumption
    <3>3. p \in Schedule!Policy /\ p.up = measured.policy.up /\ p.specs = measured.policy.specs
          /\ p.alarm = now + MinEosRetry
      BY <3>1, <3>2 DEF Schedule!Policy
    <3>4. retried = [measured EXCEPT !.policy = p] BY <2>2 DEF ScheduleState
    <3> HIDE DEF p
    <3>5. retried \in ScheduleState /\ retried.policy = p /\ retried.failed = {}
          /\ retried.keeper = measured.keeper
      BY <2>2, <3>3, <3>4 DEF ScheduleState
    <3>6. Schedule!Becomes(retried) /\ late' BY <1>2, <1>7, <2>4
    <3> HIDE DEF retried
    <3>7. HasList(retried) BY <2>3, <3>3, <3>5 DEF HasList
    <3>8. InTime(retried, now)
      <4>1. retried.policy.specs \in Schedule!Specs BY <3>5 DEF ScheduleState, Schedule!Policy
      <4> DEFINE end == Schedule!GetItemAtTime(retried.policy.specs, now + 1).end
                 alarm == now + MinEosRetry
      <4>2. end \in Int BY <1>1, <4>1, ItemAtTime DEF Choice
      <4>3. alarm \in Nat /\ retried.policy.alarm = alarm BY <3>2, <3>3, <3>5
      <4> HIDE DEF end, alarm
      <4>4. retried.policy.alarm <= Schedule!Larger(end + 1, alarm) BY <4>2, <4>3 DEF Schedule!Larger
      <4> QED BY <4>3, <4>4 DEF InTime, end, alarm
    <3> QED BY <1>1, <1>5, <3>5, <3>6, <3>7, <3>8, BecomesOK
  <2>5. CASE ~short
    <3>1. Schedule!Becomes(going) BY <1>2, <1>7, <2>5
    <3>2. SameList(measured, going) /\ Alarmed(going) /\ PlaysDue(going) /\ SavesOrNot(measured, going)
      BY <1>1, <2>2, GoToNextOK
    <3> HIDE DEF going
    <3>3. going \in ScheduleState /\ going.failed = {} BY <2>2, <3>2 DEF SameList
    <3>4. HasList(going) BY <2>3, <3>2 DEF HasList, SavesOrNot, SameList
    <3> QED BY <1>1, <1>5, <3>1, <3>2, <3>3, <3>4, AlarmedInTime, BecomesOK
  <2> QED BY <2>4, <2>5
<1> QED BY <1>6, <1>7

\* Time goes on, but not beyond an alarm that is to ring.
LEMMA TimeGoesOn == ScheduleInv /\ Schedule!Tick => ScheduleInv'
<1> SUFFICES ASSUME ScheduleInv, Schedule!Tick PROVE ScheduleInv' OBVIOUS
<1> DEFINE st == Schedule!State
           specs == policy.specs
           alarm == policy.alarm
           end == Schedule!GetItemAtTime(specs, now + 1).end
           later == Schedule!GetItemAtTime(specs, (now + 1) + 1).end
<1>1. /\ now \in Nat /\ now' = now + 1 /\ ClockOnly(failed) /\ late' = late /\ late \in BOOLEAN /\ st \in ScheduleState
      /\ policy \in Schedule!Policy /\ st.policy = policy /\ st' = st
      /\ InTime(st, now) /\ HasList(st)
      /\ policy.up /\ ~late /\ specs # Schedule!NoSpecs => PlaysUntilAlarm(st, now)
      /\ policy' = policy /\ failed' = failed
      /\ alarm # Schedule!Never => now < alarm + 1
  BY StateIs DEF ScheduleInv, ScheduleState, Schedule!Tick, Schedule!State, Schedule!Error
<1>2. specs \in Schedule!Specs BY <1>1 DEF Schedule!Policy
<1>3. end \in Int /\ later \in Int /\ end <= later
  <2>1. now + 1 \in Int /\ (now + 1) + 1 \in Int BY <1>1
  <2> QED BY <1>2, <2>1, ItemAtTime, EndLater DEF Choice
<1>4. MinEosRetry \in Nat BY ElementsAssumption
<1>5. policy.up /\ specs # Schedule!NoSpecs =>
        /\ alarm \in Nat /\ alarm <= Schedule!Larger(end + 1, now + MinEosRetry)
  BY <1>1 DEF InTime
<1>6. now' \in Nat BY <1>1
<1> HIDE DEF end, later, alarm, specs, st
<1>7. policy.up /\ specs # Schedule!NoSpecs =>
        /\ alarm \in Nat /\ alarm <= Schedule!Larger(later + 1, (now + 1) + MinEosRetry)
        /\ now + 1 <= alarm + 1
  BY <1>1, <1>3, <1>4, <1>5 DEF Schedule!Larger, Schedule!Never
<1>8. InTime(st, now + 1) BY <1>1, <1>7 DEF InTime, alarm, specs, later
<1>9. policy.up /\ ~late /\ specs # Schedule!NoSpecs => PlaysUntilAlarm(st, now + 1)
  <2> SUFFICES ASSUME policy.up, ~late, specs # Schedule!NoSpecs PROVE PlaysUntilAlarm(st, now + 1)
    OBVIOUS
  <2>1. PICK t \in Int :
          /\ t <= now + 1
          /\ DueOf(st.policy.specs, t) \in {st.policy.current, Schedule!InvalidItemId}
          /\ st.policy.alarm <= Schedule!GetItemAtTime(st.policy.specs, t).end
    BY <1>1 DEF PlaysUntilAlarm
  <2>2. t <= (now + 1) + 1 BY <1>1, <2>1
  <2>3. now + 1 <= st.policy.alarm + 1 BY <1>1, <1>7 DEF alarm
  <2> QED BY <2>1, <2>2, <2>3 DEF PlaysUntilAlarm
<1>10. st' \in ScheduleState /\ InTime(st', now') /\ HasList(st')
       /\ (policy'.up /\ ~late' /\ policy'.specs # Schedule!NoSpecs => PlaysUntilAlarm(st', now'))
  BY <1>1, <1>8, <1>9 DEF specs
<1> QED BY <1>1, <1>6, <1>10 DEF ScheduleInv, st

\* Every step of the policy.
LEMMA ScheduleStep == ScheduleInv /\ (Schedule!Next \/ UNCHANGED scheduleVars) => ScheduleInv'
<1> SUFFICES ASSUME ScheduleInv, Schedule!Next \/ UNCHANGED scheduleVars PROVE ScheduleInv' OBVIOUS
<1>1. CASE UNCHANGED scheduleVars
  <2>1. now' = now /\ late' = late /\ policy' = policy /\ failed' = failed
        /\ Schedule!State' = Schedule!State
    BY <1>1 DEF scheduleVars, Schedule!State
  <2> QED BY <2>1 DEF ScheduleInv
<1>2. CASE Schedule!Crash
  <2> DEFINE p == Schedule!Configured(policy.default)
             new == [policy |-> p, player |-> Schedule!Silence, keeper |-> scheduleKeeper, failed |-> {}]
  <2>1. now' = now /\ late' = FALSE /\ policy' = p /\ player' = Schedule!Silence
        /\ scheduleKeeper' = scheduleKeeper /\ failed' = failed
    BY <1>2 DEF Schedule!Crash
  <2>2. policy \in Schedule!Policy /\ scheduleKeeper \in Schedule!Keeper /\ now \in Nat
    BY StateIs DEF ScheduleInv, ScheduleState
  <2>3. p \in Schedule!Policy /\ ~p.up
    <3>1. policy.default \in Defaults BY <2>2 DEF Schedule!Policy
    <3> QED BY <3>1, ConfiguredOK
  <2> HIDE DEF p
  <2>4. Schedule!Silence \in Schedule!Media BY DEF Schedule!Silence, Schedule!Media
  <2>5. new \in ScheduleState /\ ~new.policy.up BY <2>2, <2>3, <2>4 DEF ScheduleState
  <2>6. Schedule!State' = new BY <2>1 DEF Schedule!State
  <2>7. InTime(new, now') /\ HasList(new) BY <2>5 DEF InTime, HasList
  <2> HIDE DEF new
  <2> QED BY <2>1, <2>2, <2>3, <2>5, <2>6, <2>7 DEF ScheduleInv
<1> QED BY <1>1, <1>2, PolicyStarts, PlaylistIsSet, DefaultIsSet, AlarmRings, StreamEnds, TimeGoesOn
    DEF Schedule!Next

\* At first no policy is up.
LEMMA ScheduleInit == Schedule!Init => ScheduleInv
<1> SUFFICES ASSUME Schedule!Init PROVE ScheduleInv OBVIOUS
<1>1. PICK d \in Defaults :
        /\ policy = Schedule!Configured(d)
        /\ scheduleKeeper = [set |-> FALSE, specs |-> Schedule!NoSpecs, default |-> d,
                             current |-> Schedule!InvalidItemId]
  BY DEF Schedule!Init
<1>2. policy \in Schedule!Policy /\ ~policy.up BY <1>1, ConfiguredOK
<1>3. scheduleKeeper \in Schedule!Keeper
  <2>1. Schedule!NoSpecs \in Schedule!Specs BY DEF Schedule!NoSpecs, Schedule!Specs
  <2> QED BY <1>1, <2>1 DEF Schedule!Keeper
<1>4. now \in Nat /\ late = FALSE /\ player = Schedule!Silence /\ failed = {} /\ ClockOnly(failed)
  BY DayIsLong DEF Schedule!Init, ClockOnly
<1>5. Schedule!Silence \in Schedule!Media BY DEF Schedule!Silence, Schedule!Media
<1>6. Schedule!State \in ScheduleState BY <1>2, <1>3, <1>4, <1>5 DEF Schedule!State, ScheduleState
<1>7. InTime(Schedule!State, now) /\ HasList(Schedule!State) BY <1>2, StateIs DEF InTime, HasList
<1> QED BY <1>2, <1>4, <1>6, <1>7 DEF ScheduleInv

-----------------------------------------------------------------------------
(* What the properties say of a policy that keeps its invariant.           *)

\* What is due runs.
LEMMA DueRuns ==
  ASSUME NEW specs \in Schedule!Specs, NEW t \in Int, NEW id \in 1 .. Items, DueOf(specs, t) = id
  PROVE  Runs(specs, t, id)
<1> DEFINE best == Schedule!GetCurrentItemAtTime(specs, t)
<1>1. ChoiceOK(specs, t, Items, best) BY CurrentOK
<1>2. best.id = id BY ItemIsDue, ItemAtTime
<1> HIDE DEF best
<1>3. id # Schedule!InvalidItemId BY DEF Schedule!InvalidItemId
<1> QED BY <1>1, <1>2, <1>3 DEF ChoiceOK, IsLatest, IsNone

\* An item ends when it is over or interrupted, and not earlier.
LEMMA EndsRight == ASSUME ScheduleInv PROVE Schedule!EndsWhenInterrupted
<1> DEFINE specs == policy.specs
           item == Schedule!GetItemAtTime(specs, now)
           best == Schedule!GetCurrentItemAtTime(specs, now)
           f == Schedule!GetFutureBegin(specs, now)
           later == Schedule!Smaller(item.end, now + 2 * Day)
<1>1. specs \in Schedule!Specs /\ now \in Nat /\ now \in Int
  <2>1. policy \in Schedule!Policy /\ now \in Nat BY StateIs DEF ScheduleInv, ScheduleState
  <2> QED BY <2>1 DEF Schedule!Policy
<1>2. item.id = Schedule!Due(now) BY <1>1, ItemIsDue, DueIsOf
<1>3. ASSUME NEW t \in now .. (later - 1) PROVE Schedule!Due(t) = item.id
  <2>1. item.end \in Int BY <1>1, ItemAtTime DEF Choice
  <2>2. t \in Int /\ now <= t /\ t < item.end
    <3> HIDE DEF item
    <3>1. later \in Int /\ later <= item.end BY <1>1, <2>1, DayIsLong DEF Schedule!Smaller
    <3> HIDE DEF later
    <3> QED BY <1>1, <1>3, <2>1, <3>1
  <2>3. DueOf(specs, t) = DueOf(specs, now) BY <1>1, <2>2, DueStays
  <2> QED BY <1>2, <2>3, DueIsOf
<1>4. \/ item.end = now + Schedule!Far \/ Schedule!Due(item.end + 1) # item.id
      \/ \E id \in 1 .. Items : specs[id] # Schedule!NoItem /\ Schedule!Began(specs[id], item.end) = item.end
  <2>1. CASE \A j \in 1 .. Items : specs[j] = Schedule!NoItem
    <3>1. ChoiceOK(specs, now, Items, best) BY <1>1, CurrentOK
    <3>2. ~IsLatest(specs, now, Items, best) BY <2>1 DEF IsLatest, Runs
    <3>3. best.end = now + Schedule!Far BY <3>1, <3>2 DEF ChoiceOK, IsNone
    <3>4. f = now + Schedule!Far
      <4>1. Future(specs, now, f) BY <1>1, FutureOK
      <4> HIDE DEF f
      <4> QED BY <2>1, <4>1 DEF Future
    <3>5. item.end = Schedule!Smaller(best.end, f) BY <1>1, ItemAtTime
    <3> QED BY <3>3, <3>4, <3>5 DEF Schedule!Smaller
  <2>2. CASE \E j \in 1 .. Items : specs[j] # Schedule!NoItem
    <3>1. /\ Seconds(item.end)
          /\ \/ item.end = f
             \/ IsLatest(specs, now, Items, best) /\ item.end = best.end /\ item.end + 2 <= f
      BY <1>1, <2>2, EndCases
    <3>2. CASE item.end = f
      <4>1. PICK j \in 1 .. Items : /\ specs[j] # Schedule!NoItem
                                    /\ f = now + Schedule!NextFutureHappening(specs[j], now)
        <5>1. Future(specs, now, f) BY <1>1, FutureOK
        <5> HIDE DEF f
        <5> QED BY <2>2, <5>1 DEF Future
      <4>2. specs[j] \in Schedule!Item BY <1>1, <4>1, SpecTimes
      <4>3. Schedule!Began(specs[j], f) = f BY <1>1, <4>1, <4>2, AtNext
      <4> QED BY <3>2, <4>1, <4>3
    <3>3. CASE IsLatest(specs, now, Items, best) /\ item.end = best.end /\ item.end + 2 <= f
      <4> DEFINE c == best.id
                 at == item.end + 1
      <4>1. c \in 1 .. Items /\ Runs(specs, now, c) /\ best.end = Schedule!Ended(specs[c], now)
        BY <3>3 DEF IsLatest
      <4>2. specs[c] # Schedule!NoItem BY <4>1 DEF Runs
      <4>3. item.end \in Int /\ now <= item.end BY <1>1, ItemAtTime DEF Choice
      <4>4. f \in Int
        <5>1. Future(specs, now, f) BY <1>1, FutureOK
        <5> HIDE DEF f
        <5> QED BY <5>1 DEF Future
      <4>5. at \in Int /\ now <= at /\ at < f
        <5> HIDE DEF item, f
        <5> QED BY <1>1, <3>3, <4>3, <4>4
      <4>6. Schedule!Ended(specs[c], at) = item.end BY <1>1, <3>3, <4>1, <4>2, <4>5, TimesStay
      <4>7. ~Runs(specs, at, c)
        <5> HIDE DEF item, c
        <5> QED BY <4>3, <4>6 DEF Runs
      <4>8. DueOf(specs, at) # c BY <1>1, <4>1, <4>5, <4>7, DueRuns
      <4>9. item.id = c BY <1>1, ItemAtTime
      <4> QED BY <4>8, <4>9, DueIsOf
    <3> QED BY <3>1, <3>2, <3>3
  <2> QED BY <2>1, <2>2
<1> QED BY <1>2, <1>3, <1>4 DEF Schedule!EndsWhenInterrupted, Schedule!Error, Schedule!ItemIds

\* What is due plays, but for the tolerance.
LEMMA FollowsRight == ASSUME ScheduleInv PROVE Schedule!FollowsSchedule
<1> DEFINE specs == policy.specs
<1>1. specs \in Schedule!Specs /\ now \in Nat /\ now \in Int /\ policy.alarm \in Nat \cup {Schedule!Never}
  <2>1. policy \in Schedule!Policy /\ now \in Nat BY StateIs DEF ScheduleInv, ScheduleState
  <2> QED BY <2>1 DEF Schedule!Policy
<1> SUFFICES ASSUME policy.up, ~late,
                    \A t \in now - 2 .. now + 1 : Schedule!Due(t) = Schedule!Due(now)
             PROVE  Schedule!Due(now) \in {policy.current, Schedule!InvalidItemId}
  BY DEF Schedule!FollowsSchedule, Schedule!Error
<1>2. CASE specs = Schedule!NoSpecs
  <2>1. \A j \in 1 .. Items : ~Runs(specs, now, j)
    BY <1>2 DEF Runs, Schedule!NoSpecs, Schedule!ItemIds
  <2> QED BY <2>1, NoneIsDue, DueIsOf
<1>3. CASE specs # Schedule!NoSpecs
  <2>1. PlaysUntilAlarm(Schedule!State, now) /\ policy.alarm \in Nat
    BY <1>3, StateIs DEF ScheduleInv, InTime
  <2>2. PICK t \in Int :
          /\ t <= now + 1
          /\ DueOf(specs, t) \in {policy.current, Schedule!InvalidItemId}
          /\ policy.alarm <= Schedule!GetItemAtTime(specs, t).end
          /\ now <= policy.alarm + 1
    BY <2>1, StateIs DEF PlaysUntilAlarm
  <2> DEFINE end == Schedule!GetItemAtTime(specs, t).end
             u == IF t < now - 2 THEN now - 2 ELSE t
  <2>3. end \in Int BY <1>1, ItemAtTime DEF Choice
  <2> HIDE DEF end
  <2>4. u \in now - 2 .. now + 1 /\ t <= u /\ (u < end \/ u = t)
    <3>1. policy.alarm <= end BY <2>2 DEF end
    <3> QED BY <1>1, <2>1, <2>2, <2>3, <3>1
  <2> HIDE DEF u
  <2>5. u \in Int BY <1>1, <2>4
  <2>6. DueOf(specs, u) = DueOf(specs, t) BY <1>1, <2>4, <2>5, DueStays DEF end
  <2>7. Schedule!Due(u) = Schedule!Due(now) BY <2>4
  <2> QED BY <2>2, <2>6, <2>7, DueIsOf
<1> QED BY <1>2, <1>3

\* The invariant says the other two things itself.
LEMMA ScheduleSafe ==
  ASSUME ScheduleInv
  PROVE  /\ Schedule!TypeOK /\ Schedule!EndsWhenInterrupted /\ Schedule!FollowsSchedule
         /\ Schedule!NeverAsleep /\ Schedule!PlaylistIsDurable /\ Schedule!ChecksHold
<1>1. Schedule!TypeOK
  BY StateIs DEF ScheduleInv, ScheduleState, Schedule!TypeOK
<1>2. Schedule!NeverAsleep
  <2>1. InTime(Schedule!State, now) BY DEF ScheduleInv
  <2> QED BY <2>1, StateIs DEF InTime, Schedule!NeverAsleep, Schedule!Error, Schedule!Never
<1>3. Schedule!PlaylistIsDurable
  BY StateIs DEF ScheduleInv, HasList, Schedule!PlaylistIsDurable
<1>4. Schedule!ChecksHold BY DEF ScheduleInv, ClockOnly, Schedule!ChecksHold
<1> QED BY <1>1, <1>2, <1>3, <1>4, EndsRight, FollowsRight

\* The invariant of the policy while it is the one that is active.
ScheduleAlways == active = "schedule" => ScheduleInv

\* The policy keeps it in every behaviour.
LEMMA ScheduleGoesOn ==
  /\ Init => ScheduleAlways
  /\ ScheduleAlways /\ [Next]_vars => ScheduleAlways'
<1>1. Init => ScheduleAlways BY ScheduleInit DEF Init, ScheduleAlways
<1>2. ScheduleAlways /\ [Next]_vars => ScheduleAlways'
  BY ScheduleStep DEF Next, vars, ScheduleAlways
<1> QED BY <1>1, <1>2

\* The end that GetItemAtTime finds is that of the item, or the begin of the
\* next one that interrupts it: for any list of items, at any time, whatever
\* their times and lengths in whole seconds.
THEOREM EndsAtInterruption == Spec => []EndsWhenInterrupted
<1>1. ScheduleAlways => EndsWhenInterrupted BY ScheduleSafe DEF ScheduleAlways, EndsWhenInterrupted
<1> QED BY <1>1, ScheduleGoesOn, PTL DEF Spec

\* But for the tolerance, GoToNext and its alarms play the item that is due, in
\* whatever order alarms, ends of streams and RPCs come.
THEOREM PlaysWhatIsDue == Spec => []FollowsSchedule
<1>1. ScheduleAlways => FollowsSchedule BY ScheduleSafe DEF ScheduleAlways, FollowsSchedule
<1> QED BY <1>1, ScheduleGoesOn, PTL DEF Spec

\* There is always an alarm, soon enough for the end of what is due.
THEOREM AlarmIsSet == Spec => []NeverAsleep
<1>1. ScheduleAlways => NeverAsleep BY ScheduleSafe DEF ScheduleAlways, NeverAsleep
<1> QED BY <1>1, ScheduleGoesOn, PTL DEF Spec

\* With a default media, a restart finds the play list that is played.
THEOREM PlaylistIsSaved == Spec => []PlaylistIsDurable
<1>1. ScheduleAlways => PlaylistIsDurable BY ScheduleSafe DEF ScheduleAlways, PlaylistIsDurable
<1> QED BY <1>1, ScheduleGoesOn, PTL DEF Spec

\* The CHECK that the delay of the alarm is positive never fails; the one that
\* fails is that of a stream of unknown length which ends when it begins.
THEOREM DelayIsPositive == Spec => [](active = "schedule" => Schedule!ChecksHold)
<1>1. ScheduleAlways => (active = "schedule" => Schedule!ChecksHold) BY ScheduleSafe DEF ScheduleAlways
<1> QED BY <1>1, ScheduleGoesOn, PTL DEF Spec

-----------------------------------------------------------------------------
(* The types of all of them.                                               *)

\* Whatever the elements, policies and authorizers do, what their members hold is
\* of their types.
THEOREM Typed == Spec => []TypeOK
<1> DEFINE All == /\ OsdAlways /\ RemoteAlways /\ KeeperAlways /\ LogicAlways
                  /\ FlavAlways /\ AuthorizerInv /\ ScheduleAlways
<1>1. All => TypeOK
  <2> SUFFICES ASSUME All PROVE TypeOK OBVIOUS
  <2>1. active = "osd" => Osd!TypeOK BY OsdSafe DEF OsdAlways
  <2>2. active = "remote" => Remote!TypeOK BY RemoteSafe DEF RemoteAlways
  <2>3. active = "state keeper" => StateKeeper!TypeOK BY DEF KeeperAlways, KeeperInv
  <2>4. active = "logic" => Logic!TypeOK
    BY ElementsAssumption DEF LogicAlways, LogicInv, LogicTyped, Logic!TypeOK
  <2>5. active = "flavouring" => Flavour!TypeOK BY DEF FlavAlways, FlavInv, FlavOK, Flavour!TypeOK
  <2>6. active = "authorizer" => Authorizer!TypeOK
    BY SameAuthorizer DEF AuthorizerInv, A!AnswersInv
  <2>7. active = "schedule" => Schedule!TypeOK BY ScheduleSafe DEF ScheduleAlways
  <2> QED BY <2>1, <2>2, <2>3, <2>4, <2>5, <2>6, <2>7 DEF TypeOK
<1> QED
  BY <1>1, OsdGoesOn, RemoteGoesOn, KeeperGoesOn, LogicGoesOn, FlavGoesOn, AuthorizerGoesOn,
     ScheduleGoesOn, PTL DEF Spec
=============================================================================
