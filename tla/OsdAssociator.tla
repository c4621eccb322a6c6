---------------------------- MODULE OsdAssociator ----------------------------
(***************************************************************************)
(* osd/osd_library/osd_associator: OsdAssociatorElement, which knows the   *)
(* OSDs of every media and adds to the tags of each client those of the    *)
(* media that it plays.  Overlays stand for crawlers, too: both have types *)
(* that are created and destroyed, and contents per media, kept by code of *)
(* the same shape.                                                         *)
(*                                                                         *)
(* One selector thread: the RPCs, and the tags of the clients, interleave. *)
(***************************************************************************)
EXTENDS Integers, FiniteSets

CONSTANTS
  Ids,          \* overlay ids
  Styles,       \* the parameters of an overlay type
  Medias,       \* the paths of medias, as users and sources write them
  NormalizePath, \* strutil::NormalizePath of each, "a//b" is "a/b"
  Clients,
  Objects,      \* addresses of ClipOsds objects
  FullStates    \* what users give to SetFullState: see FullState

VARIABLES
  elem,         \* the element: see Element
  disk,         \* the "o-" and "a-" values of its state keeper
  clients,      \* the clients: see Client
  dropped       \* history: overlays removed from a clip since it was set

osdVars == <<elem, disk, clients, dropped>>

None == "none"
NULL == "NULL"
Absent == "absent"

\* A ClipOsds: the overlays of a media, and eos_clear_overlays_.  There may be
\* none.
Clip == [has : SUBSET Ids, clear : BOOLEAN]
NoClip == [has |-> {}, clear |-> FALSE, deleted |-> TRUE]

Element == [types : [Ids -> Styles \cup {None}],         \* overlay_types_
            osds  : [Medias -> Objects \cup {NULL}],     \* associated_osds_
            heap  : [Objects -> Clip \cup {NoClip}],
            users : [Medias -> SUBSET Clients]]          \* active_requests_

\* What a run of tags does to an overlay: it leaves it in a style, without
\* one, or as it was.  pending_osd_tags_ is known by what it does.
Same == "same"
Effect == [Ids -> Styles \cup {None, Same}]

\* An OsdAssocCallbackData, and what its client shows.  The rest is history:
\* did it play two media at once; at EOS, which overlays did the clips want to
\* stay, or were still to begin.
Client == [state   : {"closed", "open", "eos"},
           assoc   : [Medias -> Objects \cup {NULL, Absent}],   \* assoc_paths_
           pending : Effect,
           shown   : [Ids -> Styles \cup {None}],
           overlap : BOOLEAN,
           stays   : SUBSET Ids]

Nothing == [id \in Ids |-> Same]
NewClient == [state |-> "closed", assoc |-> [m \in Medias |-> Absent], pending |-> Nothing,
              shown |-> [id \in Ids |-> None], overlap |-> FALSE, stays |-> {}]

Init ==
  /\ elem = [types |-> [id \in Ids |-> None], osds |-> [m \in Medias |-> NULL],
             heap |-> [o \in Objects |-> NoClip], users |-> [m \in Medias |-> {}]]
  /\ disk = [types |-> [id \in Ids |-> None], osds |-> [m \in Medias |-> NoClip]]
  /\ clients = [c \in Clients |-> NewClient]
  /\ dropped = [m \in Medias |-> {}]

-----------------------------------------------------------------------------
(* Effects of tags.                                                        *)

Then(first, second) ==
  [id \in Ids |-> IF second[id] = Same THEN first[id] ELSE second[id]]

Shows(e, o, id) == id \in e.heap[o].has /\ e.types[id] # None

\* GetBeginOsdTags and GetEndOsdTags of the object at o; without a type there
\* is no tag.
BeginTags(e, o) == [id \in Ids |-> IF Shows(e, o, id) THEN e.types[id] ELSE Same]

\* Deviation: the flag is read the wrong way round.
EndTags_Unless(e, o, always) ==
  [id \in Ids |-> IF Shows(e, o, id) /\ (~e.heap[o].clear \/ always) THEN None ELSE Same]

EndTags(e, o, always) ==
  [id \in Ids |-> IF Shows(e, o, id) /\ (e.heap[o].clear \/ always) THEN None ELSE Same]

\* ChangeOsds of a client's data.
ChangeOsds(e, data, m, new) ==
  LET old == data.assoc[m]
      ended == IF old \notin {Absent, NULL, new} THEN EndTags(e, old, TRUE) ELSE Nothing
      begun == IF new # NULL THEN BeginTags(e, new) ELSE Nothing
  IN  [data EXCEPT !.assoc[m] = new, !.pending = Then(Then(@, ended), begun)]

\* A tag for all clients that play a media of the set M.
Push(e, cs, M, effect) ==
  [c \in Clients |-> IF \E m \in M : c \in e.users[m]
                     THEN [cs[c] EXCEPT !.pending = Then(@, effect)] ELSE cs[c]]

-----------------------------------------------------------------------------
(* The operations, on a state of the element: what it knows, what is on    *)
(* disk, and its clients.                                                  *)

State == [elem |-> elem, disk |-> disk, clients |-> clients, dropped |-> dropped]

Only(id, effect) == [Nothing EXCEPT ![id] = effect]
Update(st, m, new) ==
  [c \in Clients |-> IF c \in st.elem.users[m]
                     THEN ChangeOsds(st.elem, st.clients[c], m, new) ELSE st.clients[c]]

\* Deviation: the new clip is not saved.
SetAssociatedOsds_Unsaved(st, path, clip) ==
  LET m == NormalizePath[path]
      new == CHOOSE o \in Objects : st.elem.heap[o] = NoClip
      old == st.elem.osds[m]
      born == [st EXCEPT !.elem.heap[new] = clip]
  IN  [elem |-> [born.elem EXCEPT !.osds[m] = new, !.heap =
                   [o \in Objects |-> IF o = old THEN NoClip ELSE @[o]]],
       disk |-> st.disk,
       clients |-> Update(born, m, new), dropped |-> [st.dropped EXCEPT ![m] = {}]]

\* The new clip takes the place of the old one, in the clients too; then the
\* old one is deleted, and the new one saved.  It is the only operation that
\* normalizes the path.
SetAssociatedOsds(st, path, clip) ==
  LET m == NormalizePath[path]
      new == CHOOSE o \in Objects : st.elem.heap[o] = NoClip
      old == st.elem.osds[m]
      born == [st EXCEPT !.elem.heap[new] = clip]
  IN  [elem |-> [born.elem EXCEPT !.osds[m] = new, !.heap =
                   [o \in Objects |-> IF o = old THEN NoClip ELSE @[o]]],
       disk |-> [st.disk EXCEPT !.osds[m] = clip],
       clients |-> Update(born, m, new), dropped |-> [st.dropped EXCEPT ![m] = {}]]

\* Deviation: the clients are not told.
DeleteAssociatedOsds_Silent(st, m) ==
  IF st.elem.osds[m] = NULL THEN st
  ELSE [st EXCEPT !.elem.osds[m] = NULL, !.elem.heap[st.elem.osds[m]] = NoClip,
                  !.disk.osds[m] = NoClip, !.dropped[m] = {}]

DeleteAssociatedOsds(st, m) ==
  IF st.elem.osds[m] = NULL THEN st
  ELSE [st EXCEPT !.clients = Update(st, m, NULL), !.dropped[m] = {},
                  !.elem = [@ EXCEPT !.osds[m] = NULL, !.heap[st.elem.osds[m]] = NoClip],
                  !.disk.osds[m] = NoClip]

Having(e, id) == {m \in Medias : e.osds[m] # NULL /\ id \in e.heap[e.osds[m]].has}

CreateOverlayType(st, id, style) ==
  [st EXCEPT !.elem.types[id] = style, !.disk.types[id] = style,
             !.clients = Push(st.elem, @, Having(st.elem, id), Only(id, style))]

\* Deviation: the clients keep what they show.
DestroyOverlayType_Silent(st, id) ==
  [st EXCEPT !.elem.types[id] = None, !.disk.types[id] = None]

Without(clip, id) == IF clip = NoClip THEN NoClip ELSE [clip EXCEPT !.has = @ \ {id}]

\* It also removes the overlay from every clip, in memory only.
DestroyOverlayType(st, id) ==
  IF st.elem.types[id] = None THEN st
  ELSE [st EXCEPT
          !.elem = [@ EXCEPT !.types[id] = None,
                             !.heap = [o \in Objects |-> Without(st.elem.heap[o], id)]],
          !.disk = [@ EXCEPT !.types[id] = None],
          !.clients = Push(st.elem, @, Having(st.elem, id), Only(id, None)),
          !.dropped = [m \in Medias |-> IF m \in Having(st.elem, id)
                                        THEN @[m] \cup {id} ELSE @[m]]]

-----------------------------------------------------------------------------
(* GetFullState and SetFullState.                                          *)

FullState == [types : [Ids -> Styles \cup {None}], osds : [Medias -> Clip \cup {NoClip}]]

ClipOf(e, m) == IF e.osds[m] = NULL THEN NoClip ELSE e.heap[e.osds[m]]
GetFullState(e) == [types |-> e.types, osds |-> [m \in Medias |-> ClipOf(e, m)]]

\* 'Do' for every element of a set.  The order is some one: that of the names
\* matters only for two paths of one media.
ForAll(S, st, Do(_, _)) ==
  LET f[T \in SUBSET S] == IF T = {} THEN st
                           ELSE LET x == CHOOSE x \in T : TRUE IN Do(f[T \ {x}], x)
  IN  f[S]

\* Deviation: what is gone is deleted after the rest.
SetFullState_DeletesLast(st, full) ==
  LET gone == {m \in Medias : full.osds[m] = NoClip}
      unused == {id \in Ids : full.types[id] = None}
      types == {id \in Ids : full.types[id] \notin {None, st.elem.types[id]}}
      osds == {m \in Medias : full.osds[m] \notin {NoClip, ClipOf(st.elem, m)}}
      Create(s, id) == CreateOverlayType(s, id, full.types[id])
      Set(s, m) == SetAssociatedOsds(s, m, full.osds[m])
  IN  ForAll(gone, ForAll(osds, ForAll(types, ForAll(unused, st,
             DestroyOverlayType), Create), Set), DeleteAssociatedOsds)

\* The differences are computed first, of paths as they are written, then
\* applied: clips and types that are gone, then types and clips that are new or
\* changed.
SetFullState(st, full) ==
  LET gone == {m \in Medias : full.osds[m] = NoClip}
      unused == {id \in Ids : full.types[id] = None}
      types == {id \in Ids : full.types[id] \notin {None, st.elem.types[id]}}
      osds == {m \in Medias : full.osds[m] \notin {NoClip, ClipOf(st.elem, m)}}
      Create(s, id) == CreateOverlayType(s, id, full.types[id])
      Set(s, m) == SetAssociatedOsds(s, m, full.osds[m])
  IN  ForAll(osds, ForAll(types, ForAll(unused, ForAll(gone, st,
             DeleteAssociatedOsds), DestroyOverlayType), Create), Set)

-----------------------------------------------------------------------------
Becomes(st) ==
  /\ elem' = st.elem
  /\ disk' = st.disk
  /\ clients' = st.clients
  /\ dropped' = st.dropped

RpcStep ==
  \/ \E m \in Medias, clip \in Clip : Becomes(SetAssociatedOsds(State, m, clip))
  \/ \E m \in Medias : Becomes(DeleteAssociatedOsds(State, m))
  \/ \E id \in Ids, style \in Styles : Becomes(CreateOverlayType(State, id, style))
  \/ \E id \in Ids : Becomes(DestroyOverlayType(State, id))
  \/ \E full \in FullStates : Becomes(SetFullState(State, full))

Becoming(c, data) == clients' = [clients EXCEPT ![c] = data]

CreateCallbackData(c) ==
  /\ clients[c].state # "open"
  /\ Becoming(c, [NewClient EXCEPT !.state = "open"])
  /\ UNCHANGED <<elem, disk, dropped>>

\* FilterTag of a SOURCE_STARTED tag.
SourceStarted(c, m) ==
  /\ clients[c].state = "open"
  /\ clients[c].assoc[m] \in {Absent, NULL}
  /\ elem' = [elem EXCEPT !.users[m] = @ \cup {c}]
  /\ Becoming(c, [ChangeOsds(elem, clients[c], m, elem.osds[m]) EXCEPT
                    !.overlap = @ \/ \E n \in Medias \ {m} : c \in elem.users[n]])
  /\ UNCHANGED <<disk, dropped>>

SourceEnded(c, m) ==
  /\ clients[c].state = "open"
  /\ elem' = [elem EXCEPT !.users[m] = @ \ {c}]
  /\ Becoming(c, ChangeOsds(elem, clients[c], m, NULL))
  /\ UNCHANGED <<disk, dropped>>

Displayed(data, effect) == [data EXCEPT !.pending = Nothing, !.shown = Then(@, effect)]

VideoTag(c) ==
  /\ clients[c].state = "open"
  /\ Becoming(c, Displayed(clients[c], clients[c].pending))
  /\ UNCHANGED <<elem, disk, dropped>>

Leaves(c) == elem' = [elem EXCEPT !.users = [m \in Medias |-> @[m] \ {c}]]

\* EOS: the tags that end the clips are put before the pending ones.
EosTag(c) ==
  /\ clients[c].state = "open"
  /\ LET data == clients[c]
         playing == {m \in Medias : data.assoc[m] \notin {Absent, NULL}}
         End(effect, m) == Then(effect, EndTags(elem, data.assoc[m], FALSE))
         ended == ForAll(playing, Nothing, End)
     IN  Becoming(c, [Displayed(data, Then(ended, data.pending)) EXCEPT
           !.state = "eos",
           !.assoc = [m \in Medias |-> Absent],
           !.stays = {id \in Ids :
             \/ data.pending[id] \in Styles
             \/ \E m \in playing : id \in elem.heap[data.assoc[m]].has
                                   /\ ~elem.heap[data.assoc[m]].clear}])
  /\ Leaves(c)
  /\ UNCHANGED <<disk, dropped>>

\* The client leaves without an EOS.
DeleteCallbackData(c) ==
  /\ clients[c].state # "closed"
  /\ Becoming(c, NewClient)
  /\ Leaves(c)
  /\ UNCHANGED <<disk, dropped>>

\* The server ends, regularly or not (GetOverlayType and GetCrawlerType of an
\* unknown id use end() of the map), and loads its state again.
Restart ==
  LET at == CHOOSE f \in [Medias -> Objects] : \A a, b \in Medias : f[a] = f[b] => a = b
      known == {m \in Medias : disk.osds[m] # NoClip}
  IN  /\ elem' = [types |-> disk.types,
                  osds |-> [m \in Medias |-> IF m \in known THEN at[m] ELSE NULL],
                  heap |-> [o \in Objects |-> IF \E m \in known : at[m] = o
                              THEN disk.osds[CHOOSE m \in known : at[m] = o] ELSE NoClip],
                  users |-> [m \in Medias |-> {}]]
      /\ clients' = [c \in Clients |-> NewClient]
      /\ dropped' = [m \in Medias |-> {}]
      /\ UNCHANGED disk

ClientStep(c) ==
  \/ CreateCallbackData(c) \/ VideoTag(c) \/ EosTag(c) \/ DeleteCallbackData(c)
  \/ \E m \in Medias : SourceStarted(c, m) \/ SourceEnded(c, m)

Next == RpcStep \/ Restart \/ \E c \in Clients : ClientStep(c)

Spec == Init /\ [][Next]_osdVars

-----------------------------------------------------------------------------
TypeOK ==
  /\ elem \in Element
  /\ disk \in FullState
  /\ clients \in [Clients -> Client]
  /\ dropped \in [Medias -> SUBSET Ids]

\* "Do not delete ClipOsds* ! master_->associated_osds_ owns them"
\* (osd_associator_element.cc:126): however clips are replaced, deleted and
\* loaded while clients play, no client holds one that was deleted.
NoDanglingClip ==
  \A c \in Clients : \A m \in Medias :
    clients[c].assoc[m] \in {Absent, NULL} \/ clients[c].assoc[m] = elem.osds[m]

\* A client that plays one media at a time shows, as soon as it has got the
\* tags that wait for it, the overlays of that media which have a type, in the
\* style of the type: whatever was set, deleted, created and destroyed
\* meanwhile, and in any order.
ShownIsAssociated ==
  \A c \in Clients :
    (clients[c].state = "open" /\ ~clients[c].overlap) =>
      \A id \in Ids :
        Then(clients[c].shown, clients[c].pending)[id] =
          IF \E m \in Medias : c \in elem.users[m] /\ m \in Having(elem, id)
          THEN elem.types[id] ELSE None

\* The paths that a state gives clips to are those of different medias, and the
\* overlays of the clips have types.
Consistent(full) ==
  LET given == {m \in Medias : full.osds[m] # NoClip}
  IN  /\ \A m, n \in given : NormalizePath[m] = NormalizePath[n] => m = n
      /\ \A m \in given : \A id \in full.osds[m].has : full.types[id] # None

\* The same state, with each clip at the normal path of its media.
Normalized(full) ==
  [full EXCEPT !.osds = [n \in Medias |->
     LET from == {m \in Medias : full.osds[m] # NoClip /\ NormalizePath[m] = n}
     IN  IF from = {} THEN NoClip ELSE full.osds[CHOOSE m \in from : TRUE]]]

\* SetFullState sets, from any state, what GetFullState then returns: the state
\* it was given, but with normal paths.  It compares the paths that the user
\* wrote, which may be like "s3_2_ts//s3_2_files/a.flv"
\* (osd_associator_element.cc:409), with normal ones, so that the clip of such a
\* media is deleted and set again; yet nothing is left of the old state, and
\* nothing of the new one is missing.
SetFullStateIsExact ==
  \A full \in FullStates :
    Consistent(full) => GetFullState(SetFullState(State, full).elem) = Normalized(full)

\* A restart finds what was set: only overlays that were removed together with
\* their type come back.
AssociationsAreDurable ==
  /\ disk.types = elem.types
  /\ \A m \in Medias :
       IF elem.osds[m] = NULL THEN disk.osds[m] = NoClip
       ELSE disk.osds[m] = [ClipOf(elem, m) EXCEPT !.has = @ \cup dropped[m]]

\* FilterTag at EOS: what a client shows after it are overlays that a clip it
\* was playing wants to stay, and those whose tags were still pending, which
\* come after the ones that end the clips (osd_associator_element.cc:183-203).
\* Nothing else is left, whatever was set, deleted, created and destroyed while
\* the client played: neither an overlay of an earlier clip or media nor one
\* whose end was pending.
EosClears ==
  \A c \in Clients :
    (clients[c].state = "eos" /\ ~clients[c].overlap) =>
      \A id \in Ids : clients[c].shown[id] # None => id \in clients[c].stays
=============================================================================
