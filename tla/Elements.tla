-------------------------------- MODULE Elements --------------------------------
(***************************************************************************)
(* The elements, policies and authorizers that a media server may have,    *)
(* side by side.  They share no state, and none calls another one, so      *)
(* their interleavings say no more than the behaviours of each: in a       *)
(* behaviour one of them is active and the others stay as they began.      *)
(***************************************************************************)
EXTENDS Integers, FiniteSets

CONSTANTS
  OsdIds, Styles, OsdMedias, NormalizePath, OsdClients, OsdObjects, FullStates,  \* OsdAssociator
  Items, Day, Second, MinEosInterval, MinEosRetry, UndefinedDuration,
  Offsets, Durations, Defaults, MaxTime, MaxSets,                    \* SchedulePolicy
  Completions, MaxRequests,                                          \* HttpAuthorizer
  Bits, FlavourClients, FlavourObjects, Configurations,              \* Flavouring
  KeeperIds, KeeperItems, Values, KeeperClients,                     \* OsdStateKeeper
  RemoteIds, RemoteMedias, Addresses, Above,                         \* OsdAssociatorClient
  StateNames, LogicStates, LogicObjects, MaxCount                    \* LogicPolicy

VARIABLES
  active,
  elem, disk, clients, dropped,                                \* OsdAssociator
  now, policy, player, scheduleKeeper, late, failed, sets,     \* SchedulePolicy
  actives, requests, waiting, answers, asked,                  \* HttpAuthorizer
  configured, flavouring, flavKeeper,                          \* Flavouring
  osdKeeper, kept, views, missed,                              \* OsdStateKeeper
  servers, saved, cache, known, heap, calls, misled,           \* OsdAssociatorClient
  logic, logicFailed                                           \* LogicPolicy

osdVars == <<elem, disk, clients, dropped>>
scheduleVars == <<now, policy, player, scheduleKeeper, late, failed, sets>>
authVars == <<actives, requests, waiting, answers, asked>>
flavVars == <<configured, flavouring, flavKeeper>>
keeperVars == <<osdKeeper, kept, views, missed>>
remoteVars == <<servers, saved, cache, known, heap, calls, misled>>
logicVars == <<logic, logicFailed>>

Osd == INSTANCE OsdAssociator WITH
  Ids <- OsdIds, Medias <- OsdMedias, Clients <- OsdClients, Objects <- OsdObjects

Schedule == INSTANCE SchedulePolicy WITH keeper <- scheduleKeeper

Authorizer == INSTANCE HttpAuthorizer WITH active <- actives

Flavour == INSTANCE Flavouring WITH Clients <- FlavourClients, Objects <- FlavourObjects

StateKeeper == INSTANCE OsdStateKeeper WITH
  Ids <- KeeperIds, ItemIds <- KeeperItems, Clients <- KeeperClients, keeper <- osdKeeper

Remote == INSTANCE OsdAssociatorClient WITH Ids <- RemoteIds, Medias <- RemoteMedias

Logic == INSTANCE LogicPolicy WITH Names <- StateNames, Objects <- LogicObjects

ASSUME ElementsAssumption ==
  /\ {"none", "same"} \cap Styles = {} /\ {"NULL", "absent"} \cap OsdObjects = {}
  /\ IsFiniteSet(OsdIds) /\ IsFiniteSet(OsdMedias) /\ IsFiniteSet(OsdObjects)
  /\ Cardinality(OsdObjects) > Cardinality(OsdMedias)
  /\ FullStates \subseteq Osd!FullState
  /\ NormalizePath \in [OsdMedias -> OsdMedias]
  /\ \A m \in OsdMedias : NormalizePath[NormalizePath[m]] = NormalizePath[m]
  /\ Items \in Nat /\ Second \in Nat \ {0, 1}
  /\ Day \in Nat \ {0} /\ Day % Second = 0
  /\ UndefinedDuration \in Nat \ {0} /\ UndefinedDuration % Second = 0
  /\ Offsets \subseteq Nat /\ Durations \subseteq Nat /\ MinEosRetry \in Nat
  /\ MaxRequests \in Nat
  /\ Above \in [RemoteMedias -> SUBSET RemoteMedias]
  /\ \A m \in RemoteMedias : \A found \in SUBSET Above[m] :
       found # {} => \E n \in found : found \subseteq Above[n]
  /\ "none" \notin RemoteMedias
  /\ Bits # {} /\ IsFiniteSet(Bits) /\ IsFiniteSet(FlavourObjects)
  /\ Cardinality(FlavourObjects) >= Cardinality(Bits) /\ "NULL" \notin FlavourObjects
  /\ \A c \in Configurations :
       c \subseteq Flavour!Masks /\ \A m, n \in c : m # n => m \cap n = {}
  /\ MaxCount \in Nat \ {0}
  /\ LogicStates \subseteq Logic!LogicState
  /\ IsFiniteSet(StateNames) /\ IsFiniteSet(LogicObjects)
  /\ Cardinality(LogicObjects) >= 2 * Cardinality(StateNames)

Init ==
  /\ active \in {"osd", "schedule", "authorizer", "flavouring", "state keeper", "remote", "logic"}
  /\ Osd!Init /\ Schedule!Init /\ Authorizer!Init
  /\ Flavour!Init /\ StateKeeper!Init /\ Remote!Init /\ Logic!Init
  /\ active # "schedule" => policy.default = CHOOSE d \in Defaults : TRUE
  /\ active # "flavouring" => configured = CHOOSE c \in Configurations : TRUE

Next ==
  /\ UNCHANGED active
  /\ \/ active = "osd" /\ Osd!Next
     \/ active # "osd" /\ UNCHANGED osdVars
  /\ \/ active = "schedule" /\ Schedule!Next
     \/ active # "schedule" /\ UNCHANGED scheduleVars
  /\ \/ active = "authorizer" /\ Authorizer!Next
     \/ active # "authorizer" /\ UNCHANGED authVars
  /\ \/ active = "flavouring" /\ Flavour!Next
     \/ active # "flavouring" /\ UNCHANGED flavVars
  /\ \/ active = "state keeper" /\ StateKeeper!Next
     \/ active # "state keeper" /\ UNCHANGED keeperVars
  /\ \/ active = "remote" /\ Remote!Next
     \/ active # "remote" /\ UNCHANGED remoteVars
  /\ \/ active = "logic" /\ Logic!Next
     \/ active # "logic" /\ UNCHANGED logicVars

vars == <<active, osdVars, scheduleVars, authVars, flavVars, keeperVars, remoteVars, logicVars>>

Spec == Init /\ [][Next]_vars

-----------------------------------------------------------------------------
(* The properties of each; the modules say what they mean.                 *)

\* The state of every one is well typed.
TypeOK ==
  /\ active = "osd" => Osd!TypeOK
  /\ active = "schedule" => Schedule!TypeOK
  /\ active = "authorizer" => Authorizer!TypeOK
  /\ active = "flavouring" => Flavour!TypeOK
  /\ active = "state keeper" => StateKeeper!TypeOK
  /\ active = "remote" => Remote!TypeOK
  /\ active = "logic" => Logic!TypeOK

\* OsdAssociator: no client holds a ClipOsds that was deleted.
NoDanglingClip == active = "osd" => Osd!NoDanglingClip

\* OsdAssociator: a client shows the overlays of the media it plays;
\* OsdAssociatorClient: those that were last set from an answer or the cache.
ShownIsAssociated ==
  /\ active = "osd" => Osd!ShownIsAssociated
  /\ active = "remote" => Remote!ShownIsSet

\* OsdAssociator: SetFullState sets what GetFullState returns, but for the way
\* that paths are written.  What it makes
\* of the element does not depend on the clients: it is evaluated without any.
SetFullStateIsExact ==
  (active = "osd" /\ \A c \in DOMAIN clients : clients[c].state = "closed")
    => Osd!SetFullStateIsExact

\* OsdAssociator: a restart finds what was set.
AssociationsAreDurable == active = "osd" => Osd!AssociationsAreDurable

\* OsdAssociator: after EOS only overlays are shown that are to stay, or whose
\* tags were pending.
EosClears == active = "osd" => Osd!EosClears

\* SchedulePolicy: an item ends when it is interrupted, and not earlier.
EndsWhenInterrupted == active = "schedule" => Schedule!EndsWhenInterrupted

\* SchedulePolicy: what is due is played.
FollowsSchedule == active = "schedule" => Schedule!FollowsSchedule

\* SchedulePolicy: there is always an alarm in time.
NeverAsleep == active = "schedule" => Schedule!NeverAsleep

\* SchedulePolicy: a restart finds the play list.
PlaylistIsDurable == active = "schedule" => Schedule!PlaylistIsDurable

\* HttpAuthorizer: one answer for each authorization that was not cancelled.
OneAnswerEach == active = "authorizer" => Authorizer!OneAnswerEach

\* Flavouring: clients, flavours and upstream requests agree.
RegistrationsMatch == active = "flavouring" => Flavour!RegistrationsMatch

\* Flavouring: Close is over when the last client is gone.
CloseIsNotStuck == active = "flavouring" => Flavour!CloseIsNotStuck

\* OsdStateKeeper: a late client shows what the others do.
LateClientsCatchUp == active = "state keeper" => StateKeeper!LateClientsCatchUp

\* LogicPolicy: the current state is not deleted, and its timeout waits.
CurrentStateIsLive == active = "logic" => Logic!CurrentStateIsLive
=============================================================================
