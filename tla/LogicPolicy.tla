----------------------------- MODULE LogicPolicy -----------------------------
(***************************************************************************)
(* extra_library/logic_policy: LogicPlaylistPolicy, a state machine that   *)
(* users give as a play list: each state names a media, and says to which  *)
(* state tags, the end of the media and a timeout lead.  Play lists are    *)
(* set while the machine runs, its current state among them or not.        *)
(*                                                                         *)
(* One selector thread: tags, the timeout and RPCs interleave.             *)
(***************************************************************************)
EXTENDS Integers, FiniteSets

CONSTANTS
  Names,             \* of states
  LogicStates,       \* what states users write: see LogicState
  Objects,           \* addresses of LogicState objects
  MaxCount           \* the largest number of tags that an action counts

VARIABLES
  logic,             \* the policy object: see Policy
  logicFailed        \* history: the program used end() of a map

logicVars == <<logic, logicFailed>>

None == "none"
NULL == "NULL"
Keys == {"eos", "tag"}

\* An action leads to a state after so many tags of its key.
Action == [to : Names, num : 1 .. MaxCount]
NoAction == [to |-> None, num |-> 1]

LogicState == [media : BOOLEAN, actions : [Keys -> Action \cup {NoAction}],
               limited : BOOLEAN, timeoutTo : Names \cup {None}]
NoState == [media |-> FALSE, actions |-> [k \in Keys |-> NoAction],
            limited |-> FALSE, timeoutTo |-> "deleted"]

\* crt is crt_state_, name crt_state_name_, actions and counts crt_action_map_.
Policy == [up      : BOOLEAN,
           states  : [Names -> Objects \cup {NULL}],
           heap    : [Objects -> LogicStates \cup {NoState}],
           default : Names \cup {None},
           name    : Names \cup {None},
           crt     : Objects \cup {NULL},
           actions : [Keys -> Action \cup {NoAction}],
           counts  : [Keys -> 0 .. MaxCount],
           alarm   : BOOLEAN,
           playing : Names \cup {None}]

Down == [up |-> FALSE, states |-> [n \in Names |-> NULL], heap |-> [o \in Objects |-> NoState],
         default |-> None, name |-> None, crt |-> NULL,
         actions |-> [k \in Keys |-> NoAction], counts |-> [k \in Keys |-> 0],
         alarm |-> FALSE, playing |-> None]

Playlists == [default : Names, states : [Names -> LogicStates \cup {NoState}]]

Init == logic = Down /\ logicFailed = FALSE

-----------------------------------------------------------------------------
(* The operations, on a policy object.                                     *)

\* Deviation: a timeout that waits is only replaced.
SwitchToState_LeavesAlarm(p, name) ==
  LET found == {n \in {name, p.default} \ {None} : p.states[n] # NULL}
      to == IF name \in found THEN name ELSE p.default
      object == p.states[to]
      state == p.heap[object]
  IN  IF found = {} THEN [p EXCEPT !.alarm = FALSE]
      ELSE [p EXCEPT !.name = to, !.crt = object, !.actions = state.actions,
                     !.counts = [k \in Keys |-> 0], !.alarm = @ \/ state.limited,
                     !.playing = IF state.media THEN to ELSE @]

\* To a state, or else to the default state; without either the policy stays
\* where it is, but forgets its timeout.
SwitchToState(p, name) ==
  LET found == {n \in {name, p.default} \ {None} : p.states[n] # NULL}
      to == IF name \in found THEN name ELSE p.default
      object == p.states[to]
      state == p.heap[object]
  IN  IF found = {} THEN [p EXCEPT !.alarm = FALSE]
      ELSE [p EXCEPT !.name = to, !.crt = object, !.actions = state.actions,
                     !.counts = [k \in Keys |-> 0], !.alarm = state.limited,
                     !.playing = IF state.media THEN to ELSE @]

\* The states of a new play list take the place of the old ones; a state that
\* is the same stays the object it was.
Replaced(p, list) ==
  LET kept == {n \in Names : p.states[n] # NULL /\ p.heap[p.states[n]] = list.states[n]}
      new == {n \in Names \ kept : list.states[n] # NoState}
      free == Objects \ {p.states[n] : n \in Names}
      at == CHOOSE f \in [new -> free] : \A m, n \in new : f[m] = f[n] => m = n
  IN  [p EXCEPT
         !.states = [n \in Names |-> IF n \in kept THEN @[n] ELSE IF n \in new THEN at[n] ELSE NULL],
         !.heap = [o \in Objects |-> IF \E n \in kept : p.states[n] = o THEN @[o]
                                     ELSE IF \E n \in new : at[n] = o
                                     THEN list.states[CHOOSE n \in new : at[n] = o]
                                     ELSE NoState],
         !.default = list.default]

\* The current state is forgotten if it is changed, or not in the play list:
\* then end() of a map is used to find that out.
SetPlaylist(p, list) ==
  LET changed == p.crt # NULL /\ list.states[p.name] # p.heap[p.crt]
  IN  SwitchToState([Replaced(p, list) EXCEPT !.crt = IF changed THEN NULL ELSE @], p.name)

\* A tag that is an action of the current state.
Counted(p, key) ==
  LET count == IF p.counts[key] < MaxCount THEN p.counts[key] + 1 ELSE MaxCount
      counted == [p EXCEPT !.counts[key] = count]
  IN  IF count >= p.actions[key].num THEN SwitchToState(counted, p.actions[key].to) ELSE counted

-----------------------------------------------------------------------------
\* The constructor sets the play list of the configuration, and Initialize goes
\* to the default state once more: nothing calls SaveState, so LoadState finds
\* no state and clears the name of the current one.
Start ==
  /\ ~logic.up
  /\ \E list \in Playlists :
       LET made == SetPlaylist([Down EXCEPT !.up = TRUE], list)
           initialized == SwitchToState([made EXCEPT !.name = None], None)
       IN  logic' = IF initialized.crt = NULL THEN Down ELSE initialized
  /\ UNCHANGED logicFailed

Stop ==
  /\ logic.up
  /\ logic' = Down
  /\ UNCHANGED logicFailed

\* Clears everything, and loads what nobody saved.
Refresh ==
  /\ logic.up
  /\ logic' = [Down EXCEPT !.up = TRUE, !.playing = logic.playing]
  /\ UNCHANGED logicFailed

\* Without the current state in the play list the program may end.
RpcSetPlaylist ==
  /\ logic.up
  /\ \E list \in Playlists :
       \/ /\ logic' = SetPlaylist(logic, list)
          /\ UNCHANGED logicFailed
       \/ /\ logic.crt # NULL /\ list.states[logic.name] = NoState
          /\ logic' = Down
          /\ logicFailed' = TRUE

RpcSetCurrentState ==
  /\ logic.up
  /\ \E name \in Names : logic' = SwitchToState(logic, name)
  /\ UNCHANGED logicFailed

Reset ==
  /\ logic.up
  /\ logic' = SwitchToState(logic, logic.default)
  /\ UNCHANGED logicFailed

\* The media has ended.
NotifyEos ==
  /\ logic.up /\ logic.playing # None
  /\ LET ended == [logic EXCEPT !.playing = None]
     IN  logic' = IF logic.actions["eos"] # NoAction THEN Counted(ended, "eos")
                  ELSE IF logic.default # None THEN SwitchToState(ended, logic.default)
                  ELSE ended
  /\ UNCHANGED logicFailed

\* A tag of the media, or of one of the extra medias.
NotifyTag ==
  /\ logic.up
  /\ logic.actions["tag"] # NoAction
  /\ logic' = Counted(logic, "tag")
  /\ UNCHANGED logicFailed

NotifyTimeout ==
  /\ logic.up /\ logic.alarm
  /\ LET rang == [logic EXCEPT !.alarm = FALSE]
         timeoutTo == IF logic.crt = NULL THEN None ELSE logic.heap[logic.crt].timeoutTo
     IN  logic' = SwitchToState(rang, IF timeoutTo = None THEN logic.default ELSE timeoutTo)
  /\ UNCHANGED logicFailed

Next ==
  \/ Start \/ Stop \/ Reset \/ Refresh
  \/ RpcSetPlaylist \/ RpcSetCurrentState
  \/ NotifyEos \/ NotifyTag \/ NotifyTimeout

Spec == Init /\ [][Next]_logicVars

-----------------------------------------------------------------------------
TypeOK ==
  /\ LogicStates \subseteq LogicState
  /\ logic \in Policy
  /\ logicFailed \in BOOLEAN

\* "already deleted .." (logic_policy.cc:344): whatever play lists come, the
\* current state is one of the present play list and not a deleted object, and
\* its name and actions are the policy's.  A timeout waits only if it is limited
\* in time, and then always, as long as there is a default state to go to.
CurrentStateIsLive ==
  /\ logic.crt # NULL =>
       LET state == logic.heap[logic.crt]
       IN  /\ logic.name # None /\ logic.states[logic.name] = logic.crt
           /\ state # NoState /\ logic.actions = state.actions
           /\ state.limited =>
                logic.alarm \/ logic.default = None \/ logic.states[logic.default] = NULL
  /\ logic.alarm => logic.crt # NULL /\ logic.heap[logic.crt].limited
=============================================================================
