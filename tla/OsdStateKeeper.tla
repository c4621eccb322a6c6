--------------------------- MODULE OsdStateKeeper ---------------------------
(***************************************************************************)
(* osd/osd_library/osd_state_keeper: OsdStateKeeperElement, which listens  *)
(* to the OSD tags of a media, so that a client who comes late is sent     *)
(* what the others see.  Its clients get the same tags from the same       *)
(* source, before or after the element itself.                             *)
(*                                                                         *)
(* Overlays have one field, for all; movies are left out, for they are     *)
(* kept like overlays and saved like the click URL.                        *)
(***************************************************************************)
EXTENDS Integers

CONSTANTS
  Ids,               \* of overlays and crawlers
  ItemIds,           \* of the items of crawlers
  Values,            \* of a field
  Clients

VARIABLES
  keeper,            \* the element: see Keeper
  kept,              \* what its state keeper has
  views,             \* per client: see View
  missed             \* history: the element did not get all tags

keeperVars == <<keeper, kept, views, missed>>

None == 0 - 1
Unset == 0                       \* a field, or the items, not set

\* A crawler may be known without its items being set.
NoCrawler == [known |-> FALSE, set |-> FALSE, items |-> [i \in ItemIds |-> None]]
Crawlers == {NoCrawler, [NoCrawler EXCEPT !.known = TRUE]}
            \cup [known : {TRUE}, set : {TRUE}, items : [ItemIds -> Values \cup {None}]]

\* overlays_, crawlers_, show_overlays_ and click_url_.
State == [overlays : [Ids -> Values \cup {None, Unset}],
          crawlers : [Ids -> Crawlers],
          show     : BOOLEAN,
          click    : Values \cup {Unset}]
NoState == [overlays |-> [id \in Ids |-> None], crawlers |-> [id \in Ids |-> NoCrawler],
            show |-> TRUE, click |-> Unset]

\* A deaf element has got an EOS: it never asks for its media again.
Keeper == [stage : {"down", "waiting", "listening", "deaf"}, state : State]

\* A client without bootstrap_played_ shows nothing.  A client is early if
\* its first tag was an OSD tag that the element got later.
View == [stage : {"away", "new", "bootstrapped"}, state : State, early : BOOLEAN]
Away == [stage |-> "away", state |-> NoState, early |-> FALSE]

Init ==
  /\ keeper = [stage |-> "down", state |-> NoState]
  /\ kept = NoState
  /\ views = [c \in Clients |-> Away]
  /\ missed = FALSE

-----------------------------------------------------------------------------
(* What tags do, here and at a client.                                     *)

Tags ==
  [tag : {"create overlay"}, id : Ids, value : Values \cup {Unset}]
  \cup [tag : {"destroy overlay", "destroy crawler"}, id : Ids]
  \cup [tag : {"create crawler"}, id : Ids, crawler : Crawlers \ {NoCrawler}]
  \cup [tag : {"add item"}, id : Ids, item : ItemIds, value : Values]
  \cup [tag : {"remove item"}, id : Ids, item : ItemIds]
  \cup [tag : {"show overlays"}, value : BOOLEAN]
  \cup [tag : {"click url"}, value : Values]
  \cup [tag : {"video"}]

\* Fields that are not set stay as they are.
Overlay(old, new) == IF new = Unset /\ old # None THEN old ELSE new
Crawler(old, new) == IF old.known /\ ~new.set THEN old ELSE new

ProcessOsd(s, t) ==
  CASE t.tag = "create overlay" -> [s EXCEPT !.overlays[t.id] = Overlay(@, t.value)]
    [] t.tag = "destroy overlay" -> [s EXCEPT !.overlays[t.id] = None]
    [] t.tag = "create crawler" -> [s EXCEPT !.crawlers[t.id] = Crawler(@, t.crawler)]
    [] t.tag = "destroy crawler" -> [s EXCEPT !.crawlers[t.id] = NoCrawler]
    [] t.tag = "add item" ->
         IF s.crawlers[t.id].known
         THEN [s EXCEPT !.crawlers[t.id].set = TRUE, !.crawlers[t.id].items[t.item] = t.value]
         ELSE s
    [] t.tag = "remove item" -> [s EXCEPT !.crawlers[t.id].items[t.item] = None]
    [] t.tag = "show overlays" -> [s EXCEPT !.show = t.value]
    [] t.tag = "click url" -> [s EXCEPT !.click = t.value]
    [] t.tag = "video" -> s

\* Deviation: only overlays that are shown are sent.
AppendBootstrap_Shown(view, s) ==
  [overlays |-> [id \in Ids |-> IF s.overlays[id] = None \/ ~s.show THEN view.overlays[id]
                                ELSE Overlay(view.overlays[id], s.overlays[id])],
   crawlers |-> [id \in Ids |-> IF ~s.crawlers[id].known THEN view.crawlers[id]
                                ELSE Crawler(view.crawlers[id], s.crawlers[id])],
   show |-> view.show /\ s.show,
   click |-> s.click]

\* What a client shows after the bootstrap: whether overlays are shown is sent
\* only if they are not, the click URL always.
AppendBootstrap(view, s) ==
  [overlays |-> [id \in Ids |-> IF s.overlays[id] = None THEN view.overlays[id]
                                ELSE Overlay(view.overlays[id], s.overlays[id])],
   crawlers |-> [id \in Ids |-> IF ~s.crawlers[id].known THEN view.crawlers[id]
                                ELSE Crawler(view.crawlers[id], s.crawlers[id])],
   show |-> view.show /\ s.show,
   click |-> s.click]

\* A client is sent the tag; its first one is followed by the bootstrap, from
\* the state s that the element has at that time.
FilterTag(view, t, s, before) ==
  IF view.stage = "bootstrapped" THEN [view EXCEPT !.state = ProcessOsd(@, t)]
  ELSE [stage |-> "bootstrapped", state |-> AppendBootstrap(ProcessOsd(view.state, t), s),
        early |-> before /\ t.tag # "video"]

-----------------------------------------------------------------------------
\* What SaveState saves and Initialize loads: the click URL is loaded, but not
\* saved.
Saved(s) == [s EXCEPT !.click = Unset]

\* The element is started; the media may not be there yet.
Initialize ==
  /\ keeper.stage = "down"
  /\ \E stage \in {"listening", "waiting"} : keeper' = [stage |-> stage, state |-> kept]
  /\ missed' = FALSE
  /\ UNCHANGED <<kept, views>>

\* The alarm of OpenMedia, five seconds later.
OpenMedia ==
  /\ keeper.stage = "waiting"
  /\ keeper' = [keeper EXCEPT !.stage = "listening"]
  /\ UNCHANGED <<kept, views, missed>>

Crash ==
  /\ keeper.stage # "down"
  /\ keeper' = [stage |-> "down", state |-> NoState]
  /\ views' = [c \in Clients |-> Away]
  /\ UNCHANGED <<kept, missed>>

CreateCallbackData(c) ==
  /\ keeper.stage # "down" /\ views[c].stage = "away"
  /\ views' = [views EXCEPT ![c].stage = "new"]
  /\ UNCHANGED <<keeper, kept, missed>>

ClientLeaves(c) ==
  /\ views[c].stage # "away"
  /\ views' = [views EXCEPT ![c] = Away]
  /\ UNCHANGED <<keeper, kept, missed>>

\* The source gives a tag to the clients of the set 'before', to the element,
\* and to the other clients.
ProcessTag(t, before) ==
  LET hears == keeper.stage = "listening"
      old == keeper.state
      new == IF hears THEN ProcessOsd(old, t) ELSE old
  IN  /\ keeper.stage # "down"
      /\ keeper' = [keeper EXCEPT !.state = new]
      /\ kept' = IF hears /\ t.tag # "video" THEN Saved(new) ELSE kept
      /\ views' = [c \in Clients |->
           IF views[c].stage = "away" THEN Away
           ELSE FilterTag(views[c], t, IF c \in before THEN old ELSE new, c \in before)]
      /\ missed' = (missed \/ ~hears)

\* The source ends, for the clients too; the element never listens again.
EosTag ==
  /\ keeper.stage = "listening"
  /\ keeper' = [keeper EXCEPT !.stage = "deaf"]
  /\ views' = [c \in Clients |-> Away]
  /\ UNCHANGED <<kept, missed>>

Next ==
  \/ Initialize \/ OpenMedia \/ Crash \/ EosTag
  \/ \E c \in Clients : CreateCallbackData(c) \/ ClientLeaves(c)
  \/ \E t \in Tags, before \in SUBSET Clients : ProcessTag(t, before)

Spec == Init /\ [][Next]_keeperVars

-----------------------------------------------------------------------------
TypeOK ==
  /\ keeper \in Keeper
  /\ kept \in State
  /\ views \in [Clients -> View]
  /\ missed \in BOOLEAN

\* A client who comes late shows what the element has seen all the time, and
\* goes on to: whatever its first tag is, unless that was an OSD tag that the
\* element got after the client.
LateClientsCatchUp ==
  \A c \in Clients :
    (views[c].stage = "bootstrapped" /\ ~views[c].early /\ ~missed)
      => views[c].state = keeper.state

\* A restart finds all that the element has seen, but for the click URL.
StateIsKept == keeper.stage # "down" => kept = Saved(keeper.state)
=============================================================================
