------------------------- MODULE OsdAssociatorClient -------------------------
(***************************************************************************)
(* osd/osd_library/osd_remote_associator: OsdAssociatorClientElement,      *)
(* which asks servers by RPC for the OSDs of each client, and keeps what   *)
(* they answer for a media in a cache.  An answer may come when the client *)
(* has left, and when its address belongs to another one.                  *)
(*                                                                         *)
(* An OSD is the set of its overlays; crawlers and their items, pictures   *)
(* in pictures and click URLs are created and destroyed in the same way.   *)
(***************************************************************************)
EXTENDS Integers

CONSTANTS
  Ids,          \* overlays
  Medias,       \* paths
  Above,        \* for each path, the path and the directories above it
  Addresses     \* of ClientCallbackData objects

VARIABLES
  servers,      \* osd_server_map_: the paths with a server
  saved,        \* the value in the state keeper
  cache,        \* cache_
  known,        \* clients_
  heap,         \* the ClientCallbackData objects
  calls,        \* GetRequestOsd RPCs without a result: see Call
  misled        \* history: what an answer did that its client did not wait for

remoteVars == <<servers, saved, cache, known, heap, calls, misled>>

None == "none"
Same == "same"
Osd == SUBSET Ids

\* An OSD that may be there or not is a set with one OSD, or none.
Absent == {}
OptionalOsd == {Absent} \cup {{osd} : osd \in Osd}

\* A ClientCallbackData and what its client shows.  pending_osd_tags_ is known
\* by what it does to each overlay.
Effect == [Ids -> {"create", "destroy", Same}]
Client == [media : Medias, osd : OptionalOsd, pending : Effect, shown : Osd, ended : BOOLEAN]
Freed == [freed |-> TRUE]

\* 'own' says that the client at the address is the one that asked.
Call == [client : Addresses, server : Medias, own : BOOLEAN]

Init ==
  /\ servers = {} /\ saved = {}
  /\ cache = [m \in Medias |-> Absent]
  /\ known = {}
  /\ heap = [a \in Addresses |-> Freed]
  /\ calls = {}
  /\ misled = {}

Live(a) == heap[a] # Freed

\* io::FindPathBased and Cache::GetPathBased: the path, or else the nearest
\* directory above it, that is in S.
PathBased(S, m) ==
  LET found == Above[m] \cap S
  IN  IF found = {} THEN None ELSE CHOOSE n \in found : found \subseteq Above[n]

-----------------------------------------------------------------------------
(* Operations on the data of a client.                                     *)

Inject(data, osd, what) ==
  [data EXCEPT !.pending = [id \in Ids |-> IF id \in osd THEN what ELSE @[id]]]

ClearOsd(data) ==
  [Inject(data, UNION data.osd, "destroy") EXCEPT !.osd = Absent]

\* Deviation: what the client had is not cleared.
SetOsd_Adds(data, osd) == [Inject(data, osd, "create") EXCEPT !.osd = {osd}]

SetOsd(data, osd) == [Inject(ClearOsd(data), osd, "create") EXCEPT !.osd = {osd}]

MaybeSetOsd(data, osd) == IF osd = Absent THEN data ELSE SetOsd(data, UNION osd)

\* What a client shows once it gets its pending tags.
WillShow(data) ==
  {id \in Ids : \/ data.pending[id] = "create"
                \/ data.pending[id] = Same /\ id \in data.shown}

NewData(m) == [media |-> m, osd |-> Absent, pending |-> [id \in Ids |-> Same],
               shown |-> {}, ended |-> FALSE]

-----------------------------------------------------------------------------
(* Clients.                                                                *)

CreateCallbackData(a, m) ==
  /\ ~Live(a)
  /\ known' = known \cup {a}
  /\ LET cached == PathBased({n \in Medias : cache[n] # Absent}, m)
         server == PathBased(servers, m)
     IN  \/ /\ cached # None
            /\ heap' = [heap EXCEPT ![a] = SetOsd(NewData(m), UNION cache[cached])]
            /\ UNCHANGED calls
         \/ /\ cached = None
            /\ heap' = [heap EXCEPT ![a] = NewData(m)]
            /\ calls' = IF server = None THEN calls
                        ELSE calls \cup {[client |-> a, server |-> server, own |-> TRUE]}
  /\ UNCHANGED <<servers, saved, cache, misled>>

\* DeleteCallbackData does not take the client out of clients_.  Bound: one
\* abandoned call for each address and server.
DeleteCallbackData(a) ==
  /\ Live(a)
  /\ \A k \in calls : (k.client = a /\ k.own) => [k EXCEPT !.own = FALSE] \notin calls
  /\ heap' = [heap EXCEPT ![a] = Freed]
  /\ calls' = {IF k.client = a THEN [k EXCEPT !.own = FALSE] ELSE k : k \in calls}
  /\ UNCHANGED <<servers, saved, cache, known, misled>>

\* A tag of the media, and after it the pending ones; an EOS comes last.
FilterTag(a, eos) ==
  /\ Live(a) /\ ~heap[a].ended
  /\ LET data == IF eos THEN ClearOsd(heap[a]) ELSE heap[a]
     IN  heap' = [heap EXCEPT ![a] = [data EXCEPT !.shown = WillShow(data), !.ended = eos,
                                                  !.pending = NewData(data.media).pending]]
  /\ UNCHANGED <<servers, saved, cache, known, calls, misled>>

\* The result of an RPC.  creation_path() is read for the cache before it is
\* asked whether the client is still there.
HandleGetRequestOsdResultForClient(k, global, specific) ==
  LET a == k.client
      used == global # Absent \/ (a \in known /\ specific # Absent)
  IN  /\ calls' = calls \ {k}
      /\ IF ~used THEN UNCHANGED <<cache, heap, misled>>
         ELSE IF ~Live(a) THEN misled' = misled \cup {"freed"} /\ UNCHANGED <<cache, heap>>
         ELSE /\ misled' = IF k.own THEN misled ELSE misled \cup {"other"}
              /\ cache' = IF global = Absent THEN cache
                          ELSE [cache EXCEPT ![heap[a].media] = global]
              /\ heap' = IF a \notin known THEN heap
                         ELSE [heap EXCEPT ![a] = MaybeSetOsd(MaybeSetOsd(@, global), specific)]
      /\ UNCHANGED <<servers, saved, known>>

-----------------------------------------------------------------------------
(* The cache, and the RPCs.                                                *)

\* An entry expires, is the oldest of too many, or is cleared by an RPC.
LeavesCache(m) ==
  /\ cache[m] # Absent
  /\ cache' = [cache EXCEPT ![m] = Absent]
  /\ UNCHANGED <<servers, saved, known, heap, calls, misled>>

ClearAllCache ==
  /\ cache' = [m \in Medias |-> Absent]
  /\ UNCHANGED <<servers, saved, known, heap, calls, misled>>

\* A server that there is stays; the map is saved in any case.
AddOsdServer(m) ==
  /\ servers' = servers \cup {m}
  /\ saved' = servers'
  /\ UNCHANGED <<cache, known, heap, calls, misled>>

\* The calls of a server that is deleted fail with its connection.
DelOsdServerByPath(m) ==
  /\ servers' = servers \ {m}
  /\ saved' = servers'
  /\ calls' = {k \in calls : k.server # m}
  /\ UNCHANGED <<cache, known, heap, misled>>

\* The server ends or crashes, and Initialize loads the map.
Restart ==
  /\ servers' = saved
  /\ cache' = [m \in Medias |-> Absent]
  /\ known' = {} /\ calls' = {} /\ misled' = {}
  /\ heap' = [a \in Addresses |-> Freed]
  /\ UNCHANGED saved

\* Nothing is said of what comes after the use of a freed object.
Next ==
  /\ "freed" \notin misled
  /\ \/ \E a \in Addresses :
          \/ \E m \in Medias : CreateCallbackData(a, m)
          \/ DeleteCallbackData(a)
          \/ \E eos \in BOOLEAN : FilterTag(a, eos)
     \/ \E k \in calls : \E global, specific \in OptionalOsd :
          HandleGetRequestOsdResultForClient(k, global, specific)
     \/ \E m \in Medias : LeavesCache(m) \/ AddOsdServer(m) \/ DelOsdServerByPath(m)
     \/ ClearAllCache
     \/ Restart

Spec == Init /\ [][Next]_remoteVars

-----------------------------------------------------------------------------
TypeOK ==
  /\ servers \subseteq Medias /\ saved \subseteq Medias
  /\ cache \in [Medias -> OptionalOsd]
  /\ known \subseteq Addresses
  /\ heap \in [Addresses -> Client \cup {Freed}]
  /\ calls \subseteq Call
  /\ misled \subseteq {"freed", "other"}

\* A client that plays shows, once it has the pending tags, what SetOsd was
\* last called with, from the cache or an answer, and nothing of what it
\* showed before ("clear previous state", osd_associator_client_element.cc:80).
ShownIsSet ==
  \A a \in Addresses :
    Live(a) /\ ~heap[a].ended =>
      WillShow(heap[a]) = UNION heap[a].osd

\* "maybe the client stream which generated this call is gone already"
\* (osd_associator_client_element.cc:339): an answer is only used for the client
\* that asked.  It is not so: clients stay in clients_.
LateAnswersAreIgnored == misled = {}
=============================================================================
