----------------------------- MODULE Flavouring -----------------------------
(***************************************************************************)
(* extra_library/flavouring: FlavouringElement, which gives a client one   *)
(* stream of each flavour that it can take.  Flavours are added and        *)
(* deleted while clients play; a client who is told of the end of a        *)
(* flavour may leave from within that call.                                *)
(*                                                                         *)
(* One selector thread.                                                    *)
(***************************************************************************)
EXTENDS Integers, FiniteSets

CONSTANTS
  Bits,              \* of a flavour mask; naturals
  Clients,           \* downstream requests, each with its RequestStruct
  Objects,           \* addresses of FlavourStructs
  Configurations     \* the flavours that a configuration may give

VARIABLES
  configured,        \* the flavours of the configuration
  flavouring,        \* the element: see Element
  flavKeeper         \* the flavours in the global state keeper

flavVars == <<configured, flavouring, flavKeeper>>

Masks == (SUBSET Bits) \ {{}}
NULL == "NULL"

\* stage is where Close is.  upstream are the requests at the media mapper;
\* they call back into the client's registration.
Element == [stage    : {"down", "up", "asked", "closing", "closed"},
            flavours : [Masks -> Objects \cup {NULL}],      \* flavours_
            mask     : [Objects -> Masks],                  \* flavour_mask_
            rs       : [Objects -> SUBSET Clients],         \* rs_
            reqs     : SUBSET Clients,                      \* req_map_
            internal : [Clients -> SUBSET Objects],         \* internal_
            upstream : SUBSET (Clients \X Objects)]

Empty == [stage |-> "down", flavours |-> [m \in Masks |-> NULL],
          mask |-> [o \in Objects |-> Bits], rs |-> [o \in Objects |-> {}],
          reqs |-> {}, internal |-> [c \in Clients |-> {}], upstream |-> {}]

Init ==
  /\ configured \in Configurations
  /\ flavouring = Empty
  /\ flavKeeper = {}

Flavours(e) == {m \in Masks : e.flavours[m] # NULL}
Up == flavouring.stage # "down"

\* Masks are kept in the order of their values: disjoint ones in that of their
\* highest bits.
Precedes(m, n) == \E b \in n : \A a \in m : a < b

-----------------------------------------------------------------------------
\* Deviation: it is looked for clients before these are gone.
RemoveRequests_LooksFirst(e, cs) ==
  [e EXCEPT !.reqs = @ \ cs,
            !.internal = [c \in Clients |-> IF c \in cs THEN {} ELSE @[c]],
            !.upstream = {reg \in @ : reg[1] \notin cs},
            !.rs = [o \in Objects |-> @[o] \ {c \in cs : o \in e.internal[c]}],
            !.stage = IF @ = "closing" /\ cs # {} /\ e.reqs = {} THEN "closed" ELSE @]

\* RemoveRequest of each client of a set: UnregisterAll, and the end of Close
\* when the last client has left.
RemoveRequests(e, cs) ==
  [e EXCEPT !.reqs = @ \ cs,
            !.internal = [c \in Clients |-> IF c \in cs THEN {} ELSE @[c]],
            !.upstream = {reg \in @ : reg[1] \notin cs},
            !.rs = [o \in Objects |-> @[o] \ {c \in cs : o \in e.internal[c]}],
            !.stage = IF @ = "closing" /\ cs # {} /\ e.reqs \subseteq cs THEN "closed" ELSE @]

\* Deviation: a client who has left in between is not taken out.
Unregister_Returns(e, o, cs, leaving) ==
  LET gone == [e EXCEPT !.internal = [c \in Clients |-> IF c \in cs THEN @[c] \ {o} ELSE @[c]],
                        !.upstream = {reg \in @ : ~(reg[1] \in cs /\ reg[2] = o)}]
      told == RemoveRequests(gone, leaving)
  IN  [told EXCEPT !.rs[o] = @ \ (cs \ leaving)]

\* Unregister of each client of a set, with an EOS, during which the client may
\* remove its request: the RequestStruct is deleted, and its address taken out
\* of rs_ after that.
Unregister(e, o, cs, leaving) ==
  LET gone == [e EXCEPT !.internal = [c \in Clients |-> IF c \in cs THEN @[c] \ {o} ELSE @[c]],
                        !.upstream = {reg \in @ : ~(reg[1] \in cs /\ reg[2] = o)}]
      told == RemoveRequests(gone, leaving)
  IN  [told EXCEPT !.rs[o] = @ \ cs]

\* The clients that the loop of DelFlav reaches.  Unregister erases the element
\* of rs_ that the iterator is at, so after the first one it may go on, skip
\* some, or stop (or crash: see Crash).
Reached(e, m) ==
  LET registered == e.rs[e.flavours[m]]
  IN  {R \in SUBSET registered : R = {} => registered = {}}

\* What DelFlav may lead to.  The FlavourStruct is not deleted; it is used again
\* here when nobody knows it any more.
DelFlav(e, m) ==
  UNION {{Unregister([e EXCEPT !.flavours[m] = NULL], e.flavours[m], reached, leaving) :
            leaving \in SUBSET reached} : reached \in Reached(e, m)}

\* The same for all flavours, one after the other.
DelAll(e) ==
  LET f[M \in SUBSET Flavours(e)] ==
        IF M = {} THEN {e}
        ELSE LET m == CHOOSE m \in M : TRUE IN UNION {DelFlav(s, m) : s \in f[M \ {m}]}
  IN  f[Flavours(e)]

Overlaps(e, m) == \E n \in Flavours(e) : m \cap n # {}
Unused(e) == {o \in Objects : e.rs[o] = {} /\ \A m \in Masks : e.flavours[m] # o}

\* Each flavour of a set gets an object of its own.
AddFlavs(e, new) ==
  LET at == CHOOSE f \in [new -> Unused(e)] : \A m, n \in new : f[m] = f[n] => m = n
  IN  [e EXCEPT !.flavours = [m \in Masks |-> IF m \in new THEN at[m] ELSE @[m]],
                !.mask = [o \in Objects |-> IF \E m \in new : at[m] = o
                                            THEN CHOOSE m \in new : at[m] = o ELSE @[o]]]

-----------------------------------------------------------------------------
Becomes(e) == flavouring' = e /\ UNCHANGED configured
Saves == flavKeeper' = Flavours(flavouring')

\* The constructor adds the flavours of the configuration, and each of them is
\* saved over what was saved before; only without any does Load find something.
Initial == IF configured = {} THEN flavKeeper ELSE configured

Start ==
  /\ ~Up
  /\ Becomes(AddFlavs([Empty EXCEPT !.stage = "up"], Initial))
  /\ Saves

\* Each flavour that is added saves those added so far.
CrashInStart ==
  /\ ~Up
  /\ \E first \in (SUBSET Initial) \ {{}} :
       /\ \A m \in first, n \in Initial \ first : Precedes(m, n)
       /\ flavKeeper' = first
  /\ UNCHANGED <<configured, flavouring>>

Crash ==
  /\ Up
  /\ Becomes(Empty)
  /\ UNCHANGED flavKeeper

\* The media mapper may refuse some of the upstream requests; without any the
\* request is refused.  A closing element takes requests, too.
AddRequest(c) ==
  /\ Up /\ c \notin flavouring.reqs
  /\ \E caps \in Masks :
     \E got \in SUBSET {flavouring.flavours[m] : m \in {m \in Flavours(flavouring) : m \cap caps # {}}} :
       /\ got # {}
       /\ Becomes([flavouring EXCEPT !.reqs = @ \cup {c}, !.internal[c] = got,
                     !.upstream = @ \cup ({c} \X got),
                     !.rs = [o \in Objects |-> IF o \in got THEN @[o] \cup {c} ELSE @[o]]])
  /\ UNCHANGED flavKeeper

ClientLeaves(c) ==
  /\ c \in flavouring.reqs
  /\ Becomes(RemoveRequests(flavouring, {c}))
  /\ UNCHANGED flavKeeper

AddFlavour(m) ==
  /\ Up /\ ~Overlaps(flavouring, m) /\ Unused(flavouring) # {}
  /\ Becomes(AddFlavs(flavouring, {m}))
  /\ Saves

DelFlavour(m) ==
  /\ Up /\ m \in Flavours(flavouring)
  /\ \E e \in DelFlav(flavouring, m) : Becomes(e)
  /\ Saves

\* Deletes all flavours, then adds the new ones.
SetFlavours(new) ==
  /\ Up
  /\ \A m, n \in new : m # n => m \cap n = {}
  /\ \E e \in DelAll(flavouring) :
       /\ Cardinality(Unused(e)) >= Cardinality(new)
       /\ Becomes(AddFlavs(e, new))
  /\ Saves

Close ==
  /\ flavouring.stage = "up"
  /\ Becomes([flavouring EXCEPT !.stage = "asked"])
  /\ UNCHANGED flavKeeper

\* Each client is sent an EOS, and some leave at once.
InternalClose ==
  /\ flavouring.stage = "asked"
  /\ IF flavouring.reqs = {} THEN Becomes([flavouring EXCEPT !.stage = "closed"])
     ELSE \E leaving \in SUBSET flavouring.reqs :
            Becomes(RemoveRequests([flavouring EXCEPT !.stage = "closing"], leaving))
  /\ UNCHANGED flavKeeper

Next ==
  \/ Start \/ CrashInStart \/ Crash \/ Close \/ InternalClose
  \/ \E c \in Clients : AddRequest(c) \/ ClientLeaves(c)
  \/ \E m \in Masks : AddFlavour(m) \/ DelFlavour(m)
  \/ \E new \in SUBSET Masks : SetFlavours(new)

Spec == Init /\ [][Next]_flavVars

-----------------------------------------------------------------------------
TypeOK ==
  /\ flavouring \in Element
  /\ flavKeeper \subseteq Masks

\* However flavours end and clients leave, also from within the EOS, and
\* whomever the broken loop of DelFlav reaches: what a client knows of its
\* flavours, what they know of it and what the media mapper calls back agree;
\* nobody who has left is called, and no client has two streams of a flavour.
RegistrationsMatch ==
  /\ \A c \in Clients, o \in Objects :
       /\ o \in flavouring.internal[c] <=> c \in flavouring.rs[o]
       /\ o \in flavouring.internal[c] <=> <<c, o>> \in flavouring.upstream
       /\ o \in flavouring.internal[c] => c \in flavouring.reqs
  /\ \A c \in Clients : \A o, p \in flavouring.internal[c] :
       o # p => flavouring.mask[o] \cap flavouring.mask[p] = {}

\* "When all clients left, only then we signal close_completed"
\* (flavouring_element.cc:240): Close is over as soon as the last client is
\* gone, whether it leaves in its EOS, in that of a deleted flavour, or later.
CloseIsNotStuck == flavouring.stage = "closing" => flavouring.reqs # {}
=============================================================================
