--------------------------- MODULE HttpAuthorizer ---------------------------
(***************************************************************************)
(* extra_library/http_authorizer: HttpAuthorizer, which asks an HTTP       *)
(* server about every authorization.  Its HTTP client cannot cancel a      *)
(* request, so a reply may come for a completion callback that nobody      *)
(* waits for any more, or whose address by now belongs to another          *)
(* authorization.  What a reply says is left out.                          *)
(***************************************************************************)
EXTENDS Integers

CONSTANTS
  Completions,       \* addresses of completion callbacks
  MaxRequests        \* bound: how many authorizations are asked for

VARIABLES
  active,            \* active_: completions of authorizations not cancelled
  requests,          \* HTTP requests without a reply: see Request
  waiting,           \* for which authorization the owner of each address waits
  answers,           \* history: how often each authorization was answered
  asked              \* how many authorizations were asked for

authVars == <<active, requests, waiting, answers, asked>>

Authorizations == 1 .. MaxRequests
Nobody == 0                 \* counts the answers that nobody waits for

\* What is bound into a RequestCallback; the id stands for the HTTP request.
Request == [id : Authorizations, completion : Completions]

Init ==
  /\ active = {}
  /\ requests = {}
  /\ waiting = [c \in Completions |-> Nobody]
  /\ answers = [id \in Authorizations \cup {Nobody} |-> 0]
  /\ asked = 0

-----------------------------------------------------------------------------
\* The owner of an address waits for one authorization at a time.
Authorize(c) ==
  /\ waiting[c] = Nobody
  /\ asked < MaxRequests
  /\ asked' = asked + 1
  /\ active' = active \cup {c}
  /\ requests' = requests \cup {[id |-> asked', completion |-> c]}
  /\ waiting' = [waiting EXCEPT ![c] = asked']
  /\ UNCHANGED answers

Cancel(c) ==
  /\ waiting[c] # Nobody
  /\ active' = active \ {c}
  /\ waiting' = [waiting EXCEPT ![c] = Nobody]
  /\ UNCHANGED <<requests, answers, asked>>

\* Deviation: the completion is run, cancelled or not.
RequestCallback_Always(r) ==
  /\ requests' = requests \ {r}
  /\ active' = active \ {r.completion}
  /\ answers' = [answers EXCEPT ![waiting[r.completion]] = @ + 1]
  /\ waiting' = [waiting EXCEPT ![r.completion] = Nobody]
  /\ UNCHANGED asked

\* The HTTP client calls back once per request, in any order, with a reply or,
\* after its last retry, an error.
RequestCallback(r) ==
  /\ requests' = requests \ {r}
  /\ active' = active \ {r.completion}
  /\ IF r.completion \in active
     THEN /\ answers' = [answers EXCEPT ![waiting[r.completion]] = @ + 1]
          /\ waiting' = [waiting EXCEPT ![r.completion] = Nobody]
     ELSE UNCHANGED <<answers, waiting>>
  /\ UNCHANGED asked

Next ==
  \/ \E c \in Completions : Authorize(c) \/ Cancel(c)
  \/ \E r \in requests : RequestCallback(r)

Spec == Init /\ [][Next]_authVars

-----------------------------------------------------------------------------
TypeOK ==
  /\ active \subseteq Completions
  /\ requests \subseteq Request
  /\ waiting \in [Completions -> Authorizations \cup {Nobody}]
  /\ answers \in [Authorizations \cup {Nobody} -> Nat]

\* "this authorization request got canceled in the meanwhile"
\* (http_authorizer.cc:194): no completion is run that nobody waits for, none
\* twice, and who waits has a reply to come; though addresses are used again
\* while replies to cancelled requests are still under way.
OneAnswerEach ==
  /\ answers[Nobody] = 0
  /\ \A id \in Authorizations : answers[id] <= 1
  /\ \A c \in Completions :
       waiting[c] # Nobody =>
         /\ answers[waiting[c]] = 0
         /\ \E r \in requests : r.completion = c
=============================================================================
