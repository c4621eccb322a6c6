------------------------ MODULE HttpAuthorizer_proofs ------------------------
(***************************************************************************)
(* Proofs about HttpAuthorizer: one answer each, for any number of         *)
(* addresses and of authorizations.                                        *)
(***************************************************************************)
EXTENDS HttpAuthorizer, TLAPS

\* An authorization has one waiting owner at most, and was answered only if it
\* was asked for; who waits is who is active.
AnswersInv ==
  /\ TypeOK
  /\ asked \in Nat
  /\ active = {c \in Completions : waiting[c] # Nobody}
  /\ \A id \in Authorizations : answers[id] # 0 => id <= asked
  /\ \A c \in Completions : waiting[c] <= asked
  /\ \A c, d \in Completions : waiting[c] = waiting[d] /\ waiting[c] # Nobody => c = d
  /\ OneAnswerEach

-----------------------------------------------------------------------------
\* A new authorization has no answer, and no other owner waits for it.
LEMMA AuthorizeKeeps ==
  ASSUME MaxRequests \in Nat, AnswersInv, NEW c \in Completions, Authorize(c)
  PROVE  AnswersInv'
<1> DEFINE id == asked + 1
<1> USE DEF Nobody
<1>1. id \in Authorizations /\ asked' = id /\ id \in Nat
  BY DEF Authorize, AnswersInv, Authorizations
<1>2. waiting' = [waiting EXCEPT ![c] = id] BY <1>1 DEF Authorize
<1>3. requests' = requests \cup {[id |-> id, completion |-> c]} BY <1>1 DEF Authorize
<1>4. UNCHANGED answers /\ active' = active \cup {c} BY DEF Authorize
<1>5. answers[id] = 0 BY <1>1 DEF AnswersInv
<1> HIDE DEF id
<1>6. TypeOK' BY <1>1, <1>2, <1>3, <1>4 DEF AnswersInv, TypeOK, Request
<1>7. id # 0 BY <1>1 DEF Authorizations
<1>8. \A d \in Completions : waiting'[d] = IF d = c THEN id ELSE waiting[d]
  BY <1>2 DEF AnswersInv, TypeOK
<1>9. \A d \in Completions : waiting[d] \in Nat /\ waiting[d] < id
  BY <1>1 DEF AnswersInv, TypeOK, Authorizations, id
<1>10. active' = {d \in Completions : waiting'[d] # Nobody}
  BY <1>4, <1>7, <1>8 DEF AnswersInv
<1>11. \A i \in Authorizations : answers'[i] # 0 => i <= asked'
  BY <1>1, <1>4 DEF AnswersInv, Authorizations, id
<1>12. /\ \A d \in Completions : waiting'[d] <= asked'
       /\ \A d, e \in Completions : waiting'[d] = waiting'[e] /\ waiting'[d] # Nobody => d = e
  BY <1>1, <1>8, <1>9 DEF AnswersInv
<1>13. \A d \in Completions : waiting'[d] # Nobody =>
         answers'[waiting'[d]] = 0 /\ \E r \in requests' : r.completion = d
  <2> SUFFICES ASSUME NEW d \in Completions, waiting'[d] # Nobody
               PROVE  answers'[waiting'[d]] = 0 /\ \E r \in requests' : r.completion = d
    OBVIOUS
  <2>1. CASE d = c
    <3>1. waiting'[d] = id /\ answers'[id] = 0 BY <2>1, <1>4, <1>5, <1>8
    <3>2. [id |-> id, completion |-> c] \in requests' BY <1>3
    <3>3. [id |-> id, completion |-> c].completion = d BY <2>1
    <3> QED BY <3>1, <3>2, <3>3
  <2>2. CASE d # c
    <3>1. waiting'[d] = waiting[d] BY <2>2, <1>8
    <3> QED BY <3>1, <1>3, <1>4 DEF AnswersInv, OneAnswerEach
  <2> QED BY <2>1, <2>2
<1>14. OneAnswerEach' BY <1>4, <1>13 DEF AnswersInv, OneAnswerEach
<1> QED BY <1>1, <1>6, <1>10, <1>11, <1>12, <1>14 DEF AnswersInv

\* A client that cancels waits for nothing more.
LEMMA CancelKeeps ==
  ASSUME AnswersInv, NEW c \in Completions, Cancel(c)
  PROVE  AnswersInv'
<1> USE DEF Nobody
<1>1. \A d \in Completions : waiting'[d] = IF d = c THEN 0 ELSE waiting[d]
  BY DEF Cancel, AnswersInv, TypeOK
<1>2. UNCHANGED <<requests, answers, asked>> /\ active' = active \ {c} BY DEF Cancel
<1>3. TypeOK' BY <1>2 DEF Cancel, AnswersInv, TypeOK
<1>4. OneAnswerEach' BY <1>1, <1>2 DEF AnswersInv, OneAnswerEach
<1> QED BY <1>1, <1>2, <1>3, <1>4 DEF AnswersInv

\* A reply is an answer only if its address is active; then the owner of the
\* address had none, and waits no more.
LEMMA ReplyKeeps ==
  ASSUME MaxRequests \in Nat, AnswersInv, NEW r \in requests, RequestCallback(r)
  PROVE  AnswersInv'
<1> DEFINE c == r.completion
           id == waiting[c]
<1> USE DEF Nobody
<1>1. c \in Completions BY DEF AnswersInv, TypeOK, Request
<1>2. requests' = requests \ {r} /\ active' = active \ {c} /\ UNCHANGED asked
  BY DEF RequestCallback
<1>3. CASE c \notin active
  <2>1. UNCHANGED <<answers, waiting, active>> BY <1>2, <1>3 DEF RequestCallback
  <2>2. TypeOK' BY <1>2, <2>1 DEF AnswersInv, TypeOK
  <2>3. \A d \in Completions : waiting[d] # 0 => \E q \in requests' : q.completion = d
    <3>1. \A d \in Completions : waiting[d] # 0 => d # c BY <1>3 DEF AnswersInv
    <3> QED BY <1>2, <3>1 DEF AnswersInv, OneAnswerEach
  <2>4. OneAnswerEach' BY <2>1, <2>3 DEF AnswersInv, OneAnswerEach
  <2> QED BY <1>2, <2>1, <2>2, <2>4 DEF AnswersInv
<1>4. CASE c \in active
  <2>1. answers' = [answers EXCEPT ![id] = @ + 1] /\ waiting' = [waiting EXCEPT ![c] = 0]
    BY <1>4 DEF RequestCallback
  <2>2. id \in Authorizations /\ answers[id] = 0 /\ id <= asked
    BY <1>1, <1>4 DEF AnswersInv, TypeOK, OneAnswerEach
  <2> HIDE DEF id
  <2>3. \A i \in Authorizations \cup {0} : answers'[i] = IF i = id THEN 1 ELSE answers[i]
    BY <2>1, <2>2 DEF AnswersInv, TypeOK
  <2>4. \A d \in Completions : waiting'[d] = IF d = c THEN 0 ELSE waiting[d]
    BY <1>1, <2>1 DEF AnswersInv, TypeOK
  <2>5. TypeOK' BY <1>1, <1>2, <2>1, <2>2 DEF AnswersInv, TypeOK
  <2>6. id # 0 BY <2>2 DEF Authorizations
  <2>7. \A d \in Completions \ {c} : waiting[d] # 0 => waiting[d] # id
    BY <1>1 DEF AnswersInv, id
  <2>8. \A d \in Completions : waiting'[d] # 0 =>
          answers'[waiting'[d]] = 0 /\ \E q \in requests' : q.completion = d
    <3> SUFFICES ASSUME NEW d \in Completions, waiting'[d] # 0
                 PROVE  answers'[waiting'[d]] = 0 /\ \E q \in requests' : q.completion = d
      OBVIOUS
    <3>1. d # c /\ waiting'[d] = waiting[d] BY <2>4
    <3>2. waiting[d] # id /\ waiting[d] \in Authorizations
      BY <2>7, <3>1 DEF AnswersInv, TypeOK
    <3>3. answers'[waiting[d]] = 0 BY <2>3, <3>1, <3>2 DEF AnswersInv, OneAnswerEach
    <3>4. \E q \in requests' : q.completion = d BY <1>2, <3>1 DEF AnswersInv, OneAnswerEach
    <3> QED BY <3>1, <3>3, <3>4
  <2>9. answers'[0] = 0 /\ \A i \in Authorizations : answers'[i] <= 1
    BY <2>3, <2>6 DEF AnswersInv, OneAnswerEach
  <2>10. OneAnswerEach' BY <2>8, <2>9 DEF OneAnswerEach
  <2>11. active' = {d \in Completions : waiting'[d] # 0} BY <1>2, <2>4 DEF AnswersInv
  <2>12. \A i \in Authorizations : answers'[i] # 0 => i <= asked'
    BY <1>2, <2>2, <2>3 DEF AnswersInv
  <2>13. /\ \A d \in Completions : waiting'[d] <= asked'
         /\ \A d, e \in Completions : waiting'[d] = waiting'[e] /\ waiting'[d] # 0 => d = e
    BY <1>2, <2>4 DEF AnswersInv
  <2> QED BY <1>2, <2>5, <2>10, <2>11, <2>12, <2>13 DEF AnswersInv
<1> QED BY <1>3, <1>4

-----------------------------------------------------------------------------
\* For any number of addresses and however they are used again: no completion
\* is run that nobody waits for, none twice, and who waits has a reply to come.
THEOREM AnsweredOnce ==
  ASSUME MaxRequests \in Nat
  PROVE  Spec => []OneAnswerEach
<1>1. Init => AnswersInv
  BY DEF Init, AnswersInv, TypeOK, OneAnswerEach, Nobody, Authorizations
<1>2. AnswersInv /\ [Next]_authVars => AnswersInv'
  <2> SUFFICES ASSUME AnswersInv, [Next]_authVars PROVE AnswersInv' OBVIOUS
  <2>1. CASE UNCHANGED authVars
    BY <2>1 DEF authVars, AnswersInv, TypeOK, OneAnswerEach
  <2> QED BY <2>1, AuthorizeKeeps, CancelKeeps, ReplyKeeps DEF Next
<1>3. AnswersInv => OneAnswerEach BY DEF AnswersInv
<1> QED BY <1>1, <1>2, <1>3, PTL DEF Spec
=============================================================================
