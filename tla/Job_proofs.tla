----------------------------- MODULE Job_proofs -----------------------------
(* Proofs about Job: the view of the master is never ahead.                *)
EXTENDS Job, TLAPS

\* The stages a file goes through.
LEMMA StageSet ==
  Stages = {ABSENT, "PENDING", "PROCESSING", "SLAVE_READY", "ERROR"}
BY DEF Stages, Later, ABSENT

\* What a master may show is a stage, and it may always show that a file is
\* absent; what it may show of a file it may show of that file later on.
LEMMA ShownIsStable ==
  ASSUME NEW st \in Stages, NEW now \in Stages,
         \/ now = st
         \/ st = ABSENT /\ now \in {"PENDING", "PROCESSING", "ERROR"}
         \/ st = "PENDING" /\ now \in {ABSENT, "PROCESSING", "ERROR"}
         \/ st = "PROCESSING" /\ now \in {"SLAVE_READY", "ERROR"}
  PROVE  Shown(st) \subseteq Shown(now)
BY DEF Shown, Later, ABSENT, Stages

\* Every step keeps both variables within their types.
LEMMA TypeStep == TypeOK /\ [Next]_jvars => TypeOK'
<1> SUFFICES ASSUME TypeOK, [Next]_jvars PROVE TypeOK' OBVIOUS
<1>1. CASE Restart
  BY <1>1 DEF TypeOK, Restart
<1>2. ASSUME NEW s \in Slaves, Work(s) PROVE TypeOK'
  BY <1>2 DEF TypeOK, Work
<1>3. ASSUME NEW s \in Slaves, NEW id \in Ids, Learn(s, id) PROVE TypeOK'
  <2>1. PICK v \in Later[view[s][id]] :
          view' = [view EXCEPT ![s][id] = v] /\ UNCHANGED stage
    BY <1>3 DEF Learn
  <2>2. view[s][id] \in Stages BY DEF TypeOK
  <2>3. v \in Stages BY <2>1, <2>2, StageSet DEF Later, ABSENT
  <2> QED BY <2>1, <2>3 DEF TypeOK
<1>4. CASE UNCHANGED jvars
  BY <1>4 DEF TypeOK, jvars
<1> QED BY <1>1, <1>2, <1>3, <1>4 DEF Next

\* Every step keeps the view behind the stage.
LEMMA AheadStep == TypeOK /\ ViewIsNeverAhead /\ [Next]_jvars => ViewIsNeverAhead'
<1> SUFFICES ASSUME TypeOK, ViewIsNeverAhead, [Next]_jvars PROVE ViewIsNeverAhead' OBVIOUS
<1>1. CASE Restart
  <2> SUFFICES ASSUME NEW s \in Slaves, NEW id \in Ids
               PROVE  view'[s][id] \in Shown(stage'[s][id])
    BY DEF ViewIsNeverAhead
  <2> QED BY <1>1 DEF Restart, Shown
<1>2. ASSUME NEW s \in Slaves, Work(s) PROVE ViewIsNeverAhead'
  <2>1. PICK now \in [Ids -> Stages] :
          /\ \A id \in Ids :
               \/ now[id] = stage[s][id]
               \/ stage[s][id] = ABSENT /\ now[id] \in {"PENDING", "PROCESSING", "ERROR"}
               \/ stage[s][id] = "PENDING" /\ now[id] \in {ABSENT, "PROCESSING", "ERROR"}
               \/ stage[s][id] = "PROCESSING" /\ now[id] \in {"SLAVE_READY", "ERROR"}
          /\ stage' = [stage EXCEPT ![s] = now]
          /\ UNCHANGED view
    BY <1>2 DEF Work
  <2>2. \A id \in Ids : Shown(stage[s][id]) \subseteq Shown(now[id])
    BY <2>1, ShownIsStable DEF TypeOK
  <2> QED BY <2>1, <2>2 DEF TypeOK, ViewIsNeverAhead
<1>3. ASSUME NEW s \in Slaves, NEW id \in Ids, Learn(s, id) PROVE ViewIsNeverAhead'
  BY <1>3 DEF Learn, TypeOK, ViewIsNeverAhead
<1>4. CASE UNCHANGED jvars
  BY <1>4 DEF jvars, ViewIsNeverAhead
<1> QED BY <1>1, <1>2, <1>3, <1>4 DEF Next

\* For any slaves and files: what the master shows of a file is never more
\* than what has happened to it at the slave.
THEOREM NeverAhead == Spec => []ViewIsNeverAhead
<1>1. Init => TypeOK /\ ViewIsNeverAhead
  BY StageSet DEF Init, TypeOK, ViewIsNeverAhead, Shown
<1> QED BY <1>1, TypeStep, AheadStep, PTL DEF Spec
=============================================================================
