--------------------------------- MODULE Job ---------------------------------
(***************************************************************************)
(* What the transcoder promises of a file that a master gives to a slave,  *)
(* as manager.rpc documents the states: the file advances at the slave,    *)
(* and what the master shows of it follows, later and with gaps, but never *)
(* ahead and never backwards.  Messages, disks, processes and crashes are  *)
(* not visible here; Transcoder implements this.                           *)
(***************************************************************************)
EXTENDS FStates

CONSTANTS Slaves, Ids

VARIABLES
  stage,        \* how far the file has come at the slave
  view          \* how far the master shows it to be

jvars == <<stage, view>>

\* The order of the states; SLAVE_READY and ERROR end it.
Later == [ABSENT     |-> {"PENDING", "PROCESSING", "SLAVE_READY", "ERROR"},
          PENDING    |-> {"PROCESSING", "SLAVE_READY", "ERROR"},
          PROCESSING |-> {"SLAVE_READY", "ERROR"},
          SLAVE_READY |-> {}, ERROR |-> {}]
Stages == DOMAIN Later

\* What a master may show of a file: that it is waiting, or where it was.
Shown(st) == {ABSENT, "PENDING"} \cup {v \in {"PROCESSING"} : st \in Later["PENDING"]}
                                 \cup ({st} \cap {"SLAVE_READY", "ERROR"})

Init ==
  /\ stage = [s \in Slaves |-> [id \in Ids |-> ABSENT]]
  /\ view = [s \in Slaves |-> [id \in Ids |-> ABSENT]]

\* A slave's files advance; one it has not started may be lost in a crash.
\* A file it gets is either started, or fails to start, or waits.
Work(s) ==
  /\ \E now \in [Ids -> Stages] :
       /\ \A id \in Ids :
            \/ now[id] = stage[s][id]
            \/ stage[s][id] = ABSENT /\ now[id] \in {"PENDING", "PROCESSING", "ERROR"}
            \/ stage[s][id] = "PENDING" /\ now[id] \in {ABSENT, "PROCESSING", "ERROR"}
            \/ stage[s][id] = "PROCESSING" /\ now[id] \in {"SLAVE_READY", "ERROR"}
       /\ stage' = [stage EXCEPT ![s] = now]
  /\ UNCHANGED view

\* The master learns where a file is or was.
Learn(s, id) ==
  /\ \E v \in Later[view[s][id]] \cap Shown(stage[s][id]) :
       view' = [view EXCEPT ![s][id] = v]
  /\ UNCHANGED stage

\* The master stops or starts: it may forget files, or recall forgotten ones.
Restart ==
  /\ view' \in [Slaves -> [Ids -> Stages]]
  /\ \A s \in Slaves, id \in Ids :
       \/ view'[s][id] = ABSENT
       \/ /\ view'[s][id] \in Shown(stage[s][id])
          /\ view[s][id] = ABSENT \/ view'[s][id] = view[s][id]
  /\ UNCHANGED stage

Next == Restart \/ \E s \in Slaves : Work(s) \/ \E id \in Ids : Learn(s, id)

Spec == Init /\ [][Next]_jvars

-----------------------------------------------------------------------------
TypeOK ==
  /\ stage \in [Slaves -> [Ids -> Stages]]
  /\ view \in [Slaves -> [Ids -> Stages]]

\* An outcome the master shows is the outcome, and what it shows as PROCESSING
\* has been started: a user who reads MasterControl is never told too much.
ViewIsNeverAhead ==
  \A s \in Slaves, id \in Ids : view[s][id] \in Shown(stage[s][id])
=============================================================================
