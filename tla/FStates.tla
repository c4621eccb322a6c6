------------------------------- MODULE FStates -------------------------------
(* transcoder/constants.{h,cc}: the states a media file goes through, as      *)
(* both managers keep them, persist them and send them to each other.         *)

SlaveStates  == {"PENDING", "PROCESSING", "SLAVE_READY"}
MasterStates == {"DISTRIBUTING", "DONE"}
FState       == SlaveStates \cup MasterStates \cup {"ERROR"}

\* A manager that holds no MediaFile under an id.
ABSENT == "ABSENT"
NoFile == [st |-> ABSENT, err |-> FALSE]

\* A MediaFile is reduced to its state and to whether its error_ text is set.
File      == [st : FState, err : BOOLEAN]
MaybeFile == File \cup {NoFile}

Pending == [st |-> "PENDING", err |-> FALSE]

\* What a slave's ChangeFileState reports: it sets the error text exactly when
\* the state is ERROR (rpc_slave_manager_service.cc: all four callers).
SlaveReports == {[st |-> "PROCESSING",  err |-> FALSE],
                 [st |-> "SLAVE_READY", err |-> FALSE],
                 [st |-> "ERROR",       err |-> TRUE]}

Holds(files, id) == files[id] # NoFile
=============================================================================
