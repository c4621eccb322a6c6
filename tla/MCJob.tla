-------------------------------- MODULE MCJob --------------------------------
(* Instance of Job: the files of two slaves do not interact.                 *)
EXTENDS Job
=============================================================================
