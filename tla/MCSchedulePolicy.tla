--------------------------- MODULE MCSchedulePolicy ---------------------------
(* Instances of SchedulePolicy.                                              *)
EXTENDS SchedulePolicy
=============================================================================
