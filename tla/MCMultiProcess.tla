--------------------------- MODULE MCMultiProcess ---------------------------
(* Instance of MultiProcess: three processes, as in                        *)
(* transcoder/test/multi_process_test.cc, the last one expected to exit 1. *)
EXTENDS MultiProcess

MCExpected == [i \in Index |-> IF i = N - 1 THEN 1 ELSE 0]
=============================================================================
