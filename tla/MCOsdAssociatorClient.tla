------------------------ MODULE MCOsdAssociatorClient ------------------------
(* An instance of OsdAssociatorClient with a file and its directory.         *)
EXTENDS OsdAssociatorClient

MCAbove == [m \in {"dir", "file"} |-> IF m = "file" THEN {"dir", "file"} ELSE {"dir"}]
=============================================================================
