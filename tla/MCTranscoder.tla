---------------------------- MODULE MCTranscoder ----------------------------
(* Instances of Transcoder.  MCSamePath: users who give scp paths and use     *)
(* them as ids, too; MCOwnPath: users who give ids of their own.              *)
EXTENDS Transcoder, TLC

MCSamePath == [id \in Ids |-> id]
MCOwnPath  == [id \in Ids |-> CHOOSE p \in Names \ Ids : TRUE]

Symmetry == Permutations(Slaves)
=============================================================================
