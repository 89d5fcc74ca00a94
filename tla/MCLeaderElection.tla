-------------------------- MODULE MCLeaderElection --------------------------
(***************************************************************************)
(* LeaderElection for TLC: two rounds of the coordinator may overlap, the  *)
(* other nodes have one at a time.                                         *)
(***************************************************************************)
EXTENDS LeaderElection

MCFollowed == {<<CoordinatorId, 1>>, <<CoordinatorId, 2>>, <<2, 1>>}
=============================================================================
