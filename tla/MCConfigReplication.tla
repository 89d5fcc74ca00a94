------------------------ MODULE MCConfigReplication ------------------------
(***************************************************************************)
(* ConfigReplication for TLC.  The replicas are interchangeable, and so    *)
(* are the slots of join requests and of kick commands.                    *)
(***************************************************************************)
EXTENDS ConfigReplication, TLC

Interchangeable ==
    Permutations(Replicas) \cup Permutations(JoinSlots) \cup Permutations(KickSlots)
=============================================================================
