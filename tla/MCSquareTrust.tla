---------------------------- MODULE MCSquareTrust ----------------------------
(* Small instances of SquareTrust for TLC. *)
EXTENDS SquareTrust, TLC

OneLocation == [o \in Orders |-> CHOOSE l \in Locations : TRUE]

RunSymmetry == Permutations(Runs)
=============================================================================
