---------------------------- MODULE MCSquareSync ----------------------------
(* Small instances of SquareSync for TLC.  In one, the owner approves,     *)
(* excludes and disconnects around attempts over one order; in the other,  *)
(* attempts read two orders by pages of every length, other feeds may have *)
(* pages left, and the owner decides the mapping meanwhile.                *)
EXTENDS SquareSync, TLC

VARIABLE instance

OneLocation == [o \in Orders |-> CHOOSE l \in Locations : TRUE]

OneOrder == CHOOSE o \in Orders : TRUE

RunSymmetry == Permutations(Runs)

RequestStep ==
  \/ \E r \in Runs : Attempt(r) /\ ~job'[r].rest
  \/ Expire \/ UpdateOrder(OneOrder)
  \/ ExcludeData \/ ClearExpiredLease \/ ApproveData \/ DeleteSecret \/ Disconnect

PageStep ==
  \/ \E r \in Runs : Attempt(r)
  \/ Expire
  \/ \E o \in Orders : UpdateOrder(o)
  \/ \E l \in Locations, s \in MappingChoices : MapLocation(l, s)

MCInit == Init /\ instance \in {"requests", "pages"}

MCNext ==
  \/ instance = "requests" /\ RequestStep /\ UNCHANGED instance
  \/ instance = "pages" /\ PageStep /\ UNCHANGED instance

MCSpec == MCInit /\ [][MCNext]_<<vars, instance>>
=============================================================================
