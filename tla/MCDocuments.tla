----------------------------- MODULE MCDocuments -----------------------------
(* Two small instances of DocumentPipeline for TLC.  In one, requests alone  *)
(* work, extractions may be incomplete, and scans, extractions and explicit  *)
(* retries happen twice; in the other a tick joins them, every extraction is *)
(* complete and each happens once.                                           *)
EXTENDS DocumentPipeline, TLC

VARIABLE ticking

Once == INSTANCE DocumentPipeline WITH MaxCopies <- 1

Symmetry == Permutations(Users) \cup Permutations(Schedulers)

MCInit == ticking \in BOOLEAN /\ Init /\ whole = ticking

MCNext ==
    /\ UNCHANGED ticking
    /\ \/ ticking /\ Once!Next
       \/ ~ticking /\ Next /\ \A s \in Schedulers : pc'[s] = "idle"

MCSpec == MCInit /\ [][MCNext]_<< vars, ticking >>
=============================================================================
