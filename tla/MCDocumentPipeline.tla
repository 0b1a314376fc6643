------------------------- MODULE MCDocumentPipeline -------------------------
(* A small instance of DocumentPipeline for TLC, in which every extraction is *)
(* complete.                                                                  *)
EXTENDS DocumentPipeline, TLC

WholeInit == Init /\ whole

RetriesSpec == WholeInit /\ [][Next]_vars /\ Fairness
=============================================================================
