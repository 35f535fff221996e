--------------------------- MODULE MCStreamChannel ---------------------------
(* Instances of StreamChannel for TLC and the properties they check.       *)
EXTENDS StreamRefinement
=============================================================================
