--------------------------- MODULE MCPreparation ----------------------------
(***************************************************************************)
(* Instances of Preparation for TLC.                                       *)
(***************************************************************************)
EXTENDS Preparation

\* INVENTORY is priced above the text-only calls, as in pricing.py.
FlatEstimates == [n \in PaidNodes |-> IF n = "extract_inventory" THEN 3 ELSE 2]
=============================================================================
