----------------------------- MODULE MCJobEvidence -----------------------------
(* JobEvidence for TLC: one job of one sheet. *)
EXTENDS JobEvidence

MCSheets == [j \in Jobs |-> 1]
=============================================================================
