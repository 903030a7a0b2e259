----------------------------- MODULE MCAuditLog -----------------------------
(* Two overlapping requests over a log of up to four rows, the first of them *)
(* written before the chain existed.                                         *)
EXTENDS AuditLog, TLC

Symmetry == Permutations(Workers) \cup Permutations(Contents)
=============================================================================
