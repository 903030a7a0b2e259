---------------------------- MODULE MCAuditTamper ----------------------------
(* With up to four rows, an edit, a removal and an exchange have rows before *)
(* and after them, and there is room for what is written later.              *)
EXTENDS AuditTamper, TLC

Symmetry == Permutations(Workers) \cup Permutations(Contents)
=============================================================================
