------------------------------ MODULE MCAccess ------------------------------
(* Instance of Access: three people, a home address and the loopback. *)
EXTENDS Access, TLC

CONSTANTS root, ann, bob

People == Permutations({ann, bob})
=============================================================================
