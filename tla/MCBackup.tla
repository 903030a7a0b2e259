------------------------------ MODULE MCBackup ------------------------------
(* Two tables, and a file from an instance that had nothing in the second.   *)
EXTENDS Backup, TLC

CONSTANTS r1, r2, users, sites
Symmetry == Permutations(Requests)
MCTables == <<users, sites>>
MCForeign == {users :> 1 @@ sites :> 0}
=============================================================================
