----------------------------- MODULE MCAccounts -----------------------------
(* Two accounts, two requests at once and one passkey beside TOTP.           *)
EXTENDS Accounts, TLC

CONSTANTS r1, r2, k1
Symmetry == Permutations(Requests)
=============================================================================
