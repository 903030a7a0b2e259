------------------------------ MODULE MCSignIn ------------------------------
(* One person at two browsers.                                               *)
EXTENDS SignIn

CONSTANTS b1, b2
=============================================================================
