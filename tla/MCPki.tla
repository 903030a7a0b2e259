------------------------------- MODULE MCPki -------------------------------
(* An offline root CA outside VCM, which may answer a CSR as asked or with a *)
(* certificate of another name that says nothing of being a CA; two names.   *)
EXTENDS Pki

CONSTANTS root, site, offline

MCOutside ==
    {[subject |-> root, issuer |-> root, key |-> offline, signer |-> offline,
      serial |-> 1, bc |-> "ca", n |-> 0]}

MCReplies == {<<site, "ca">>, <<root, "absent">>}

\* A bound: chains of three CAs with three certificates in existence, and with one
\* certificate row if at most one key was generated; or four certificates in
\* existence with at most three rows, two of them CAs, one generated key and
\* well-formed replies.
Few ==
    \/ /\ CertIds \subseteq {1} /\ Cardinality(world) <= 3
       /\ Cardinality(Ids) + Cardinality(CertIds) <= 3 \/ lastKey <= 1
    \/ /\ Ids \subseteq 1 .. 2 /\ Cardinality(Ids) + Cardinality(CertIds) <= 3
       /\ lastKey <= 1 /\ \A x \in world : x.bc # "absent"
=============================================================================
