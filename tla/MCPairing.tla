----------------------------- MODULE MCPairing -----------------------------
(* Instance of Pairing: one request that the others may overtake. *)
EXTENDS Pairing

MCNames == {<<>>}

(* Bounds: no name ends in more than -2, and at most one connection has lost its far end or its site. *)
FewLost ==
    /\ \A c \in Ids : \A i \in DOMAIN conns[c].name : conns[c].name[i] <= 2
    /\ Cardinality(Dangling \cup Homeless) <= 1
=============================================================================
