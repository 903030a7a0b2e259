----------------------------- MODULE MCTunnels -----------------------------
(* Instance of Tunnels: two platforms, forms with and without what may be left blank, imports
   that say little, with BGP and without. *)
EXTENDS Tunnels, TLC

MCRefers == {<<"x", "fort">>, <<"y", "srx">>}
MCLinks == {{"t1", "t2"}}

End(side, ip, id, nets) == [side |-> side, ip |-> ip, id |-> id, nets |-> nets]
Given(id) == <<"given", id>>

Certificates ==
    [name |-> Blank, local |-> End("local", "a", NoId, {"n"}), remote |-> End("remote", Blank, NoId, {"m"}),
     auth |-> "certificate", psk |-> Blank, alg |-> Blank, tunnel_ip |-> "t1",
     bgp |-> [NoBgp EXCEPT !.on = TRUE, !.local_as = "1", !.local_ip = "t1"]]
Psk ==
    [name |-> Blank, local |-> End("local", "b", NoId, {"m"}), remote |-> End("remote", "a", Given("i"), {"n"}),
     auth |-> "psk", psk |-> "k", alg |-> "aes", tunnel_ip |-> "t2",
     bgp |-> [NoBgp EXCEPT !.peer_as = "1"]]
MCForms == {Certificates, Psk}

Sparse ==
    [Psk EXCEPT
        !.local = End("local", Blank, NoId, {}), !.remote.id = NoId, !.tunnel_ip = Blank, !.alg = "3des",
        !.bgp = [NoBgp EXCEPT !.on = TRUE, !.local_as = "2", !.peer_ip = "t1"]]
Mute == [Sparse EXCEPT !.bgp = NoBgp]
MCImports == {Sparse, Mute}

MCChoices == {[ip |-> Blank, id |-> NoId], [ip |-> "c", id |-> Given("j")]}
Swaps == Permutations(Conns)

Muted == {c \in There : conn[c].source = "imported" /\ conn[c].profile.bgp = NoBgp}

(* Bounds: what has no BGP is imported over an end of the only pair there is; a review is begun     *)
(* early and outlasts one change of others, but one of a peering with such an end may begin later.  *)
EarlyReviews ==
    /\ review = NoReview \/ changes <= 1 \/ (review.change.op = "bgp" /\ Muted # {})
    /\ \A c \in Muted : conn[c].peer # None /\ Cardinality(There) = 2
=============================================================================
