------------------------------ MODULE Tunnels ------------------------------
(***************************************************************************)
(* What the connections of VCM say (app/srx/model.py, suggest.py,          *)
(* interop.py, defaults.py and the handlers of app/routers/sites.py that   *)
(* write profiles): a tunnel has two ends, on two devices, held as two     *)
(* rows that forms, imports, pairing and merging change one at a time.     *)
(*                                                                         *)
(* Handlers are atomic, but what they show for approval may be approved    *)
(* after others have changed it.  Of a configuration only the name is kept *)
(* that its objects carry; of a profile, all that the two ends must agree  *)
(* on but the lifetimes, which go the way of the proposals.  Which rows    *)
(* there are, and who points at whom, is the subject of Pairing; here a    *)
(* site is there when it has a connection.                                 *)
(***************************************************************************)
EXTENDS Naturals, FiniteSets

CONSTANTS
    Conns,      \* connection ids
    Sites,      \* sites
    Names,      \* names of connections
    Refers,     \* pairs of a name and a site: the name refers to the site's
    Links,      \* pairs of tunnel addresses in one small subnet
    Forms,      \* what is filled into the form of a connection
    Imports,    \* what an importer finds in a configuration
    Choices,    \* what is filled in about a far end: its address and id
    Algorithms, \* proposals
    BuiltIn,    \* the proposal that stands in the code
    MaxRows,    \* bound on the rows there are at first (for model checking)
    MaxChanges  \* bound on the changes (for model checking)

Blank == ""
NoId == <<>>
None == "none"
NoBgp == [on |-> FALSE, local_as |-> Blank, peer_as |-> Blank,
          local_ip |-> Blank, peer_ip |-> Blank]

\* A connection's parameters: two ends, and what holds for both.
IsProfile(p) ==
    /\ DOMAIN p = {"name", "local", "remote", "auth", "psk", "alg", "tunnel_ip", "bgp"}
    /\ DOMAIN p.local = {"side", "ip", "id", "nets"} /\ DOMAIN p.remote = DOMAIN p.local
    /\ DOMAIN p.bgp = DOMAIN NoBgp

ASSUME TunnelsAssumption ==
    /\ IsFiniteSet(Conns)
    /\ None \notin Conns \cup Sites
    /\ \A p \in Forms \cup Imports : IsProfile(p)
    /\ Refers \subseteq Names \X Sites
    /\ BuiltIn \in Algorithms
    /\ MaxRows \in Nat /\ MaxChanges \in Nat

VARIABLES
    conn,       \* conn[c]: the row of connection c, or Absent
    defaults,   \* the parameters that blank fields of a form get
    review,     \* the change somebody has been shown and has yet to approve
    changes     \* the number of changes

vars == <<conn, defaults, review, changes>>

Absent == [site |-> None]
NoReview == [op |-> "none"]
NoForm == [auth |-> None]

There == {c \in Conns : conn[c] # Absent}
On(s) == {c \in There : conn[c].site = s}
FreeNames(s) == Names \ {conn[c].name : c \in On(s)}
Or(a, b) == IF a # Blank THEN a ELSE b
-----------------------------------------------------------------------------
\* suggest_ike_id: what stands for a blank identity.
SuggestedId(p, e) ==
    CASE e.id # NoId -> e.id
      [] e.id = NoId /\ p.auth = "psk" /\ e.ip # Blank -> <<"ip", e.ip>>
      [] OTHER -> <<"fqdn", p.name, e.side>>

FilledIds(p) ==
    [p EXCEPT !.local.id = SuggestedId(p, p.local), !.remote.id = SuggestedId(p, p.remote)]

\* The profile of the other end.
Mirror(p, name) ==
    LET b == p.bgp IN
    [p EXCEPT
        !.name = name, !.local = p.remote, !.remote = p.local, !.tunnel_ip = Blank,
        !.bgp = IF ~b.on THEN b
                ELSE [b EXCEPT !.local_as = b.peer_as, !.peer_as = b.local_as,
                               !.local_ip = b.peer_ip, !.peer_ip = b.local_ip]]

OwnAddress(p) == Or(p.tunnel_ip, p.bgp.local_ip)

\* infer_bgp has something to go by.
Infers(near, peer) ==
    \/ OwnAddress(near) # Blank \/ near.bgp.local_as # Blank
    \/ OwnAddress(peer) # Blank \/ peer.bgp.peer_ip # Blank \/ peer.bgp.on

\* near with the peering that the two profiles tell of.
WithInferredBgp(near, peer) ==
    LET told(as) == IF peer.bgp.on THEN as ELSE Blank IN
    [near EXCEPT !.bgp =
        [on |-> TRUE,
         local_as |-> Or(near.bgp.local_as, told(peer.bgp.peer_as)),
         peer_as |-> Or(near.bgp.peer_as, told(peer.bgp.local_as)),
         local_ip |-> OwnAddress(near),
         peer_ip |-> Or(OwnAddress(peer), peer.bgp.peer_ip)]]

\* The profile that a form describes.
FromForm(name, f) ==
    [f EXCEPT !.name = name, !.alg = Or(@, defaults)]

\* _save_profile: what a row holds and hands out from now on.
Saved(row, p) ==
    [row EXCEPT !.profile = FilledIds(p), !.objects = p.name]

\* A row that has not been saved yet.
NewRow(s, name, source) ==
    [site |-> s, name |-> name, source |-> source, peer |-> None,
     profile |-> None, objects |-> None,
     moved |-> FALSE, built_with |-> None, known |-> FALSE]

\* _unpair, in rows.
Unpaired(rows, c) ==
    LET d == rows[c].peer IN
    IF d = None THEN rows
    ELSE [rows EXCEPT ![d].peer = IF @ = c THEN None ELSE @, ![c].peer = None]
-----------------------------------------------------------------------------
\* What the handlers that ask for approval are about to write, and have shown.

\* Mistake: the form keeps the name that the profile has.
EditedUnpinned(c, f) ==
    [conn EXCEPT ![c] = [Saved(@, FromForm(conn[c].profile.name, f))
                           EXCEPT !.moved = FALSE, !.built_with = None]]

\* edit_connection.
Edited(c, f) ==
    [conn EXCEPT ![c] =
        [Saved(@, FromForm(conn[c].name, f)) EXCEPT !.moved = FALSE, !.built_with = None]]

\* pair_confirm: each end keeps its own parameters.
Joined(c, d) ==
    [conn EXCEPT ![c] = [Saved(@, @.profile) EXCEPT !.peer = d],
                 ![d] = [Saved(@, @.profile) EXCEPT !.peer = c]]

\* Mistake: both ends are inferred from what was there before.
PeeredAtOnce(c) ==
    LET d == conn[c].peer
        cp == conn[c].profile
        pp == conn[d].profile IN
    [conn EXCEPT ![c] = IF Infers(cp, pp) THEN Saved(@, WithInferredBgp(cp, pp)) ELSE @,
                 ![d] = IF Infers(pp, cp) THEN Saved(@, WithInferredBgp(pp, cp)) ELSE @]

\* What apply_inferred_bgp makes of this end, and from the outcome of the other
\* one, wherever that one points.
NearPeered(c) ==
    LET p == conn[c].profile
        q == conn[conn[c].peer].profile IN
    IF Infers(p, q) THEN WithInferredBgp(p, q) ELSE p

FarPeered(c) ==
    LET q == conn[conn[c].peer].profile IN
    IF Infers(q, NearPeered(c)) THEN WithInferredBgp(q, NearPeered(c)) ELSE q

\* The ends a peering is inferred for; the others are not saved.
Inferred(c) ==
    LET d == conn[c].peer IN
    {x \in {c, d} : IF x = c THEN Infers(conn[c].profile, conn[d].profile)
                    ELSE Infers(conn[d].profile, NearPeered(c))}

\* apply_inferred_bgp.
Peered(c) ==
    LET d == conn[c].peer IN
    [conn EXCEPT ![c] = IF c \in Inferred(c) THEN Saved(@, NearPeered(c)) ELSE @,
                 ![d] = IF d \in Inferred(c) THEN Saved(@, FarPeered(c)) ELSE @]

MayJoin(c, d) == c # d /\ conn[c].peer = None /\ conn[d].peer = None

\* The outcome of a change, given the fields of the form behind it.
Outcome(r) ==
    CASE r.op = "edit" -> Edited(r.c, r.form)
      [] r.op = "pair" -> Joined(r.c, r.d)
      [] r.op = "bgp" -> Peered(r.c)

\* The handler answers with a diff, or does what it is asked to.
Possible(r) ==
    /\ {r.c, r.d} \subseteq There
    /\ r.op = "pair" => MayJoin(r.c, r.d)
    /\ r.op = "bgp" => conn[r.c].peer # None

Asked(op, c, d, form) == [op |-> op, c |-> c, d |-> d, form |-> form]
Changes ==
    {Asked("edit", c, c, f) : c \in There, f \in Forms}
    \cup {Asked("pair", c, d, NoForm) : c \in There, d \in There}
    \cup {Asked("bgp", c, conn[c].peer, NoForm) : c \in {x \in There : conn[x].peer # None}}

\* The profiles that the handler has in hand when it shows the diff.
Meant(r) ==
    CASE r.op = "edit" -> [x \in {r.c} |-> FromForm(conn[x].name, r.form)]
      [] r.op = "pair" -> [x \in {r.c, r.d} |-> conn[x].profile]
      [] r.op = "bgp" -> [x \in {r.c, r.d} |-> IF x = r.c THEN NearPeered(r.c) ELSE FarPeered(r.c)]

\* Mistake: what is shown has the identities that were left blank.
ShownUnfilled(r) ==
    [x \in {r.c, r.d} |-> [profile |-> Meant(r)[x], objects |-> Meant(r)[x].name]]

\* _preview_config of each end, also of one that will not be saved.
Shown(r) ==
    [x \in {r.c, r.d} |-> [profile |-> FilledIds(Meant(r)[x]), objects |-> Meant(r)[x].name]]
-----------------------------------------------------------------------------
\* Somebody else changes what a pending review is about.
Touched ==
    /\ review # NoReview
    /\ LET r == review.change IN
       \/ conn'[r.c] # conn[r.c] \/ conn'[r.d] # conn[r.d]
       \/ r.op = "edit" /\ defaults' # defaults

KeepReview == review' = IF Touched THEN [review EXCEPT !.touched = TRUE] ELSE review

Counted == changes < MaxChanges /\ changes' = changes + 1

Write(rows) == Counted /\ conn' = rows /\ UNCHANGED defaults /\ KeepReview

\* The diff is shown.
Preview ==
    /\ review = NoReview /\ changes < MaxChanges
    /\ \E r \in Changes :
          /\ Possible(r)
          /\ review' = [op |-> "asked", change |-> r, shown |-> Shown(r), touched |-> FALSE]
    /\ UNCHANGED <<conn, defaults, changes>>

\* The hidden fields of the diff come back with confirm=1.
Approve ==
    /\ review # NoReview
    /\ Possible(review.change)
    /\ conn' = Outcome(review.change)
    /\ review' = NoReview
    /\ Counted
    /\ UNCHANGED defaults

\* The page is left, or the row is gone, or paired by now.
Dismiss ==
    /\ review # NoReview
    /\ review' = NoReview
    /\ UNCHANGED <<conn, defaults, changes>>

\* Others who review and approve before anything gets in between.
Change == \E r \in Changes : Possible(r) /\ Write(Outcome(r))
-----------------------------------------------------------------------------
\* add_connection, and generate_site if the site is a new one.
Added(s, name, f) == Saved(NewRow(s, name, "generated"), FromForm(name, f))

AddConnection ==
    \E c \in Conns \ There, s \in Sites, f \in Forms :
        \E n \in FreeNames(s) : Write([conn EXCEPT ![c] = Added(s, n, f)])

\* What has been read from a device, under the name it has there; nothing is
\* filled in or generated.
Imported(row, i, name) ==
    [row EXCEPT !.profile = [i EXCEPT !.name = row.name], !.objects = name,
                !.source = "imported", !.built_with = None]

Found(s, n, i, name) == Imported(NewRow(s, n, "imported"), i, name)

\* do_import as a new site.  The connections found in one configuration get names
\* one after the other: a name that an earlier one got is not kept.
Import ==
    \E s \in Sites, C \in (SUBSET (Conns \ There)) \ {{}} :
        /\ On(s) = {}
        /\ \E i \in [C -> Imports], name, unique \in [C -> Names],
              turn \in [C -> 1..Cardinality(C)] :
              /\ \A c, d \in C : c # d => unique[c] # unique[d]
              /\ \A c \in C : \/ unique[c] = name[c]
                             \/ \E d \in C : turn[d] < turn[c] /\ unique[d] = name[c]
              /\ Write([c \in Conns |->
                    IF c \in C THEN Found(s, unique[c], i[c], name[c])
                    ELSE conn[c]])

\* The connection of the site that an imported one stands for.
Matched(s, name) == {c \in On(s) : conn[c].name = name}

\* _apply_import_update, on whatever platform the site was.
ImportUpdate ==
    \E s \in Sites, i \in Imports, name \in Names :
        /\ On(s) # {}
        /\ \/ \E c \in Matched(s, name) :
                 Write([conn EXCEPT ![c] = [Imported(@, i, name) EXCEPT !.moved = FALSE]])
           \/ /\ Matched(s, name) = {}
              /\ \E c \in Conns \ There :
                    Write([conn EXCEPT ![c] = Found(s, name, i, name)])

\* merge_sites: nothing but names and sites of connections changes.
Merge ==
    \E source, target \in Sites :
        /\ source # target /\ On(source) # {} /\ On(target) # {}
        /\ \E new \in [On(source) -> Names] :
              /\ \A c \in On(source) :
                    /\ new[c] \in FreeNames(target)
                    /\ conn[c].name \in FreeNames(target) => new[c] = conn[c].name
                    /\ \A d \in On(source) \ {c} : new[d] # new[c]
              /\ Write([c \in Conns |->
                    IF c \notin On(source) THEN conn[c]
                    ELSE [conn[c] EXCEPT !.site = target, !.name = new[c],
                                         !.moved = @ \/ new[c] # conn[c].name]])

\* What a rename makes of a row.
Renamed(row, n) ==
    [Saved(row, [row.profile EXCEPT !.name = n]) EXCEPT !.name = n, !.moved = FALSE]

\* rename_connection.
Rename ==
    \E c \in There : \E n \in FreeNames(conn[c].site) :
        Write([conn EXCEPT ![c] = Renamed(@, n)])

\* Mistake: this end does not learn the address of the far end.
PointedNowhere(p, ip) == p

\* What this end learns of a new far end.
PointedAt(p, ip) == [p EXCEPT !.remote.ip = Or(ip, @)]

\* build_far_end with a new connection on any site.
BuildNew ==
    \E c \in There, d \in Conns, s \in Sites, o \in Choices :
        /\ d \notin There
        /\ \E n \in FreeNames(s) :
           LET rows == Unpaired(conn, c)
               p == rows[c].profile
               m == Mirror(p, n)
               far == [m EXCEPT !.local.ip = Or(o.ip, @),
                                !.local.id = IF o.id # NoId THEN o.id ELSE @]
               near == PointedAt(p, o.ip)
               known == p.local.id # NoId /\ p.remote.id # NoId /\ o.id = NoId
           IN  Write([rows EXCEPT
                 ![d] = [Saved(NewRow(s, n, "generated"), far)
                           EXCEPT !.peer = c, !.built_with = c, !.known = known],
                 ![c] = [Saved(@, near)
                           EXCEPT !.peer = d, !.built_with = d, !.known = known]])

\* build_far_end with a connection that is there: it keeps its own end.
BuildExisting ==
    \E c, d \in There :
        /\ c # d
        /\ LET rows == Unpaired(conn, c)
               p == rows[c].profile
               e == rows[d].profile
               far == [Mirror(p, rows[d].name) EXCEPT !.local = e.local]
               near == [PointedAt(p, e.local.ip) EXCEPT !.remote.nets = IF e.local.nets # {} THEN e.local.nets ELSE @]
               fits == e.local.ip # Blank /\ e.local.nets # {}
               known == p.local.id # NoId /\ e.local.id # NoId /\ p.remote.id = e.local.id
           IN  Write([rows EXCEPT
                 ![d] = [Saved(@, far) EXCEPT !.peer = c, !.moved = FALSE,
                           !.built_with = IF fits THEN c ELSE None, !.known = known],
                 ![c] = [Saved(@, near) EXCEPT !.peer = d,
                           !.built_with = IF fits THEN d ELSE None, !.known = known]])

\* unpair_connection.
Unpair == \E c \in There : conn[c].peer # None /\ Write(Unpaired(conn, c))

\* delete_connection and delete_site: nobody points at what is gone.
Delete ==
    \E c \in There :
        Write([d \in Conns |->
            CASE d = c -> Absent
              [] d \in There \ {c} /\ conn[d].peer = c -> [conn[d] EXCEPT !.peer = None]
              [] OTHER -> conn[d]])

\* set_defaults.
SaveDefaults ==
    /\ defaults' \in Algorithms \ {defaults}
    /\ UNCHANGED conn
    /\ Counted
    /\ KeepReview

\* The bound is reached.
Rest == changes = MaxChanges /\ review = NoReview /\ UNCHANGED vars
-----------------------------------------------------------------------------
\* Some connections have been added or imported.
Init ==
    /\ defaults = BuiltIn
    /\ \E C \in {X \in SUBSET Conns : Cardinality(X) <= MaxRows} :
          \E row \in [C -> {Added(s, n, f) : s \in Sites, n \in Names, f \in Forms}
                           \cup {Found(s, n, i, n) : s \in Sites, n \in Names, i \in Imports}] :
              /\ \A c, d \in C :
                    c # d => row[c].site # row[d].site \/ row[c].name # row[d].name
              /\ conn = [c \in Conns |-> IF c \in C THEN row[c] ELSE Absent]
    /\ review = NoReview
    /\ changes = 0

Next ==
    \/ AddConnection \/ Import \/ ImportUpdate \/ Merge \/ Rename
    \/ BuildNew \/ BuildExisting \/ Unpair \/ Delete
    \/ Change \/ SaveDefaults
    \/ Preview \/ Approve \/ Dismiss \/ Rest

Spec == Init /\ [][Next]_vars
-----------------------------------------------------------------------------
\* Two ends of one tunnel.
Pair(c, d) == conn[c].peer = d /\ conn[d].peer = c

\* interop.mismatches has nothing to say, from either end, and each end sends
\* to where the other one is.
Fit(p, q) ==
    /\ p.auth = q.auth /\ p.psk = q.psk /\ p.alg = q.alg
    /\ p.local.nets = q.remote.nets /\ p.remote.nets = q.local.nets
    /\ p.remote.ip = q.local.ip /\ q.remote.ip = p.local.ip

IdsCross(p, q) == p.local.id = q.remote.id /\ p.remote.id = q.local.id

\* Two ends that build_far_end has made to match go on matching, whatever is
\* renamed, merged, unpaired and paired again or built for others meanwhile,
\* until somebody edits one of them or imports over it.  Their identities match
\* if this end had both of them when the other was built, and the far end no
\* identity of its own.
BuiltPairsFit ==
    \A c, d \in There :
        Pair(c, d) /\ conn[c].built_with = d /\ conn[d].built_with = c =>
            /\ Fit(conn[c].profile, conn[d].profile)
            /\ conn[c].known => IdsCross(conn[c].profile, conn[d].profile)

\* Two configurations for one device never define the same objects, unless one
\* of the connections got another name in a merge (its profile keeps the former
\* name) or was imported at some time (edits and renames leave its source as it
\* is, so this excuses more than the device's own configuration).
ObjectsDistinct ==
    \A c, d \in There :
        c # d /\ conn[c].site = conn[d].site /\ conn[c].objects = conn[d].objects =>
            \E x \in {c, d} : conn[x].moved \/ conn[x].source = "imported"

\* Distinct addresses in one small subnet, and names that refer to sites.
Linked(p, q) == p.tunnel_ip # q.tunnel_ip /\ {p.tunnel_ip, q.tunnel_ip} \in Links
NamesEnd(c, d) == <<conn[c].name, conn[d].site>> \in Refers

\* Mistake: the addresses are compared one way.
AddressesMeetOneWay(p, q) == p.remote.ip # Blank /\ p.remote.ip = q.local.ip

AddressesMeet(p, q) ==
    /\ p.remote.ip # Blank /\ p.remote.ip = q.local.ip
    /\ p.local.ip # Blank /\ p.local.ip = q.remote.ip

NetsMeet(p, q) ==
    /\ p.local.nets # {}
    /\ p.local.nets = q.remote.nets /\ p.remote.nets = q.local.nets

\* _suggest_peers: the connections that may be the far end of c.
Suggested(c) ==
    {d \in There \ {c} :
        LET p == conn[c].profile
            q == conn[d].profile IN
        /\ conn[c].peer = None /\ conn[d].peer = None
        /\ conn[c].site # conn[d].site
        /\ \/ AddressesMeet(p, q) \/ NetsMeet(p, q) \/ Linked(p, q)
           \/ NamesEnd(c, d) /\ NamesEnd(d, c)}

\* Each end of a presumed pair suggests the other, unless it protects no
\* networks, and any suggestion can be confirmed.
SuggestedBothWays ==
    \A c \in There : \A d \in Suggested(c) :
        /\ c \in Suggested(d) \/ conn[d].profile.local.nets = {}
        /\ MayJoin(c, d)

\* An end that the diff of an inferred peering shows and its approval leaves alone.
NothingInferred(r, x) == r.op = "bgp" /\ x \notin Inferred(r.c)

\* What is approved is what was shown, unless others have changed one of the
\* connections, or for an edit the defaults, in between.  One change is shown
\* and not made: apply_inferred_bgp renders both ends anew, and saves only those
\* for which it has inferred a peering.
ApprovedAsShown ==
    [][review # NoReview /\ ~review.touched /\ review' = NoReview /\ changes' # changes =>
          \A x \in DOMAIN review.shown :
              \/ review.shown[x] = [profile |-> conn'[x].profile, objects |-> conn'[x].objects]
              \/ NothingInferred(review.change, x) /\ conn'[x] = conn[x]]_vars

\* Nothing that one of the two knows contradicts the other, and what an end
\* without BGP says of AS numbers is not needed: the far end's are not read, nor
\* are those of this end if nothing makes it a neighbour first.
Consistent(p, q) ==
    /\ q.bgp.on \/ (q.bgp.local_as = Blank /\ q.bgp.peer_as = Blank)
    /\ Infers(p, q) \/ p.bgp.on \/ p.bgp.peer_as = Blank
    /\ p.bgp.local_as = q.bgp.peer_as \/ Blank \in {p.bgp.local_as, q.bgp.peer_as}
    /\ p.bgp.peer_as = q.bgp.local_as \/ Blank \in {p.bgp.peer_as, q.bgp.local_as}

\* Applying the inferred peering makes the two ends neighbours of each other:
\* the AS numbers cross if they did not contradict each other before, and the
\* addresses if each end has one.
PeeringMirrors ==
    [][\A c \in There :
          conn[c].peer # None /\ conn' = Peered(c) /\ conn' # conn =>
              LET d == conn[c].peer
                  p == conn[c].profile
                  q == conn[d].profile
                  b == conn'[c].profile.bgp
                  e == conn'[d].profile.bgp
              IN  /\ Consistent(p, q) => b.local_as = e.peer_as /\ b.peer_as = e.local_as
                  /\ OwnAddress(p) # Blank /\ OwnAddress(q) # Blank =>
                        b.local_ip = e.peer_ip /\ b.peer_ip = e.local_ip]_vars
=============================================================================
