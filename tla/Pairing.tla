------------------------------ MODULE Pairing -------------------------------
(***************************************************************************)
(* Sites, their VPN connections and the links between the two ends of a    *)
(* tunnel, as the handlers of app/routers/sites.py change them.            *)
(*                                                                         *)
(* A handler reads with no lock held, decides, and writes everything in    *)
(* one flush at its end: what it means to write is a plan.  Handle serves  *)
(* a request at once; Read and Write serve one that others may overtake.   *)
(* UPDATE sets the columns that differ from what was read, and fails when  *)
(* the row has gone in between; DELETE of such a row does nothing.         *)
(*                                                                         *)
(* Of a connection's parameters and configuration only the writing is      *)
(* kept (field saved of a plan; the text is taken to change).  A name is   *)
(* the suffixes put to one base: <<>> is "x", <<2>> "x-2", <<2, 3>>        *)
(* "x-2-3".  Handlers that write parameters only (edit, apply-bgp) and the *)
(* names of sites are left out.                                            *)
(***************************************************************************)
EXTENDS Integers, FiniteSets, Sequences

CONSTANTS
    Requests,   \* requests that may be overtaken
    Names,      \* names that forms and imported configurations bring
    MaxConns,   \* bound on the ids of connections (for model checking)
    MaxSites,   \* bound on the ids of sites (for model checking)
    MaxSuffixes \* bound on the suffixes of a name (for model checking)

Null == 0       \* of a peer_connection_id, and of a site that has no id yet
NoPlan == <<>>

ASSUME PairingAssumption ==
    /\ Null \notin Requests
    /\ IsFiniteSet(Names) /\ Names \subseteq Seq(Nat)
    /\ MaxConns \in Nat /\ MaxSites \in Nat /\ MaxSuffixes \in Nat

VARIABLES
    sites,      \* the ids in the sites table
    conns,      \* the vpn_connections table: a function from ids to rows
    plan,       \* plan[r]: what r is about to write, or NoPlan
    overtaken   \* overtaken[r]: the tables have changed since r read them

vars == <<sites, conns, plan, overtaken>>

Ids == DOMAIN conns
NextId(ids) == IF ids = {} THEN 1 ELSE 1 + CHOOSE i \in ids : \A j \in ids : j <= i

OnSite(s) == {c \in Ids : conns[c].site = s}

\* Connections whose pages open: conn.site is there.
Housed == {c \in Ids : conns[c].site \in sites}
-----------------------------------------------------------------------------
\* Mistake: a clash is looked for, and the name is used nevertheless.
UniqueNameKept(taken, base) == base

\* _unique_conn_name, given the names that the query finds.
UniqueName(taken, base) ==
    LET Suffixed(i) == Append(base, i)
        free == {i \in 2..(Cardinality(taken) + 2) : Suffixed(i) \notin taken} IN
    IF base \notin taken THEN base
    ELSE Suffixed(CHOOSE i \in free : \A j \in free : i <= j)

\* Names in use on a site; a new one may find connections under its id.
TakenOn(s) == {conns[c].name : c \in OnSite(IF s = Null THEN NextId(sites) ELSE s)}

\* The names under which an import adds two connections one after the other.
UniqueNames(taken, n, m) ==
    LET first == UniqueName(taken, n) IN
    <<first, UniqueName(taken \cup {first}, m)>>

NoChange ==
    [set |-> <<>>,      \* columns of rows to update
     saved |-> {},      \* rows whose parameters are written
     add |-> <<>>,      \* names of the connections to insert
     home |-> Null,     \* and their site, Null for a new one
     link |-> Null,     \* the connection the new one is paired with
     gone |-> {},       \* connections to delete
     closed |-> {},     \* sites to delete
     sweeps |-> FALSE]  \* and the connections found on them by then

\* Peers as they will be: the rows where that is not what was read.
Repointed(peers) ==
    LET moved == {c \in DOMAIN peers : peers[c] # conns[c].peer} IN
    [c \in moved |-> [peer |-> peers[c]]]

\* Mistake: the partner's pointer is cleared wherever it points.
UnpairedAlways(c) ==
    LET p == conns[c].peer IN
    [d \in {c} \cup (IF p \in Ids THEN {p} ELSE {}) |-> Null]

\* _unpair: the partner lets go too, if it points back.
Unpaired(c) ==
    LET p == conns[c].peer
        back == IF p \in Ids /\ conns[p].peer = c THEN {p} ELSE {} IN
    [d \in {c} \cup back |-> Null]

\* Mistake: only the connection's own partner is told.
ForgottenByPartner(cs) ==
    {c \in Ids : conns[c].peer \in cs /\ \E d \in cs : conns[d].peer = c}

\* The connections whose pointer a deletion clears.
Forgotten(cs) == {c \in Ids : conns[c].peer \in cs}

\* A row that is deleted anyway is not updated.
Forgetting(cs) == [c \in Forgotten(cs) \ cs |-> [peer |-> Null]]
-----------------------------------------------------------------------------
\* What each handler means to write.
GenerateSite(n) == [NoChange EXCEPT !.add = <<UniqueName(TakenOn(Null), n)>>]

AddConnection(s, n) ==
    [NoChange EXCEPT !.add = <<UniqueName(TakenOn(s), n)>>, !.home = s]

\* do_import with no match, or when a duplicate is asked for.
ImportSite(n, m) == [NoChange EXCEPT !.add = UniqueNames(TakenOn(Null), n, m)]

\* The items of a configuration whose names are new to a site.
NewOn(s, names) == {i \in DOMAIN names : names[i] \notin TakenOn(s)}

\* Their names, each looked up before any of them is written.
AddedNames(s, names, order) ==
    [k \in DOMAIN order |-> UniqueName(TakenOn(s), names[order[k]])]

\* _apply_import_update: names that are there are updated, the others are added
\* in their order.
ImportUpdate(s, names) ==
    LET new == NewOn(s, names) IN
    {[NoChange EXCEPT !.saved = {c \in OnSite(s) : \E i \in DOMAIN names : conns[c].name = names[i]},
                      !.add = AddedNames(s, names, order), !.home = s] :
        order \in {q \in [1..Cardinality(new) -> new] :
                      \A k, l \in DOMAIN q : k < l => q[k] < q[l]}}

\* A configuration brings one new name twice.
BringsTwice(s, names) ==
    \E i, j \in NewOn(s, names) : i # j /\ names[i] = names[j]

\* What is imported here: configurations of one or two connections.
Imported == UNION {[1..k -> Names] : k \in 1..2}

\* merge_sites: names are looked up before any of the moves is written.
MergeSites(target, source) ==
    LET moved == OnSite(source)
        Columns(c) ==
            LET n == UniqueName(TakenOn(target), conns[c].name) IN
            IF n = conns[c].name THEN [site |-> target] ELSE [site |-> target, name |-> n] IN
    [NoChange EXCEPT !.set = [c \in moved |-> Columns(c)],
                     !.closed = {source}, !.sweeps = TRUE]

DeleteSite(s) ==
    [NoChange EXCEPT !.set = Forgetting(OnSite(s)), !.gone = OnSite(s), !.closed = {s}]

DeleteConnection(c) == [NoChange EXCEPT !.set = Forgetting({c}), !.gone = {c}]

\* c and d point at each other, the others that are told at nobody.
Coupling(c, d, others) ==
    [x \in {c, d} \cup others |-> CASE x = c -> d [] x = d -> c [] OTHER -> Null]

\* build_far_end, target "existing": the far end's old partner is not told.
PairExisting(c, far) ==
    [NoChange EXCEPT !.set = Repointed(Coupling(c, far, DOMAIN Unpaired(c))),
                     !.saved = {c, far}]

\* build_far_end, target "new", on a site or on one of its own.
BuildFarEnd(c, s, n) ==
    LET others == [d \in DOMAIN Unpaired(c) \ {c} |-> Null] IN
    [NoChange EXCEPT !.set = Repointed(others), !.saved = {c},
                     !.add = <<UniqueName(TakenOn(s), n)>>, !.home = s, !.link = c]

PairConfirm(c, d) ==
    [NoChange EXCEPT !.set = Repointed(Coupling(c, d, {})), !.saved = {c, d}]

Unpair(c) == [NoChange EXCEPT !.set = Repointed(Unpaired(c))]

RenameConnection(c, n) ==
    [NoChange EXCEPT !.set = [x \in {c} |-> [name |-> n]], !.saved = {c}]

\* Requests that the pages offer, as steps Does(plan); merges, and updates that
\* bring one new name twice, are apart.  A name in use on the site, or the old
\* one, renames nothing.
SomeRequest(Does(_)) ==
    \/ \E n \in Names : Does(GenerateSite(n))
    \/ \E n, m \in Names : Does(ImportSite(n, m))
    \/ \E s \in sites : Does(DeleteSite(s))
    \/ \E s \in sites, n \in Names : Does(AddConnection(s, n))
    \/ \E s \in sites, names \in Imported :
          ~BringsTwice(s, names) /\ \E p \in ImportUpdate(s, names) : Does(p)
    \/ \E c \in Housed : Does(DeleteConnection(c))
    \/ \E c \in Housed, n \in Names :
          n \notin TakenOn(conns[c].site) /\ Does(RenameConnection(c, n))
    \/ \E c \in Housed, s \in sites \cup {Null}, n \in Names : Does(BuildFarEnd(c, s, n))
    \/ \E c, d \in Housed : c # d /\ Does(PairExisting(c, d))
    \/ \E c, d \in Housed :
          /\ conns[c].site # conns[d].site
          /\ conns[c].peer = Null /\ conns[d].peer = Null
          /\ Does(PairConfirm(c, d))
    \/ \E c \in Ids : Does(Unpair(c))

SomeMerge(Does(_)) == \E t, s \in sites : t # s /\ Does(MergeSites(t, s))

SomeTwin(Does(_)) ==
    \E s \in sites, names \in Imported :
        BringsTwice(s, names) /\ \E p \in ImportUpdate(s, names) : Does(p)
-----------------------------------------------------------------------------
\* A row with some of its columns written.
Updated(row, columns) ==
    [k \in DOMAIN row |-> IF k \in DOMAIN columns THEN columns[k] ELSE row[k]]

\* The rows once the updates and inserts of plan p are written.
Written(p) ==
    LET top == NextId(Ids) - 1
        home == IF p.home = Null THEN NextId(sites) ELSE p.home IN
    [c \in Ids \cup {top + i : i \in DOMAIN p.add} |->
        CASE c > top -> [site |-> home, name |-> p.add[c - top], peer |-> p.link]
          [] c <= top /\ c = p.link -> [conns[c] EXCEPT !.peer = top + 1]
          [] c <= top /\ c # p.link /\ c \in DOMAIN p.set -> Updated(conns[c], p.set[c])
          [] OTHER -> conns[c]]

\* Mistake: the source still lists the connections that moved.
SweptAlong(p, rows) ==
    IF p.sweeps THEN DOMAIN p.set \cup {c \in DOMAIN rows : rows[c].site \in p.closed} ELSE {}

\* db.delete(source) in merge_sites lists the connections anew.
Swept(p, rows) ==
    IF p.sweeps THEN {c \in DOMAIN rows : rows[c].site \in p.closed} ELSE {}

\* The rows to update are there.
Present(p) == DOMAIN p.set \cup p.saved \cup ({p.link} \ {Null}) \subseteq Ids

\* uq_conn_site_name.
Unique(rows) ==
    Cardinality({<<rows[c].site, rows[c].name>> : c \in DOMAIN rows}) = Cardinality(DOMAIN rows)

\* The flush succeeds.
Fits(p) == Present(p) /\ Unique(Written(p))

Apply(p) ==
    LET rows == Written(p) IN
    /\ conns' = [c \in DOMAIN rows \ (p.gone \cup Swept(p, rows)) |-> rows[c]]
    /\ sites' = (sites \cup (IF p.add # <<>> /\ p.home = Null THEN {NextId(sites)} ELSE {}))
                \ p.closed

\* For model checking.
Bounded(p) ==
    /\ p.add # <<>> => NextId(Ids) + Len(p.add) <= MaxConns + 1
    /\ p.add # <<>> /\ p.home = Null => NextId(sites) <= MaxSites
    /\ \A i \in DOMAIN p.add : Len(p.add[i]) <= MaxSuffixes
    /\ \A c \in DOMAIN p.set : "name" \in DOMAIN p.set[c] => Len(p.set[c].name) <= MaxSuffixes

Overtakes(r) ==
    overtaken' = [q \in Requests |->
                     /\ q # r /\ plan[q] # NoPlan
                     /\ overtaken[q] \/ conns' # conns \/ sites' # sites]

Handle(p) ==
    /\ Bounded(p) /\ Fits(p) /\ Apply(p)
    /\ Overtakes(Null)
    /\ UNCHANGED plan

Read(r, p) ==
    /\ plan[r] = NoPlan
    /\ plan' = [plan EXCEPT ![r] = p]
    /\ UNCHANGED <<sites, conns, overtaken>>

Write(r) ==
    /\ plan[r] # NoPlan
    /\ Bounded(plan[r]) /\ Fits(plan[r]) /\ Apply(plan[r])
    /\ plan' = [plan EXCEPT ![r] = NoPlan]
    /\ Overtakes(r)

\* Everything is rolled back, and the answer is an error.
Fail(r) ==
    /\ plan[r] # NoPlan /\ ~Fits(plan[r])
    /\ plan' = [plan EXCEPT ![r] = NoPlan]
    /\ overtaken' = [overtaken EXCEPT ![r] = FALSE]
    /\ UNCHANGED <<sites, conns>>

Init ==
    /\ sites = {} /\ conns = <<>>
    /\ plan = [r \in Requests |-> NoPlan]
    /\ overtaken = [r \in Requests |-> FALSE]

Next ==
    \/ SomeRequest(Handle) \/ SomeMerge(Handle)
    \/ \E r \in Requests :
          LET ReadBy(p) == Read(r, p) IN
          SomeRequest(ReadBy) \/ SomeMerge(ReadBy) \/ SomeTwin(ReadBy)
    \/ \E r \in Requests : Write(r) \/ Fail(r)

Spec == Init /\ [][Next]_vars
-----------------------------------------------------------------------------
\* No request that others have overtaken ends in this step.
Lone == \A r \in Requests : plan[r] # NoPlan /\ plan'[r] = NoPlan => ~overtaken[r]

Dangling == {c \in Ids : conns[c].peer \notin Ids \cup {Null}}
Homeless == Ids \ Housed

\* A request that nobody overtakes leaves no connection pointing at a far end
\* that is not there, and none on a site that is not there: deletions clear
\* every pointer to what they delete (also those of connections that it does
\* not point back at), and a merge takes all connections along.
NothingDangles == [][Lone => Dangling' \subseteq Dangling /\ Homeless' \subseteq Homeless]_<<sites, conns>>

Mutual(c, d) == {c, d} \subseteq Ids /\ conns[c].peer = d /\ conns[d].peer = c

Free(c) == conns[c].peer = Null
Coupled(c) == \E d \in Ids : Mutual(c, d)

\* When a pair parts and both ends remain, then either both are free, or at
\* least one of them is in a new pair: nobody loses its far end because a third
\* connection, which still points at it, is unpaired (_unpair's last check).
\* The other end need not be free: build_far_end does not tell the old partner
\* of a far end it pairs again, which goes on pointing there.
PairsPartCleanly ==
    [][Lone => \A c, d \in Ids : Mutual(c, d) /\ {c, d} \subseteq Ids' =>
          Mutual(c, d)' \/ (Free(c) /\ Free(d))' \/ Coupled(c)' \/ Coupled(d)']_<<sites, conns>>

\* When none is under way, every request that the pages offer fits the tables:
\* no name clashes with uq_conn_site_name.  Two exceptions fail though nobody
\* overtakes them: a merge may, as the names it gives are looked up before any is
\* written, and an import that updates a site and brings one new name twice does,
\* for the same reason (_apply_import_update flushes once, after its loop).
RequestsFit ==
    LET Misfits(p) == ~Fits(p) IN
    (\A r \in Requests : plan[r] = NoPlan) => ~SomeRequest(Misfits)
=============================================================================
