--------------------------- MODULE Tunnels_proofs ---------------------------
(***************************************************************************)
(* Proofs about Tunnels, for any connections, sites, forms and imports.    *)
(*                                                                         *)
(* What must hold of the table of connections is stated of a table t, as   *)
(* every handler makes one table of another, and approving makes the one   *)
(* that was shown.                                                         *)
(***************************************************************************)
EXTENDS Tunnels, TLAPS

ThereIn(t) == {c \in Conns : t[c] # Absent}

RowFields == {"site", "name", "source", "peer", "profile", "objects", "moved", "built_with", "known"}

\* A row of the table, whole.
Row(row) == DOMAIN row = RowFields /\ row.site \in Sites /\ IsProfile(row.profile)

Shape(t) == DOMAIN t = Conns /\ \A c \in ThereIn(t) : Row(t[c])

\* Nobody points at itself, nor at what is gone.
Peers(t) == \A c \in ThereIn(t) : t[c].peer \in {None} \cup (ThereIn(t) \ {c})

\* A row is named as its profile is, and its configuration as the row, unless
\* it was moved or imported.
OwnName(row) ==
    ~row.moved => row.profile.name = row.name /\ (row.source # "imported" => row.objects = row.name)

Named(t) ==
    /\ \A c \in ThereIn(t) : OwnName(t[c])
    /\ \A c, d \in ThereIn(t) : c # d /\ t[c].site = t[d].site => t[c].name # t[d].name

\* The two rows of a tunnel built as one: paired or not, they match.
Match(row, far) ==
    /\ Fit(row.profile, far.profile)
    /\ row.known => /\ IdsCross(row.profile, far.profile)
                    /\ row.profile.local.id # NoId /\ row.profile.remote.id # NoId

Built(t) ==
    \A c, d \in ThereIn(t) : t[c].built_with = d /\ t[d].built_with = c => Match(t[c], t[d])

Good(t) == Shape(t) /\ Peers(t) /\ Named(t) /\ Built(t)

\* What has been shown is what the page would show now, if nobody has touched it.
IsChange(r) ==
    /\ DOMAIN r = {"op", "c", "d", "form"}
    /\ r.c \in Conns /\ r.d \in Conns
    /\ \/ r.op = "edit" /\ r.d = r.c /\ r.form \in Forms
       \/ r.op \in {"pair", "bgp"} /\ r.c # r.d

Pending(r) ==
    /\ {r.c, r.d} \subseteq There
    /\ r.op = "bgp" => conn[r.c].peer = r.d

ReviewInv ==
    review # NoReview =>
        /\ DOMAIN review = {"op", "change", "shown", "touched"} /\ review.op = "asked"
        /\ IsChange(review.change)
        /\ ~review.touched => Pending(review.change) /\ review.shown = Shown(review.change)

Inv == Good(conn) /\ ReviewInv
-----------------------------------------------------------------------------
(* Rows: what saving one does. *)

\* An end whose blank identity may have been filled.
EndOf(e, end) ==
    /\ end.side = e.side /\ end.ip = e.ip /\ end.nets = e.nets
    /\ e.id # NoId => end.id = e.id

\* What filling the identities of a profile leaves alone.
Filled(p, q) ==
    /\ IsProfile(q)
    /\ q.name = p.name /\ q.auth = p.auth /\ q.psk = p.psk /\ q.alg = p.alg
    /\ q.tunnel_ip = p.tunnel_ip /\ q.bgp = p.bgp
    /\ EndOf(p.local, q.local) /\ EndOf(p.remote, q.remote)

\* The identities are all that is filled, and only where they are blank.
LEMMA FilledFacts ==
    ASSUME NEW p, IsProfile(p)
    PROVE  Filled(p, FilledIds(p))
<1> DEFINE q == FilledIds(p)
<1>1. SuggestedId(p, p.local) = p.local.id \/ p.local.id = NoId
  BY DEF SuggestedId
<1>2. SuggestedId(p, p.remote) = p.remote.id \/ p.remote.id = NoId
  BY DEF SuggestedId
<1>3. q.local = [p.local EXCEPT !.id = SuggestedId(p, p.local)] /\ DOMAIN q.local = {"side", "ip", "id", "nets"}
  BY DEF IsProfile, FilledIds
<1>4. q.remote = [p.remote EXCEPT !.id = SuggestedId(p, p.remote)] /\ DOMAIN q.remote = {"side", "ip", "id", "nets"}
  BY DEF IsProfile, FilledIds
<1>5. /\ DOMAIN q = DOMAIN p /\ q.bgp = p.bgp
      /\ q.name = p.name /\ q.auth = p.auth /\ q.psk = p.psk /\ q.alg = p.alg
      /\ q.tunnel_ip = p.tunnel_ip
  BY DEF IsProfile, FilledIds
<1>6. EndOf(p.local, q.local)
  BY <1>1, <1>3 DEF IsProfile, EndOf
<1>7. EndOf(p.remote, q.remote)
  BY <1>2, <1>4 DEF IsProfile, EndOf
<1>8. IsProfile(q)
  BY <1>3, <1>4, <1>5 DEF IsProfile
<1> QED
  BY <1>5, <1>6, <1>7, <1>8 DEF Filled

\* A row, written or not, of a site.
Fields(row) == DOMAIN row = RowFields /\ row.site \in Sites

\* Saving a row writes its profile and what its configuration is named.
LEMMA SavedFacts ==
    ASSUME NEW row, Fields(row), NEW p, IsProfile(p)
    PROVE  LET s == Saved(row, p) IN
           /\ Row(s) /\ Filled(p, s.profile) /\ s.objects = p.name
           /\ s.site = row.site /\ s.name = row.name /\ s.source = row.source /\ s.peer = row.peer
           /\ s.moved = row.moved /\ s.built_with = row.built_with /\ s.known = row.known
<1> DEFINE s == Saved(row, p)
<1>1. Filled(p, FilledIds(p))
  BY FilledFacts
<1>2. /\ DOMAIN s = RowFields /\ s.profile = FilledIds(p) /\ s.objects = p.name
      /\ s.site = row.site /\ s.name = row.name /\ s.source = row.source /\ s.peer = row.peer
      /\ s.moved = row.moved /\ s.built_with = row.built_with /\ s.known = row.known
  BY DEF Saved, Fields, RowFields
<1> QED
  BY <1>1, <1>2 DEF Filled, Row, Fields

\* A row goes on being the same end of the same tunnel.
SameTunnel(row, new) ==
    /\ new.built_with = row.built_with /\ new.known = row.known
    /\ new.profile.auth = row.profile.auth /\ new.profile.psk = row.profile.psk
    /\ new.profile.alg = row.profile.alg
    /\ EndOf(row.profile.local, new.profile.local) /\ EndOf(row.profile.remote, new.profile.remote)

\* A row goes on being the connection of that name at its site.
Stays(row, new) ==
    Row(new) /\ OwnName(new) /\ new.site = row.site /\ new.name = row.name

\* Saving a profile that differs from the row's in its peering at most.
LEMMA SavedInPlace ==
    ASSUME NEW row, Row(row), OwnName(row),
           NEW p, IsProfile(p), p.name = row.profile.name,
           p.auth = row.profile.auth, p.psk = row.profile.psk, p.alg = row.profile.alg,
           p.local = row.profile.local, p.remote = row.profile.remote
    PROVE  Stays(row, Saved(row, p)) /\ SameTunnel(row, Saved(row, p)) /\ Saved(row, p).peer = row.peer
<1> DEFINE s == Saved(row, p)
<1>1. Fields(row)
  BY DEF Row, Fields
<1>2. /\ Row(s) /\ Filled(p, s.profile) /\ s.objects = p.name
      /\ s.site = row.site /\ s.name = row.name /\ s.source = row.source /\ s.peer = row.peer
      /\ s.moved = row.moved /\ s.built_with = row.built_with /\ s.known = row.known
  BY <1>1, SavedFacts
<1> HIDE DEF s
<1>3. OwnName(s)
  BY <1>2 DEF OwnName, Filled
<1>4. Stays(row, s)
  BY <1>2, <1>3 DEF Stays
<1>5. SameTunnel(row, s)
  BY <1>2 DEF SameTunnel, Filled, EndOf
<1> QED
  BY <1>2, <1>4, <1>5 DEF s

\* Inferring a peering changes nothing else of a profile.
LEMMA InferredFacts ==
    ASSUME NEW p, IsProfile(p), NEW q
    PROVE  LET w == WithInferredBgp(p, q) IN
           /\ IsProfile(w) /\ w.name = p.name /\ w.auth = p.auth /\ w.psk = p.psk /\ w.alg = p.alg
           /\ w.local = p.local /\ w.remote = p.remote /\ w.tunnel_ip = p.tunnel_ip
           /\ w.bgp.on
           /\ w.bgp.local_as = Or(p.bgp.local_as, IF q.bgp.on THEN q.bgp.peer_as ELSE Blank)
           /\ w.bgp.peer_as = Or(p.bgp.peer_as, IF q.bgp.on THEN q.bgp.local_as ELSE Blank)
           /\ w.bgp.local_ip = OwnAddress(p)
           /\ w.bgp.peer_ip = Or(OwnAddress(q), q.bgp.peer_ip)
BY DEF WithInferredBgp, IsProfile, NoBgp

\* The profile that a form describes, under a name.
LEMMA FormFacts ==
    ASSUME NEW f \in Forms, NEW n
    PROVE  IsProfile(FromForm(n, f)) /\ FromForm(n, f).name = n
BY TunnelsAssumption DEF FromForm, IsProfile

\* A new row belongs to nobody yet, and is named as it should be.
NewlyNamed(row, s, n) ==
    Row(row) /\ OwnName(row) /\ row.site = s /\ row.name = n /\ row.peer = None /\ row.built_with = None

LEMMA AddedFacts ==
    ASSUME NEW s \in Sites, NEW n, NEW f \in Forms
    PROVE  NewlyNamed(Added(s, n, f), s, n)
<1> DEFINE r == NewRow(s, n, "generated")
           p == FromForm(n, f)
           a == Saved(r, p)
<1>1. /\ Fields(r) /\ r.site = s /\ r.name = n /\ r.peer = None
      /\ r.moved = FALSE /\ r.built_with = None
  BY DEF NewRow, Fields, RowFields
<1>2. IsProfile(p) /\ p.name = n
  BY FormFacts
<1> HIDE DEF r, p
<1>3. /\ Row(a) /\ Filled(p, a.profile) /\ a.objects = p.name
      /\ a.site = r.site /\ a.name = r.name /\ a.peer = r.peer
      /\ a.moved = r.moved /\ a.built_with = r.built_with
  BY <1>1, <1>2, SavedFacts
<1>4. OwnName(a)
  BY <1>1, <1>2, <1>3 DEF OwnName, Filled
<1>5. NewlyNamed(a, s, n)
  BY <1>1, <1>3, <1>4 DEF NewlyNamed
<1> QED
  BY <1>5 DEF Added, r, p

\* An imported row is named as it was, whatever the device calls its objects.
LEMMA ImportedFacts ==
    ASSUME NEW row, Fields(row), NEW i \in Imports, NEW name
    PROVE  LET new == Imported(row, i, name) IN
           /\ Row(new) /\ OwnName(new) /\ new.site = row.site /\ new.name = row.name
           /\ new.peer = row.peer /\ new.built_with = None
           /\ new.source = "imported" /\ new.profile.name = row.name
<1> DEFINE new == Imported(row, i, name)
<1>1. /\ DOMAIN new = RowFields /\ new.site = row.site /\ new.name = row.name
      /\ new.peer = row.peer /\ new.built_with = None /\ new.source = "imported"
      /\ new.profile = [i EXCEPT !.name = row.name]
  BY DEF Imported, Fields, RowFields
<1>2. IsProfile(i)
  BY TunnelsAssumption
<1>3. IsProfile([i EXCEPT !.name = row.name]) /\ [i EXCEPT !.name = row.name].name = row.name
  BY <1>2 DEF IsProfile
<1> HIDE DEF new
<1>4. Row(new) /\ OwnName(new) /\ new.profile.name = row.name
  BY <1>1, <1>3 DEF Row, OwnName, Fields
<1> QED
  BY <1>1, <1>4 DEF new

LEMMA FoundFacts ==
    ASSUME NEW s \in Sites, NEW n, NEW i \in Imports, NEW name
    PROVE  NewlyNamed(Found(s, n, i, name), s, n)
<1> DEFINE r == NewRow(s, n, "imported")
<1>1. Fields(r) /\ r.site = s /\ r.name = n /\ r.peer = None
  BY DEF NewRow, Fields, RowFields
<1> HIDE DEF r
<1> DEFINE new == Imported(r, i, name)
<1>2. /\ Row(new) /\ OwnName(new) /\ new.site = r.site /\ new.name = r.name
      /\ new.peer = r.peer /\ new.built_with = None
  BY <1>1, ImportedFacts
<1> HIDE DEF new
<1>3. NewlyNamed(new, s, n)
  BY <1>1, <1>2 DEF NewlyNamed
<1> QED
  BY <1>3 DEF Found, new, r
-----------------------------------------------------------------------------
(* Tables: what a step must show for the new one to be good. *)

\* A row of a site is there.
LEMMA RowThere ==
    ASSUME NEW row, row.site \in Sites
    PROVE  row # Absent
BY TunnelsAssumption DEF Absent

\* Two rows that go on as the ends of one tunnel go on matching.
LEMMA MatchKept ==
    ASSUME NEW row, NEW far, Match(row, far),
           NEW new, SameTunnel(row, new), NEW other, SameTunnel(far, other)
    PROVE  Match(new, other)
<1> DEFINE p == row.profile
           q == far.profile
           np == new.profile
           nq == other.profile
<1>1. Fit(np, nq)
  BY DEF Match, Fit, SameTunnel, EndOf
<1>2. ASSUME new.known
      PROVE  IdsCross(np, nq) /\ np.local.id # NoId /\ np.remote.id # NoId
  <2>1. IdsCross(p, q) /\ p.local.id # NoId /\ p.remote.id # NoId
    BY <1>2 DEF Match, SameTunnel
  <2>2. q.local.id # NoId /\ q.remote.id # NoId
    BY <2>1 DEF IdsCross
  <2>3. /\ np.local.id = p.local.id /\ np.remote.id = p.remote.id
        /\ nq.local.id = q.local.id /\ nq.remote.id = q.remote.id
    BY <2>1, <2>2 DEF SameTunnel, EndOf
  <2>4. QED
    BY <2>1, <2>3 DEF IdsCross
<1> QED
  BY <1>1, <1>2 DEF Match

\* The tunnels of a table still fit if every row goes on as it was or is no
\* end of a tunnel built as one, but for the two ends of one that is built now.
LEMMA BuiltStep ==
    ASSUME NEW t, Built(t), NEW u, NEW c, NEW d, c # d,
           \A x \in ThereIn(u) :
              \/ x \in ThereIn(t) /\ (u[x] = t[x] \/ SameTunnel(t[x], u[x]))
              \/ u[x].built_with = None
              \/ x = c /\ u[x].built_with = d
              \/ x = d /\ u[x].built_with = c,
           u[c].built_with = d /\ u[d].built_with = c => Match(u[c], u[d]) /\ Match(u[d], u[c])
    PROVE  Built(u)
<1> SUFFICES ASSUME NEW x \in ThereIn(u), NEW y \in ThereIn(u),
                    u[x].built_with = y, u[y].built_with = x
             PROVE  Match(u[x], u[y])
  BY DEF Built
<1>1. u[x].built_with # None /\ u[y].built_with # None
  BY TunnelsAssumption DEF ThereIn
<1>2. CASE x = c /\ u[x].built_with = d
  BY <1>2
<1>3. CASE x = d /\ u[x].built_with = c
  BY <1>3
<1>4. CASE y = c /\ u[y].built_with = d
  BY <1>4
<1>5. CASE y = d /\ u[y].built_with = c
  BY <1>5
<1>6. CASE /\ x \in ThereIn(t) /\ (u[x] = t[x] \/ SameTunnel(t[x], u[x]))
           /\ y \in ThereIn(t) /\ (u[y] = t[y] \/ SameTunnel(t[y], u[y]))
  <2>1. SameTunnel(t[x], t[x]) /\ SameTunnel(t[y], t[y])
    BY DEF SameTunnel, EndOf
  <2>2. SameTunnel(t[x], u[x]) /\ SameTunnel(t[y], u[y])
    BY <1>6, <2>1
  <2>3. t[x].built_with = y /\ t[y].built_with = x
    BY <2>2 DEF SameTunnel
  <2>4. Match(t[x], t[y])
    BY <1>6, <2>3 DEF Built
  <2>5. QED
    BY <2>2, <2>4, MatchKept
<1> QED
  BY <1>1, <1>2, <1>3, <1>4, <1>5, <1>6

\* The same if none is built.
LEMMA BuiltKept ==
    ASSUME NEW t, Built(t), NEW u,
           \A x \in ThereIn(u) :
              \/ x \in ThereIn(t) /\ (u[x] = t[x] \/ SameTunnel(t[x], u[x]))
              \/ u[x].built_with = None
    PROVE  Built(u)
<1> SUFFICES ASSUME NEW x \in ThereIn(u), NEW y \in ThereIn(u),
                    u[x].built_with = y, u[y].built_with = x
             PROVE  Match(u[x], u[y])
  BY DEF Built
<1>1. u[x].built_with # None /\ u[y].built_with # None
  BY TunnelsAssumption DEF ThereIn
<1>2. /\ x \in ThereIn(t) /\ (u[x] = t[x] \/ SameTunnel(t[x], u[x]))
      /\ y \in ThereIn(t) /\ (u[y] = t[y] \/ SameTunnel(t[y], u[y]))
  BY <1>1
<1>3. SameTunnel(t[x], t[x]) /\ SameTunnel(t[y], t[y])
  BY DEF SameTunnel, EndOf
<1>4. SameTunnel(t[x], u[x]) /\ SameTunnel(t[y], u[y])
  BY <1>2, <1>3
<1>5. t[x].built_with = y /\ t[y].built_with = x
  BY <1>4 DEF SameTunnel
<1>6. Match(t[x], t[y])
  BY <1>2, <1>5 DEF Built
<1> QED
  BY <1>4, <1>6, MatchKept

\* Rows that change where they are keep the table's shape and names.
LEMMA InPlace ==
    ASSUME NEW t, Shape(t), Named(t), NEW u, DOMAIN u = Conns,
           \A x \in ThereIn(t) : u[x] = t[x] \/ Stays(t[x], u[x]),
           \A x \in Conns \ ThereIn(t) : u[x] = t[x]
    PROVE  ThereIn(u) = ThereIn(t) /\ Shape(u) /\ Named(u)
<1>1. \A x \in ThereIn(t) : Stays(t[x], t[x])
  BY DEF Shape, Named, Stays
<1>2. \A x \in ThereIn(t) : Stays(t[x], u[x])
  BY <1>1
<1>3. \A x \in ThereIn(t) : u[x] # Absent
  BY <1>2, RowThere DEF Stays, Row
<1>4. ThereIn(u) = ThereIn(t)
  BY <1>3 DEF ThereIn
<1>5. Shape(u)
  BY <1>2, <1>4 DEF Shape, Stays
<1>6. Named(u)
  BY <1>2, <1>4 DEF Named, Stays
<1> QED
  BY <1>4, <1>5, <1>6

\* New rows, with names of their own.
LEMMA NewRows ==
    ASSUME NEW t, Good(t), NEW u, DOMAIN u = Conns,
           NEW C, C \subseteq Conns \ ThereIn(t),
           \A x \in Conns \ C : u[x] = t[x],
           \A x \in C : NewlyNamed(u[x], u[x].site, u[x].name),
           \A x \in C : \A y \in ThereIn(t) \cup C :
              x # y /\ u[x].site = u[y].site => u[x].name # u[y].name
    PROVE  Good(u)
<1>1. \A x \in C : /\ Row(u[x]) /\ OwnName(u[x]) /\ u[x].peer = None /\ u[x].built_with = None
  BY DEF NewlyNamed
<1>2. \A x \in C : u[x] # Absent
  BY <1>1, RowThere DEF Row
<1>3. ThereIn(u) = ThereIn(t) \cup C
  BY <1>2 DEF ThereIn
<1>4. Shape(u)
  BY <1>1, <1>3 DEF Good, Shape, ThereIn
<1>5. Peers(u)
  <2> SUFFICES ASSUME NEW x \in ThereIn(u)
               PROVE  u[x].peer \in {None} \cup (ThereIn(u) \ {x})
    BY DEF Peers
  <2>1. CASE x \in C
    BY <2>1, <1>1
  <2>2. CASE x \in ThereIn(t) /\ x \notin C
    <3>1. u[x] = t[x]
      BY <2>2 DEF ThereIn
    <3>2. t[x].peer \in {None} \cup (ThereIn(t) \ {x})
      BY <2>2 DEF Good, Peers
    <3>3. QED
      BY <3>1, <3>2, <1>3
  <2>3. QED
    BY <2>1, <2>2, <1>3
<1>6. Named(u)
  <2>1. \A x \in ThereIn(u) : OwnName(u[x])
    BY <1>1, <1>3 DEF Good, Named, ThereIn
  <2> SUFFICES ASSUME NEW x \in ThereIn(u), NEW y \in ThereIn(u), x # y, u[x].site = u[y].site
               PROVE  u[x].name # u[y].name
    BY <2>1 DEF Named
  <2>2. CASE x \in C
    BY <2>2, <1>3
  <2>3. CASE y \in C
    BY <2>3, <1>3
  <2>4. CASE x \in ThereIn(t) \ C /\ y \in ThereIn(t) \ C
    <3>1. u[x] = t[x] /\ u[y] = t[y]
      BY <2>4 DEF ThereIn
    <3>2. QED
      BY <2>4, <3>1 DEF Good, Named
  <2>5. QED
    BY <2>2, <2>3, <2>4, <1>3
<1>7. Built(u)
  <2>1. \A x \in ThereIn(u) :
           \/ x \in ThereIn(t) /\ (u[x] = t[x] \/ SameTunnel(t[x], u[x]))
           \/ u[x].built_with = None
    BY <1>1, <1>3 DEF ThereIn
  <2>2. QED
    BY <2>1, BuiltKept DEF Good
<1> QED
  BY <1>4, <1>5, <1>6, <1>7 DEF Good
-----------------------------------------------------------------------------
(* The changes that are shown for approval. *)

LEMMA ThereIsThere == There = ThereIn(conn)
BY DEF There, ThereIn

\* edit_connection: the row ceases to be an end of a tunnel built as one.
LEMMA EditedGood ==
    ASSUME Good(conn), NEW c \in There, NEW f \in Forms
    PROVE  Good(Edited(c, f))
<1> DEFINE row == conn[c]
           p == FromForm(row.name, f)
           s == Saved(row, p)
           new == [s EXCEPT !.moved = FALSE, !.built_with = None]
           u == Edited(c, f)
<1>1. c \in ThereIn(conn) /\ c \in Conns /\ Row(row) /\ Fields(row)
  BY ThereIsThere DEF Good, Shape, ThereIn, Row, Fields
<1>2. IsProfile(p) /\ p.name = row.name
  BY FormFacts
<1>3. /\ Row(s) /\ Filled(p, s.profile) /\ s.objects = p.name
      /\ s.site = row.site /\ s.name = row.name /\ s.peer = row.peer
  BY <1>1, <1>2, SavedFacts
<1>4. /\ DOMAIN u = Conns /\ u[c] = new /\ \A x \in Conns \ {c} : u[x] = conn[x]
  BY <1>1 DEF Edited, Good, Shape
<1> HIDE DEF s, p, u
<1>5. /\ Row(new) /\ new.site = row.site /\ new.name = row.name /\ new.peer = row.peer
      /\ new.built_with = None /\ new.profile = s.profile /\ new.objects = s.objects
  BY <1>3 DEF Row, RowFields
<1>6. Stays(row, new)
  BY <1>2, <1>3, <1>5 DEF Stays, OwnName, Filled
<1> HIDE DEF new
<1>7. ThereIn(u) = ThereIn(conn) /\ Shape(u) /\ Named(u)
  <2>1. \A x \in ThereIn(conn) : u[x] = conn[x] \/ Stays(conn[x], u[x])
    BY <1>4, <1>6 DEF ThereIn
  <2>2. \A x \in Conns \ ThereIn(conn) : u[x] = conn[x]
    BY <1>1, <1>4
  <2>3. QED
    BY <1>4, <2>1, <2>2, InPlace DEF Good
<1>8. Peers(u)
  BY <1>4, <1>5, <1>7 DEF Good, Peers, ThereIn
<1>9. Built(u)
  <2>1. \A x \in ThereIn(u) :
           \/ x \in ThereIn(conn) /\ (u[x] = conn[x] \/ SameTunnel(conn[x], u[x]))
           \/ u[x].built_with = None
    BY <1>4, <1>5, <1>7 DEF ThereIn
  <2>2. QED
    BY <2>1, BuiltKept DEF Good
<1> QED
  BY <1>7, <1>8, <1>9 DEF Good, u

\* Rows that stay, as the same ends of the same tunnels, with peers that are there.
LEMMA StayingGood ==
    ASSUME NEW t, Good(t), NEW u, DOMAIN u = Conns,
           \A x \in ThereIn(t) : u[x] = t[x] \/ (Stays(t[x], u[x]) /\ SameTunnel(t[x], u[x])),
           \A x \in Conns \ ThereIn(t) : u[x] = t[x],
           \A x \in ThereIn(t) : u[x].peer = t[x].peer \/ u[x].peer \in {None} \cup (ThereIn(t) \ {x})
    PROVE  Good(u) /\ ThereIn(u) = ThereIn(t)
<1>1. ThereIn(u) = ThereIn(t) /\ Shape(u) /\ Named(u)
  BY InPlace DEF Good
<1>2. Peers(u)
  BY <1>1 DEF Good, Peers
<1>3. Built(u)
  BY <1>1, BuiltKept DEF Good
<1> QED
  BY <1>1, <1>2, <1>3 DEF Good

\* pair_confirm: both rows are saved as they are.
LEMMA JoinedGood ==
    ASSUME Good(conn), NEW c \in There, NEW d \in There, c # d
    PROVE  Good(Joined(c, d))
<1> DEFINE u == Joined(c, d)
           s(x) == Saved(conn[x], conn[x].profile)
           new(x, y) == [s(x) EXCEPT !.peer = y]
<1>1. c \in ThereIn(conn) /\ d \in ThereIn(conn) /\ c \in Conns /\ d \in Conns
  BY ThereIsThere DEF ThereIn
<1>2. DOMAIN u = Conns /\ u[c] = new(c, d) /\ u[d] = new(d, c) /\ \A x \in Conns \ {c, d} : u[x] = conn[x]
  BY <1>1 DEF Joined, Good, Shape
<1>3. \A x \in ThereIn(conn) : Row(s(x)) /\ Stays(conn[x], s(x)) /\ SameTunnel(conn[x], s(x))
  <2> SUFFICES ASSUME NEW x \in ThereIn(conn)
               PROVE  Row(s(x)) /\ Stays(conn[x], s(x)) /\ SameTunnel(conn[x], s(x))
    OBVIOUS
  <2>1. Row(conn[x]) /\ OwnName(conn[x]) /\ IsProfile(conn[x].profile)
    BY DEF Good, Shape, Named, Row
  <2>2. QED
    BY <2>1, SavedInPlace DEF Stays
<1> HIDE DEF s, u
<1>4. \A x \in ThereIn(conn), y \in Conns : Stays(conn[x], new(x, y)) /\ SameTunnel(conn[x], new(x, y)) /\ new(x, y).peer = y
  <2> SUFFICES ASSUME NEW x \in ThereIn(conn), NEW y \in Conns
               PROVE  Stays(conn[x], new(x, y)) /\ SameTunnel(conn[x], new(x, y)) /\ new(x, y).peer = y
    OBVIOUS
  <2>1. DOMAIN s(x) = RowFields
    BY <1>3 DEF Row
  <2>2. /\ DOMAIN new(x, y) = RowFields /\ new(x, y).peer = y
        /\ new(x, y).site = s(x).site /\ new(x, y).name = s(x).name /\ new(x, y).source = s(x).source
        /\ new(x, y).profile = s(x).profile /\ new(x, y).objects = s(x).objects /\ new(x, y).moved = s(x).moved
        /\ new(x, y).built_with = s(x).built_with /\ new(x, y).known = s(x).known
    BY <2>1 DEF RowFields
  <2> HIDE DEF new
  <2>3. Stays(conn[x], new(x, y))
    BY <1>3, <2>2 DEF Stays, Row, OwnName
  <2>4. SameTunnel(conn[x], new(x, y))
    BY <1>3, <2>2 DEF SameTunnel
  <2>5. QED
    BY <2>2, <2>3, <2>4
<1> HIDE DEF new
<1>5. \A x \in ThereIn(conn) : u[x] = conn[x] \/ (Stays(conn[x], u[x]) /\ SameTunnel(conn[x], u[x]))
  BY <1>1, <1>2, <1>4 DEF ThereIn
<1>6. \A x \in ThereIn(conn) : u[x].peer = conn[x].peer \/ u[x].peer \in {None} \cup (ThereIn(conn) \ {x})
  BY <1>1, <1>2, <1>4 DEF ThereIn
<1>7. \A x \in Conns \ ThereIn(conn) : u[x] = conn[x]
  BY <1>1, <1>2
<1>8. Good(u)
  BY <1>2, <1>5, <1>6, <1>7, StayingGood
<1> QED
  BY <1>8 DEF u

\* apply_inferred_bgp changes the peering alone.
LEMMA PeeredGood ==
    ASSUME Good(conn), NEW c \in There, conn[c].peer # None
    PROVE  Good(Peered(c))
<1> DEFINE d == conn[c].peer
           p == conn[c].profile
           pp == conn[d].profile
           cp == IF Infers(p, pp) THEN WithInferredBgp(p, pp) ELSE p
           w == WithInferredBgp(pp, cp)
           u == Peered(c)
<1>1. /\ c \in ThereIn(conn) /\ d \in ThereIn(conn) /\ c \in Conns /\ d \in Conns /\ c # d
      /\ DOMAIN conn = Conns
  BY ThereIsThere DEF ThereIn, Good, Peers, Shape
<1>2. /\ Row(conn[c]) /\ OwnName(conn[c]) /\ IsProfile(p)
      /\ Row(conn[d]) /\ OwnName(conn[d]) /\ IsProfile(pp)
  BY <1>1 DEF Good, Shape, Named, Row
<1>3. /\ IsProfile(cp) /\ cp.name = p.name /\ cp.auth = p.auth /\ cp.psk = p.psk /\ cp.alg = p.alg
      /\ cp.local = p.local /\ cp.remote = p.remote
  BY <1>2, InferredFacts
<1> HIDE DEF cp
<1>4. /\ IsProfile(w) /\ w.name = pp.name /\ w.auth = pp.auth /\ w.psk = pp.psk /\ w.alg = pp.alg
      /\ w.local = pp.local /\ w.remote = pp.remote
  BY <1>2, InferredFacts
<1>5. /\ DOMAIN u = Conns
      /\ u[c] = IF Infers(p, pp) THEN Saved(conn[c], cp) ELSE conn[c]
      /\ u[d] = IF Infers(pp, cp) THEN Saved(conn[d], w) ELSE conn[d]
      /\ \A x \in Conns \ {c, d} : u[x] = conn[x]
  BY <1>1 DEF Peered, NearPeered, FarPeered, Inferred, cp
<1> HIDE DEF w, u
<1>6. Stays(conn[c], Saved(conn[c], cp)) /\ SameTunnel(conn[c], Saved(conn[c], cp)) /\ Saved(conn[c], cp).peer = d
  BY <1>2, <1>3, SavedInPlace
<1>7. /\ Stays(conn[d], Saved(conn[d], w)) /\ SameTunnel(conn[d], Saved(conn[d], w))
      /\ Saved(conn[d], w).peer = conn[d].peer
  BY <1>2, <1>4, SavedInPlace
<1>8. \A x \in ThereIn(conn) :
         /\ u[x] = conn[x] \/ (Stays(conn[x], u[x]) /\ SameTunnel(conn[x], u[x]))
         /\ u[x].peer = conn[x].peer
  BY <1>1, <1>5, <1>6, <1>7 DEF ThereIn
<1>9. \A x \in Conns \ ThereIn(conn) : u[x] = conn[x]
  BY <1>1, <1>5
<1>10. Good(u)
  BY <1>5, <1>8, <1>9, StayingGood
<1> QED
  BY <1>10 DEF u

\* Whatever is approved, the outcome is a good table.
LEMMA OutcomeGood ==
    ASSUME Good(conn), NEW r, IsChange(r), Possible(r)
    PROVE  Good(Outcome(r))
<1>1. CASE r.op = "edit"
  <2>1. Outcome(r) = Edited(r.c, r.form)
    BY <1>1 DEF Outcome
  <2>2. QED
    BY <1>1, <2>1, EditedGood DEF IsChange, Possible
<1>2. CASE r.op = "pair"
  <2>1. Outcome(r) = Joined(r.c, r.d)
    BY <1>2 DEF Outcome
  <2>2. QED
    BY <1>2, <2>1, JoinedGood DEF Possible, MayJoin
<1>3. CASE r.op = "bgp"
  <2>1. Outcome(r) = Peered(r.c)
    BY <1>3 DEF Outcome
  <2>2. QED
    BY <1>3, <2>1, PeeredGood DEF Possible
<1> QED
  BY <1>1, <1>2, <1>3 DEF IsChange
-----------------------------------------------------------------------------
(* The handlers that write at once. *)

\* A row whose peer alone may have changed.
SameButPeer(row, new) ==
    /\ Row(new) /\ new.site = row.site /\ new.name = row.name /\ new.source = row.source
    /\ new.profile = row.profile /\ new.objects = row.objects /\ new.moved = row.moved
    /\ new.built_with = row.built_with /\ new.known = row.known

LEMMA PeerChanged ==
    ASSUME NEW row, Row(row), NEW k
    PROVE  SameButPeer(row, [row EXCEPT !.peer = k]) /\ [row EXCEPT !.peer = k].peer = k
BY DEF SameButPeer, Row, RowFields

LEMMA PeerStays ==
    ASSUME NEW row, Row(row), OwnName(row), NEW new, SameButPeer(row, new)
    PROVE  Stays(row, new) /\ SameTunnel(row, new)
BY DEF SameButPeer, Stays, SameTunnel, OwnName, EndOf

\* _unpair changes nothing but whom rows point at.
LEMMA UnpairedFacts ==
    ASSUME NEW t, Good(t), NEW c \in ThereIn(t)
    PROVE  LET u == Unpaired(t, c) IN
           /\ Good(u) /\ ThereIn(u) = ThereIn(t)
           /\ \A x \in ThereIn(t) : SameButPeer(t[x], u[x])
<1> DEFINE u == Unpaired(t, c)
           d == t[c].peer
<1>1. \A x \in ThereIn(t) : Row(t[x]) /\ OwnName(t[x]) /\ SameButPeer(t[x], t[x])
  BY DEF Good, Shape, Named, SameButPeer
<1>2. CASE d = None
  BY <1>1, <1>2 DEF Unpaired
<1>3. CASE d # None
  <2>1. d \in ThereIn(t) /\ c # d /\ d \in Conns /\ c \in Conns /\ DOMAIN t = Conns
    BY <1>3 DEF Good, Peers, Shape, ThereIn
  <2>2. /\ DOMAIN u = Conns
        /\ u[d] = [t[d] EXCEPT !.peer = IF @ = c THEN None ELSE @]
        /\ u[c] = [t[c] EXCEPT !.peer = None]
        /\ \A x \in Conns \ {c, d} : u[x] = t[x]
    BY <1>3, <2>1 DEF Unpaired
  <2>3. SameButPeer(t[c], u[c]) /\ u[c].peer = None
    BY <1>1, <2>2, PeerChanged
  <2>4. SameButPeer(t[d], u[d]) /\ u[d].peer \in {t[d].peer, None}
    <3>1. u[d] = [t[d] EXCEPT !.peer = IF t[d].peer = c THEN None ELSE t[d].peer]
      BY <2>2
    <3>2. QED
      BY <1>1, <2>1, <3>1, PeerChanged
  <2> HIDE DEF u
  <2>5. \A x \in ThereIn(t) : SameButPeer(t[x], u[x])
    BY <1>1, <2>2, <2>3, <2>4 DEF ThereIn
  <2>6. \A x \in ThereIn(t) : u[x].peer = t[x].peer \/ u[x].peer \in {None} \cup (ThereIn(t) \ {x})
    BY <2>2, <2>3, <2>4 DEF ThereIn
  <2>7. \A x \in Conns \ ThereIn(t) : u[x] = t[x]
    BY <2>1, <2>2
  <2>8. \A x \in ThereIn(t) : u[x] = t[x] \/ (Stays(t[x], u[x]) /\ SameTunnel(t[x], u[x]))
    BY <1>1, <2>5, PeerStays
  <2>9. Good(u) /\ ThereIn(u) = ThereIn(t)
    BY <2>2, <2>6, <2>7, <2>8, StayingGood
  <2> QED
    BY <2>5, <2>9 DEF u
<1> QED
  BY <1>2, <1>3

\* What an unused name of a site is.
LEMMA FreeNamesFacts ==
    ASSUME NEW s, NEW n \in FreeNames(s)
    PROVE  \A x \in ThereIn(conn) : conn[x].site = s => conn[x].name # n
BY DEF FreeNames, On, There, ThereIn

\* A connection that is added.
LEMMA AddedGood ==
    ASSUME Good(conn), NEW c \in Conns \ There, NEW row, NEW s \in Sites, NEW n,
           NewlyNamed(row, s, n), \A x \in ThereIn(conn) : conn[x].site = s => conn[x].name # n
    PROVE  Good([conn EXCEPT ![c] = row])
<1> DEFINE u == [conn EXCEPT ![c] = row]
           C == {c}
<1>1. c \notin ThereIn(conn) /\ c \in Conns
  BY ThereIsThere
<1>2. DOMAIN u = Conns /\ u[c] = row /\ \A x \in Conns \ C : u[x] = conn[x]
  BY <1>1 DEF Good, Shape
<1> HIDE DEF u
<1>3. NewlyNamed(u[c], u[c].site, u[c].name) /\ u[c].site = s /\ u[c].name = n
  BY <1>2 DEF NewlyNamed
<1>4. \A x \in C : \A y \in ThereIn(conn) \cup C :
         x # y /\ u[x].site = u[y].site => u[x].name # u[y].name
  <2> SUFFICES ASSUME NEW y \in ThereIn(conn), y # c, u[c].site = u[y].site
               PROVE  u[c].name # u[y].name
    OBVIOUS
  <2>1. u[y] = conn[y]
    BY <1>2 DEF ThereIn
  <2>2. QED
    BY <1>3, <2>1
<1>5. C \subseteq Conns \ ThereIn(conn)
  BY <1>1
<1>6. \A x \in C : NewlyNamed(u[x], u[x].site, u[x].name)
  BY <1>3
<1> HIDE DEF C
<1>7. Good(u)
  BY <1>2, <1>4, <1>5, <1>6, NewRows
<1> QED
  BY <1>7 DEF u

LEMMA AddConnectionGood ==
    ASSUME Good(conn), AddConnection
    PROVE  Good(conn')
<1>1. PICK c \in Conns \ There, s \in Sites, f \in Forms, n \in Names :
         n \in FreeNames(s) /\ conn' = [conn EXCEPT ![c] = Added(s, n, f)]
  BY DEF AddConnection, Write, FreeNames
<1> DEFINE row == Added(s, n, f)
<1>2. NewlyNamed(row, s, n)
  BY AddedFacts
<1>3. \A x \in ThereIn(conn) : conn[x].site = s => conn[x].name # n
  BY <1>1, FreeNamesFacts
<1> HIDE DEF row
<1>4. Good([conn EXCEPT ![c] = row])
  BY <1>2, <1>3, AddedGood
<1> QED
  BY <1>1, <1>4 DEF row

\* Everything found in a configuration gets a name of its own at the new site.
LEMMA ImportGood ==
    ASSUME Good(conn), Import
    PROVE  Good(conn')
<1>1. PICK s \in Sites, C \in (SUBSET (Conns \ There)) \ {{}} :
         /\ On(s) = {}
         /\ \E i \in [C -> Imports], name, unique \in [C -> Names],
               turn \in [C -> 1 .. Cardinality(C)] :
               /\ \A c, d \in C : c # d => unique[c] # unique[d]
               /\ \A c \in C : \/ unique[c] = name[c]
                              \/ \E d \in C : turn[d] < turn[c] /\ unique[d] = name[c]
               /\ Write([c \in Conns |->
                      IF c \in C THEN Found(s, unique[c], i[c], name[c]) ELSE conn[c]])
  BY Zenon DEF Import
<1>2. PICK i \in [C -> Imports], name \in [C -> Names], unique \in [C -> Names] :
         /\ \A c, d \in C : c # d => unique[c] # unique[d]
         /\ conn' = [c \in Conns |->
                IF c \in C THEN Found(s, unique[c], i[c], name[c]) ELSE conn[c]]
  <2>1. PICK i \in [C -> Imports], name \in [C -> Names], unique \in [C -> Names] :
           /\ \A c, d \in C : c # d => unique[c] # unique[d]
           /\ Write([c \in Conns |->
                  IF c \in C THEN Found(s, unique[c], i[c], name[c]) ELSE conn[c]])
    BY Zenon, <1>1
  <2>2. conn' = [c \in Conns |->
               IF c \in C THEN Found(s, unique[c], i[c], name[c]) ELSE conn[c]]
    BY <2>1 DEF Write
  <2>3. QED
    BY Zenon, <2>1, <2>2
<1>3. C \subseteq Conns \ ThereIn(conn)
  BY <1>1, ThereIsThere
<1>4. \A x \in ThereIn(conn) : conn[x].site # s
  BY <1>1, ThereIsThere DEF On
<1> DEFINE u == [c \in Conns |-> IF c \in C THEN Found(s, unique[c], i[c], name[c]) ELSE conn[c]]
<1>5. \A x \in C : NewlyNamed(u[x], s, unique[x])
  <2> SUFFICES ASSUME NEW x \in C PROVE NewlyNamed(u[x], s, unique[x])
    OBVIOUS
  <2>1. u[x] = Found(s, unique[x], i[x], name[x]) /\ i[x] \in Imports
    BY <1>3
  <2>2. QED
    BY <2>1, FoundFacts
<1>6. DOMAIN u = Conns /\ \A x \in Conns \ C : u[x] = conn[x]
  OBVIOUS
<1> HIDE DEF u
<1>7. \A x \in C : NewlyNamed(u[x], u[x].site, u[x].name) /\ u[x].site = s /\ u[x].name = unique[x]
  BY <1>5 DEF NewlyNamed
<1>8. \A x \in C : \A y \in ThereIn(conn) \cup C :
         x # y /\ u[x].site = u[y].site => u[x].name # u[y].name
  <2> SUFFICES ASSUME NEW x \in C, NEW y \in ThereIn(conn) \cup C, x # y, u[x].site = u[y].site
               PROVE  u[x].name # u[y].name
    OBVIOUS
  <2>1. CASE y \in C
    BY <1>2, <1>7, <2>1
  <2>2. CASE y \in ThereIn(conn) /\ y \notin C
    BY <1>4, <1>6, <1>7, <2>2 DEF ThereIn
  <2>3. QED
    BY <2>1, <2>2
<1>9. Good(u)
  BY <1>3, <1>6, <1>7, <1>8, NewRows
<1> QED
  BY <1>2, <1>9 DEF u

\* A row that is imported over, or a new one under a name nobody has there.
LEMMA ImportUpdateGood ==
    ASSUME Good(conn), ImportUpdate
    PROVE  Good(conn')
<1>1. PICK s \in Sites, i \in Imports, name \in Names :
         \/ \E c \in Matched(s, name) :
                conn' = [conn EXCEPT ![c] = [Imported(@, i, name) EXCEPT !.moved = FALSE]]
         \/ /\ Matched(s, name) = {}
            /\ \E c \in Conns \ There : conn' = [conn EXCEPT ![c] = Found(s, name, i, name)]
  BY DEF ImportUpdate, Write
<1>2. CASE \E c \in Matched(s, name) :
              conn' = [conn EXCEPT ![c] = [Imported(@, i, name) EXCEPT !.moved = FALSE]]
  <2>1. PICK c \in Matched(s, name) :
           conn' = [conn EXCEPT ![c] = [Imported(@, i, name) EXCEPT !.moved = FALSE]]
    BY <1>2
  <2> DEFINE row == conn[c]
             im == Imported(row, i, name)
             new == [im EXCEPT !.moved = FALSE]
             u == [conn EXCEPT ![c] = new]
  <2>2. c \in ThereIn(conn) /\ c \in Conns /\ DOMAIN conn = Conns /\ Row(row) /\ Fields(row)
    BY ThereIsThere DEF Matched, On, Good, Shape, ThereIn, Row, Fields
  <2>3. /\ Row(im) /\ OwnName(im) /\ im.site = row.site /\ im.name = row.name
        /\ im.peer = row.peer /\ im.built_with = None
        /\ im.source = "imported" /\ im.profile.name = row.name
    BY <2>2, ImportedFacts
  <2> HIDE DEF im
  <2>4. /\ Stays(row, new) /\ new.peer = row.peer /\ new.built_with = None
    <3>1. /\ DOMAIN new = RowFields /\ new.site = row.site /\ new.name = row.name /\ new.peer = row.peer
          /\ new.built_with = None /\ new.profile = im.profile /\ new.source = "imported"
      BY <2>3 DEF Row, RowFields
    <3>2. QED
      BY <2>3, <3>1 DEF Stays, Row, OwnName
  <2>5. u[c] = new /\ DOMAIN u = Conns /\ \A x \in Conns \ {c} : u[x] = conn[x]
    BY <2>2
  <2> HIDE DEF new, u
  <2>6. ThereIn(u) = ThereIn(conn) /\ Shape(u) /\ Named(u)
    <3>1. \A x \in ThereIn(conn) : u[x] = conn[x] \/ Stays(conn[x], u[x])
      BY <2>4, <2>5 DEF ThereIn
    <3>2. \A x \in Conns \ ThereIn(conn) : u[x] = conn[x]
      BY <2>2, <2>5
    <3>3. QED
      BY <2>5, <3>1, <3>2, InPlace DEF Good
  <2>7. Peers(u)
    BY <2>4, <2>5, <2>6 DEF Good, Peers, ThereIn
  <2>8. Built(u)
    <3>1. \A x \in ThereIn(u) :
             \/ x \in ThereIn(conn) /\ (u[x] = conn[x] \/ SameTunnel(conn[x], u[x]))
             \/ u[x].built_with = None
      BY <2>4, <2>5, <2>6 DEF ThereIn
    <3>2. QED
      BY <3>1, BuiltKept DEF Good
  <2>9. Good(u)
    BY <2>6, <2>7, <2>8 DEF Good
  <2>10. conn' = u
    BY <2>1 DEF u, new, im
  <2> QED
    BY <2>9, <2>10
<1>3. CASE /\ Matched(s, name) = {}
           /\ \E c \in Conns \ There : conn' = [conn EXCEPT ![c] = Found(s, name, i, name)]
  <2>1. PICK c \in Conns \ There : conn' = [conn EXCEPT ![c] = Found(s, name, i, name)]
    BY <1>3
  <2>2. NewlyNamed(Found(s, name, i, name), s, name)
    BY FoundFacts
  <2>3. \A x \in ThereIn(conn) : conn[x].site = s => conn[x].name # name
    BY <1>3, ThereIsThere DEF Matched, On
  <2>4. Good([conn EXCEPT ![c] = Found(s, name, i, name)])
    BY <2>2, <2>3, AddedGood
  <2> QED
    BY <2>1, <2>4
<1> QED
  BY <1>1, <1>2, <1>3

\* Rows that get other names or sites, and stay the ends of the tunnels they are.
LEMMA RelabelledGood ==
    ASSUME NEW t, Good(t), NEW u, DOMAIN u = Conns,
           \A x \in Conns \ ThereIn(t) : u[x] = t[x],
           \A x \in ThereIn(t) : /\ Row(u[x]) /\ OwnName(u[x])
                                /\ SameTunnel(t[x], u[x]) /\ u[x].peer = t[x].peer,
           \A x, y \in ThereIn(t) : x # y /\ u[x].site = u[y].site => u[x].name # u[y].name
    PROVE  Good(u)
<1>1. \A x \in ThereIn(t) : u[x] # Absent
  BY RowThere DEF Row
<1>2. ThereIn(u) = ThereIn(t)
  BY <1>1 DEF ThereIn
<1>3. Shape(u) /\ Named(u)
  BY <1>2 DEF Shape, Named
<1>4. Peers(u)
  BY <1>2 DEF Good, Peers
<1>5. Built(u)
  BY <1>2, BuiltKept DEF Good
<1> QED
  BY <1>3, <1>4, <1>5 DEF Good

\* rename_connection saves the row under its new name.
LEMMA RenamedFacts ==
    ASSUME NEW row, Row(row), NEW n
    PROVE  /\ Row(Renamed(row, n)) /\ OwnName(Renamed(row, n)) /\ SameTunnel(row, Renamed(row, n))
           /\ Renamed(row, n).peer = row.peer /\ Renamed(row, n).site = row.site /\ Renamed(row, n).name = n
<1> DEFINE p == [row.profile EXCEPT !.name = n]
           s == Saved(row, p)
           new == [s EXCEPT !.name = n, !.moved = FALSE]
<1>1. Fields(row) /\ IsProfile(row.profile)
  BY DEF Row, Fields
<1>2. /\ IsProfile(p) /\ p.name = n /\ p.auth = row.profile.auth /\ p.psk = row.profile.psk
      /\ p.alg = row.profile.alg /\ p.local = row.profile.local /\ p.remote = row.profile.remote
  BY <1>1 DEF IsProfile
<1> HIDE DEF p
<1>3. /\ Row(s) /\ Filled(p, s.profile) /\ s.objects = p.name /\ s.site = row.site /\ s.peer = row.peer
      /\ s.built_with = row.built_with /\ s.known = row.known
  BY <1>1, <1>2, SavedFacts
<1> HIDE DEF s
<1>4. /\ DOMAIN new = RowFields /\ new.name = n /\ new.moved = FALSE /\ new.profile = s.profile
      /\ new.objects = s.objects /\ new.site = s.site /\ new.peer = s.peer
      /\ new.built_with = s.built_with /\ new.known = s.known
  BY <1>3 DEF Row, RowFields
<1> HIDE DEF new
<1>5. Row(new) /\ OwnName(new)
  BY <1>2, <1>3, <1>4 DEF Row, OwnName, Filled
<1>6. SameTunnel(row, new)
  BY <1>2, <1>3, <1>4 DEF SameTunnel, Filled, EndOf
<1>7. Renamed(row, n) = new
  BY DEF Renamed, new, s, p
<1> QED
  BY <1>3, <1>4, <1>5, <1>6, <1>7

LEMMA RenameGood ==
    ASSUME Good(conn), Rename
    PROVE  Good(conn')
<1>1. PICK c \in There : \E n \in FreeNames(conn[c].site) : conn' = [conn EXCEPT ![c] = Renamed(@, n)]
  BY DEF Rename, Write
<1>2. PICK n \in FreeNames(conn[c].site) : conn' = [conn EXCEPT ![c] = Renamed(@, n)]
  BY <1>1
<1> DEFINE u == [conn EXCEPT ![c] = Renamed(@, n)]
<1>3. c \in ThereIn(conn) /\ c \in Conns /\ DOMAIN conn = Conns /\ Row(conn[c])
  BY ThereIsThere DEF Good, Shape, ThereIn
<1>4. DOMAIN u = Conns /\ u[c] = Renamed(conn[c], n) /\ \A x \in Conns \ {c} : u[x] = conn[x]
  BY <1>3
<1> HIDE DEF u
<1>5. /\ Row(u[c]) /\ OwnName(u[c]) /\ SameTunnel(conn[c], u[c])
      /\ u[c].peer = conn[c].peer /\ u[c].site = conn[c].site /\ u[c].name = n
  BY <1>3, <1>4, RenamedFacts
<1>6. \A x \in ThereIn(conn) : /\ Row(u[x]) /\ OwnName(u[x])
                              /\ SameTunnel(conn[x], u[x]) /\ u[x].peer = conn[x].peer
  BY <1>4, <1>5 DEF ThereIn, Good, Shape, Named, SameTunnel, EndOf
<1>7. \A x, y \in ThereIn(conn) : x # y /\ u[x].site = u[y].site => u[x].name # u[y].name
  <2>1. \A x \in ThereIn(conn) : conn[x].site = conn[c].site => conn[x].name # n
    BY FreeNamesFacts
  <2>2. QED
    BY <1>4, <1>5, <2>1 DEF ThereIn, Good, Named
<1>8. \A x \in Conns \ ThereIn(conn) : u[x] = conn[x]
  BY <1>3, <1>4
<1>9. Good(u)
  BY <1>4, <1>6, <1>7, <1>8, RelabelledGood
<1> QED
  BY <1>2, <1>9 DEF u

\* merge_sites: every connection that moves gets a name that is free, and no
\* two of them the same one.
LEMMA MergeGood ==
    ASSUME Good(conn), Merge
    PROVE  Good(conn')
<1>1. PICK source \in Sites, target \in Sites :
         /\ source # target /\ On(source) # {} /\ On(target) # {}
         /\ \E new \in [On(source) -> Names] :
              /\ \A c \in On(source) :
                    /\ new[c] \in FreeNames(target)
                    /\ conn[c].name \in FreeNames(target) => new[c] = conn[c].name
                    /\ \A d \in On(source) \ {c} : new[d] # new[c]
              /\ Write([c \in Conns |->
                    IF c \notin On(source) THEN conn[c]
                    ELSE [conn[c] EXCEPT !.site = target, !.name = new[c],
                                         !.moved = @ \/ new[c] # conn[c].name]])
  BY Zenon DEF Merge
<1>2. PICK new \in [On(source) -> Names] :
         /\ \A c \in On(source) :
               /\ new[c] \in FreeNames(target)
               /\ \A d \in On(source) \ {c} : new[d] # new[c]
         /\ conn' = [c \in Conns |->
               IF c \notin On(source) THEN conn[c]
               ELSE [conn[c] EXCEPT !.site = target, !.name = new[c],
                                    !.moved = @ \/ new[c] # conn[c].name]]
  BY <1>1 DEF Write
<1> DEFINE u == [c \in Conns |->
               IF c \notin On(source) THEN conn[c]
               ELSE [conn[c] EXCEPT !.site = target, !.name = new[c],
                                    !.moved = @ \/ new[c] # conn[c].name]]
<1>3. On(source) = {x \in ThereIn(conn) : conn[x].site = source} /\ On(source) \subseteq Conns
  BY ThereIsThere DEF On, ThereIn
<1>4. DOMAIN u = Conns /\ \A x \in Conns \ On(source) : u[x] = conn[x]
  OBVIOUS
<1>5. \A x \in On(source) :
         /\ DOMAIN u[x] = RowFields
         /\ u[x].site = target /\ u[x].name = new[x] /\ u[x].source = conn[x].source
         /\ u[x].peer = conn[x].peer /\ u[x].profile = conn[x].profile /\ u[x].objects = conn[x].objects
         /\ u[x].moved = (conn[x].moved \/ new[x] # conn[x].name)
         /\ u[x].built_with = conn[x].built_with /\ u[x].known = conn[x].known
  <2> SUFFICES ASSUME NEW x \in On(source)
               PROVE  /\ DOMAIN u[x] = RowFields
                      /\ u[x].site = target /\ u[x].name = new[x] /\ u[x].source = conn[x].source
                      /\ u[x].peer = conn[x].peer /\ u[x].profile = conn[x].profile /\ u[x].objects = conn[x].objects
                      /\ u[x].moved = (conn[x].moved \/ new[x] # conn[x].name)
                      /\ u[x].built_with = conn[x].built_with /\ u[x].known = conn[x].known
    OBVIOUS
  <2>1. DOMAIN conn[x] = RowFields
    BY <1>3 DEF Good, Shape, Row
  <2>2. u[x] = [conn[x] EXCEPT !.site = target, !.name = new[x], !.moved = @ \/ new[x] # conn[x].name]
    BY <1>3
  <2> HIDE DEF u
  <2>3. QED
    BY <2>1, <2>2 DEF RowFields
<1> HIDE DEF u
<1>6. \A x \in ThereIn(conn) : Row(conn[x]) /\ OwnName(conn[x])
  BY DEF Good, Shape, Named
<1>7. \A x \in On(source) : /\ Row(u[x]) /\ OwnName(u[x])
                          /\ SameTunnel(conn[x], u[x]) /\ u[x].peer = conn[x].peer
  <2> SUFFICES ASSUME NEW x \in On(source)
               PROVE  /\ Row(u[x]) /\ OwnName(u[x])
                      /\ SameTunnel(conn[x], u[x]) /\ u[x].peer = conn[x].peer
    OBVIOUS
  <2>1. Row(conn[x]) /\ OwnName(conn[x])
    BY <1>3, <1>6
  <2>2. Row(u[x])
    BY <1>5, <2>1 DEF Row
  <2>3. OwnName(u[x])
    BY <1>5, <2>1 DEF OwnName
  <2>4. SameTunnel(conn[x], u[x])
    BY <1>5 DEF SameTunnel, EndOf
  <2>5. QED
    BY <1>5, <2>2, <2>3, <2>4
<1>8. \A x \in ThereIn(conn) : /\ Row(u[x]) /\ OwnName(u[x])
                             /\ SameTunnel(conn[x], u[x]) /\ u[x].peer = conn[x].peer
  <2> SUFFICES ASSUME NEW x \in ThereIn(conn), x \notin On(source)
               PROVE  /\ Row(u[x]) /\ OwnName(u[x])
                      /\ SameTunnel(conn[x], u[x]) /\ u[x].peer = conn[x].peer
    BY <1>7
  <2>1. u[x] = conn[x]
    BY <1>4 DEF ThereIn
  <2>2. QED
    BY <1>6, <2>1 DEF SameTunnel, EndOf
<1>9. \A x, y \in ThereIn(conn) : x # y /\ u[x].site = u[y].site => u[x].name # u[y].name
  <2> SUFFICES ASSUME NEW x \in ThereIn(conn), NEW y \in ThereIn(conn), x # y, u[x].site = u[y].site
               PROVE  u[x].name # u[y].name
    OBVIOUS
  <2>1. \A v \in On(source), w \in ThereIn(conn) : w \notin On(source) /\ u[w].site = target => u[v].name # u[w].name
    <3> SUFFICES ASSUME NEW v \in On(source), NEW w \in ThereIn(conn), w \notin On(source), u[w].site = target
                 PROVE  u[v].name # u[w].name
      OBVIOUS
    <3>1. u[w] = conn[w]
      BY <1>4 DEF ThereIn
    <3>2. conn[w].name # new[v]
      BY <1>2, <3>1, FreeNamesFacts
    <3>3. QED
      BY <1>5, <3>1, <3>2
  <2>2. CASE x \in On(source) /\ y \in On(source)
    <3>1. y \in On(source) \ {x}
      BY <2>2
    <3>2. new[y] # new[x]
      BY <1>2, <2>2, <3>1
    <3>3. QED
      BY <1>5, <2>2, <3>2
  <2>3. CASE x \in On(source) /\ y \notin On(source)
    BY <1>5, <2>1, <2>3
  <2>4. CASE x \notin On(source) /\ y \in On(source)
    BY <1>5, <2>1, <2>4
  <2>5. CASE x \notin On(source) /\ y \notin On(source)
    <3>1. u[x] = conn[x] /\ u[y] = conn[y]
      BY <1>4, <2>5 DEF ThereIn
    <3>2. QED
      BY <3>1 DEF Good, Named
  <2>6. QED
    BY <2>2, <2>3, <2>4, <2>5
<1>10. \A x \in Conns \ ThereIn(conn) : u[x] = conn[x]
  BY <1>3, <1>4
<1>11. Good(u)
  BY <1>4, <1>8, <1>9, <1>10, RelabelledGood
<1> QED
  BY <1>2, <1>11 DEF u

LEMMA UnpairGood ==
    ASSUME Good(conn), Unpair
    PROVE  Good(conn')
BY UnpairedFacts, ThereIsThere DEF Unpair, Write

\* delete_connection: nobody points at what is gone.
LEMMA DeleteGood ==
    ASSUME Good(conn), Delete
    PROVE  Good(conn')
<1>1. PICK c \in There :
         conn' = [d \in Conns |->
            CASE d = c -> Absent
              [] d \in There \ {c} /\ conn[d].peer = c -> [conn[d] EXCEPT !.peer = None]
              [] OTHER -> conn[d]]
  BY DEF Delete, Write
<1> DEFINE u == [d \in Conns |->
            CASE d = c -> Absent
              [] d \in There \ {c} /\ conn[d].peer = c -> [conn[d] EXCEPT !.peer = None]
              [] OTHER -> conn[d]]
<1>2. There = ThereIn(conn) /\ c \in ThereIn(conn) /\ c \in Conns
  BY ThereIsThere DEF ThereIn
<1>3. DOMAIN u = Conns /\ u[c] = Absent
  BY <1>2
<1>4. \A x \in ThereIn(conn) \ {c} :
         u[x] = IF conn[x].peer = c THEN [conn[x] EXCEPT !.peer = None] ELSE conn[x]
  BY <1>2 DEF ThereIn
<1>5. \A x \in Conns \ ThereIn(conn) : u[x] = conn[x]
  BY <1>2
<1> HIDE DEF u
<1>6. \A x \in ThereIn(conn) \ {c} :
         /\ SameButPeer(conn[x], u[x]) /\ Stays(conn[x], u[x]) /\ SameTunnel(conn[x], u[x])
         /\ u[x].peer \in {None} \cup (ThereIn(conn) \ {c, x})
  <2> SUFFICES ASSUME NEW x \in ThereIn(conn) \ {c}
               PROVE  /\ SameButPeer(conn[x], u[x]) /\ Stays(conn[x], u[x]) /\ SameTunnel(conn[x], u[x])
                      /\ u[x].peer \in {None} \cup (ThereIn(conn) \ {c, x})
    OBVIOUS
  <2>1. Row(conn[x]) /\ OwnName(conn[x]) /\ conn[x].peer \in {None} \cup (ThereIn(conn) \ {x})
    BY DEF Good, Shape, Named, Peers
  <2>2. SameButPeer(conn[x], u[x]) /\ u[x].peer \in {None} \cup (ThereIn(conn) \ {c, x})
    <3>1. CASE conn[x].peer = c
      <4>1. SameButPeer(conn[x], [conn[x] EXCEPT !.peer = None]) /\ [conn[x] EXCEPT !.peer = None].peer = None
        BY <2>1, PeerChanged
      <4>2. u[x] = [conn[x] EXCEPT !.peer = None]
        BY <1>4, <3>1
      <4>3. QED
        BY <4>1, <4>2
    <3>2. CASE conn[x].peer # c
      BY <1>4, <2>1, <3>2 DEF SameButPeer
    <3>3. QED
      BY <3>1, <3>2
  <2>3. QED
    BY <2>1, <2>2, PeerStays
<1>7. ThereIn(u) = ThereIn(conn) \ {c}
  <2>1. \A x \in ThereIn(conn) \ {c} : u[x] # Absent
    BY <1>6, RowThere DEF SameButPeer, Row
  <2>2. QED
    BY <1>3, <1>5, <2>1 DEF ThereIn
<1>8. Shape(u)
  BY <1>3, <1>6, <1>7 DEF Shape, Stays
<1>9. Peers(u)
  BY <1>6, <1>7 DEF Peers
<1>10. Named(u)
  BY <1>6, <1>7 DEF Good, Named, Stays
<1>11. Built(u)
  <2>1. \A x \in ThereIn(u) :
           \/ x \in ThereIn(conn) /\ (u[x] = conn[x] \/ SameTunnel(conn[x], u[x]))
           \/ u[x].built_with = None
    BY <1>6, <1>7
  <2>2. QED
    BY <2>1, BuiltKept DEF Good
<1> QED
  BY <1>1, <1>8, <1>9, <1>10, <1>11 DEF Good, u
-----------------------------------------------------------------------------
(* build_far_end. *)

LEMMA MirrorFacts ==
    ASSUME NEW p, IsProfile(p), NEW n
    PROVE  LET m == Mirror(p, n) IN
           /\ IsProfile(m) /\ m.name = n /\ m.local = p.remote /\ m.remote = p.local
           /\ m.auth = p.auth /\ m.psk = p.psk /\ m.alg = p.alg
<1> DEFINE b == p.bgp
           x == IF ~b.on THEN b
                ELSE [b EXCEPT !.local_as = b.peer_as, !.peer_as = b.local_as,
                               !.local_ip = b.peer_ip, !.peer_ip = b.local_ip]
           m == [p EXCEPT !.name = n, !.local = p.remote, !.remote = p.local, !.tunnel_ip = Blank, !.bgp = x]
<1>1. Mirror(p, n) = m
  BY DEF Mirror
<1>2. DOMAIN x = DOMAIN NoBgp
  BY DEF IsProfile
<1> HIDE DEF x
<1>3. /\ IsProfile(m) /\ m.name = n /\ m.local = p.remote /\ m.remote = p.local
      /\ m.auth = p.auth /\ m.psk = p.psk /\ m.alg = p.alg
  BY <1>2 DEF IsProfile
<1> QED
  BY <1>1, <1>3

LEMMA PointedFacts ==
    ASSUME NEW p, IsProfile(p), NEW ip
    PROVE  LET near == PointedAt(p, ip) IN
           /\ IsProfile(near) /\ near.name = p.name /\ near.local = p.local
           /\ near.auth = p.auth /\ near.psk = p.psk /\ near.alg = p.alg
           /\ near.remote.ip = Or(ip, p.remote.ip) /\ near.remote.nets = p.remote.nets
           /\ near.remote.id = p.remote.id
BY DEF PointedAt, IsProfile

\* Two profiles of which each is the mirror of the other in what must fit.
Mirrors(near, far, known) ==
    /\ near.auth = far.auth /\ near.psk = far.psk /\ near.alg = far.alg
    /\ near.local = far.remote
    /\ near.remote.ip = far.local.ip /\ near.remote.nets = far.local.nets
    /\ known => near.local.id # NoId /\ near.remote.id # NoId /\ near.remote.id = far.local.id

\* Saved, the two match from either end: identities that both have are left
\* alone.
LEMMA MirrorsMatch ==
    ASSUME NEW near, NEW far, NEW known, Mirrors(near, far, known),
           NEW row, Filled(near, row.profile), row.known = known,
           NEW other, Filled(far, other.profile), other.known = known
    PROVE  Match(row, other) /\ Match(other, row)
<1>1. Fit(row.profile, other.profile) /\ Fit(other.profile, row.profile)
  BY DEF Mirrors, Filled, EndOf, Fit
<1>2. ASSUME known
      PROVE  /\ IdsCross(row.profile, other.profile) /\ IdsCross(other.profile, row.profile)
             /\ row.profile.local.id # NoId /\ row.profile.remote.id # NoId
             /\ other.profile.local.id # NoId /\ other.profile.remote.id # NoId
  BY <1>2 DEF Mirrors, Filled, EndOf, IdsCross
<1> QED
  BY <1>1, <1>2 DEF Match

\* A table in which c and d have become the two ends of a pair, d perhaps anew.
LEMMA PairedGood ==
    ASSUME NEW t, Good(t), NEW u, DOMAIN u = Conns,
           NEW c \in ThereIn(t), NEW d \in Conns, c # d,
           \A x \in Conns \ {c, d} : u[x] = t[x],
           Stays(t[c], u[c]), Row(u[d]), OwnName(u[d]),
           u[c].peer = d, u[d].peer = c,
           \A x \in ThereIn(t) \ {d} : t[x].site = u[d].site => t[x].name # u[d].name,
           u[c].built_with \in {d, None}, u[d].built_with \in {c, None},
           u[c].built_with = d => Match(u[c], u[d]) /\ Match(u[d], u[c])
    PROVE  Good(u)
<1>1. u[c].site = t[c].site /\ u[c].name = t[c].name /\ Row(u[c]) /\ OwnName(u[c]) /\ c \in Conns
  BY DEF Stays, ThereIn
<1>2. u[c] # Absent /\ u[d] # Absent
  BY <1>1, RowThere DEF Row
<1>3. ThereIn(u) = ThereIn(t) \cup {d}
  BY <1>1, <1>2 DEF ThereIn
<1>4. \A x \in ThereIn(t) \ {c, d} : u[x] = t[x]
  BY DEF ThereIn
<1>5. Shape(u)
  <2>1. \A x \in ThereIn(u) : Row(u[x])
    BY <1>1, <1>3, <1>4 DEF Good, Shape
  <2>2. QED
    BY <2>1 DEF Shape
<1>6. Peers(u)
  <2> SUFFICES ASSUME NEW x \in ThereIn(u)
               PROVE  u[x].peer \in {None} \cup (ThereIn(u) \ {x})
    BY DEF Peers
  <2>1. CASE x \in {c, d}
    BY <1>3, <2>1
  <2>2. CASE x \notin {c, d}
    <3>1. x \in ThereIn(t) /\ u[x] = t[x]
      BY <1>3, <1>4, <2>2
    <3>2. t[x].peer \in {None} \cup (ThereIn(t) \ {x})
      BY <3>1 DEF Good, Peers
    <3>3. QED
      BY <1>3, <3>1, <3>2
  <2>3. QED
    BY <2>1, <2>2
<1>7. Named(u)
  <2>1. \A x \in ThereIn(u) : OwnName(u[x])
    BY <1>1, <1>3, <1>4 DEF Good, Named
  <2>2. \A x \in ThereIn(t) \ {d} : u[x].site = t[x].site /\ u[x].name = t[x].name
    BY <1>1, <1>4
  <2>3. \A x, y \in ThereIn(t) : x # y /\ t[x].site = t[y].site => t[x].name # t[y].name
    BY DEF Good, Named
  <2>4. \A x, y \in ThereIn(u) : x # y /\ u[x].site = u[y].site => u[x].name # u[y].name
    <3> SUFFICES ASSUME NEW x \in ThereIn(u), NEW y \in ThereIn(u), x # y, u[x].site = u[y].site
                 PROVE  u[x].name # u[y].name
      OBVIOUS
    <3>1. CASE x = d
      BY <1>3, <2>2, <3>1
    <3>2. CASE y = d
      BY <1>3, <2>2, <3>2
    <3>3. CASE x # d /\ y # d
      BY <1>3, <2>2, <2>3, <3>3
    <3>4. QED
      BY <3>1, <3>2, <3>3
  <2>5. QED
    BY <2>1, <2>4 DEF Named
<1>8. Built(u)
  <2>1. \A x \in ThereIn(u) :
           \/ x \in ThereIn(t) /\ (u[x] = t[x] \/ SameTunnel(t[x], u[x]))
           \/ u[x].built_with = None
           \/ x = c /\ u[x].built_with = d
           \/ x = d /\ u[x].built_with = c
    BY <1>3, <1>4
  <2>2. u[c].built_with = d /\ u[d].built_with = c => Match(u[c], u[d]) /\ Match(u[d], u[c])
    OBVIOUS
  <2>3. Built(t)
    BY DEF Good
  <2>4. QED
    BY <2>1, <2>2, <2>3, BuiltStep
<1> QED
  BY <1>5, <1>6, <1>7, <1>8 DEF Good

\* The far end as a new connection.
LEMMA BuildNewGood ==
    ASSUME Good(conn), BuildNew
    PROVE  Good(conn')
<1> DEFINE rows(c) == Unpaired(conn, c)
           p(c) == rows(c)[c].profile
           m(c, n) == Mirror(p(c), n)
           far(c, n, o) == [m(c, n) EXCEPT !.local.ip = Or(o.ip, @),
                                           !.local.id = IF o.id # NoId THEN o.id ELSE @]
           near(c, o) == PointedAt(p(c), o.ip)
           known(c, o) == p(c).local.id # NoId /\ p(c).remote.id # NoId /\ o.id = NoId
           table(c, d, s, n, o) ==
               [rows(c) EXCEPT
                 ![d] = [Saved(NewRow(s, n, "generated"), far(c, n, o))
                           EXCEPT !.peer = c, !.built_with = c, !.known = known(c, o)],
                 ![c] = [Saved(@, near(c, o))
                           EXCEPT !.peer = d, !.built_with = d, !.known = known(c, o)]]
<1>1. PICK c \in There, d \in Conns, s \in Sites, o \in Choices :
         /\ d \notin There
         /\ \E n \in FreeNames(s) : Write(table(c, d, s, n, o))
  BY Zenon DEF BuildNew
<1>2. PICK n \in FreeNames(s) : conn' = table(c, d, s, n, o)
  BY <1>1, Zenon DEF Write
<1> DEFINE t == rows(c)
           q == t[c].profile
           mm == Mirror(q, n)
           f == [mm EXCEPT !.local.ip = Or(o.ip, @), !.local.id = IF o.id # NoId THEN o.id ELSE @]
           k == q.local.id # NoId /\ q.remote.id # NoId /\ o.id = NoId
           e == PointedAt(q, o.ip)
           r == NewRow(s, n, "generated")
           newd == [Saved(r, f) EXCEPT !.peer = c, !.built_with = c, !.known = k]
           newc == [Saved(t[c], e) EXCEPT !.peer = d, !.built_with = d, !.known = k]
           u == [t EXCEPT ![d] = newd, ![c] = newc]
<1>3. c \in ThereIn(conn) /\ c \in Conns /\ d \notin ThereIn(conn) /\ c # d
  BY <1>1, ThereIsThere DEF ThereIn
<1>4. conn' = u
  BY <1>2, <1>3
<1>5. /\ Good(t) /\ ThereIn(t) = ThereIn(conn)
      /\ \A x \in ThereIn(conn) : SameButPeer(conn[x], t[x])
  BY <1>3, UnpairedFacts
<1> HIDE DEF t, rows
<1>6. DOMAIN t = Conns /\ Row(t[c]) /\ Fields(t[c]) /\ OwnName(t[c]) /\ IsProfile(q)
  BY <1>3, <1>5 DEF Good, Shape, Named, Row, Fields
<1>7. /\ IsProfile(mm) /\ mm.name = n /\ mm.local = q.remote /\ mm.remote = q.local
      /\ mm.auth = q.auth /\ mm.psk = q.psk /\ mm.alg = q.alg
  BY <1>6, MirrorFacts
<1>8. /\ IsProfile(e) /\ e.name = q.name /\ e.local = q.local
      /\ e.auth = q.auth /\ e.psk = q.psk /\ e.alg = q.alg
      /\ e.remote.ip = Or(o.ip, q.remote.ip) /\ e.remote.nets = q.remote.nets
      /\ e.remote.id = q.remote.id
  BY <1>6, PointedFacts
<1> HIDE DEF mm, e
<1>9. /\ IsProfile(f) /\ f.name = n /\ f.remote = q.local
      /\ f.auth = q.auth /\ f.psk = q.psk /\ f.alg = q.alg
      /\ f.local.ip = Or(o.ip, q.remote.ip) /\ f.local.nets = q.remote.nets
      /\ o.id = NoId => f.local.id = q.remote.id
  BY <1>7 DEF IsProfile
<1> HIDE DEF f
<1>10. Mirrors(e, f, k)
  BY <1>8, <1>9 DEF Mirrors
<1>11. /\ Fields(r) /\ r.site = s /\ r.name = n /\ r.source = "generated" /\ r.moved = FALSE
  BY DEF NewRow, Fields, RowFields
<1> HIDE DEF r, k
<1>12. /\ Row(newd) /\ Filled(f, newd.profile) /\ newd.objects = f.name
       /\ newd.site = r.site /\ newd.name = r.name /\ newd.source = r.source /\ newd.moved = r.moved
       /\ newd.peer = c /\ newd.built_with = c /\ newd.known = k
  <2> DEFINE z == Saved(r, f)
  <2>1. /\ Row(z) /\ Filled(f, z.profile) /\ z.objects = f.name
        /\ z.site = r.site /\ z.name = r.name /\ z.source = r.source /\ z.moved = r.moved
    BY <1>9, <1>11, SavedFacts
  <2> HIDE DEF z
  <2>2. /\ DOMAIN newd = RowFields /\ newd.profile = z.profile /\ newd.objects = z.objects
        /\ newd.site = z.site /\ newd.name = z.name /\ newd.source = z.source /\ newd.moved = z.moved
        /\ newd.peer = c /\ newd.built_with = c /\ newd.known = k
    BY <2>1 DEF Row, RowFields, z
  <2> HIDE DEF newd
  <2>3. QED
    BY <2>1, <2>2 DEF Row
<1>13. /\ Row(newc) /\ Filled(e, newc.profile) /\ newc.objects = e.name
       /\ newc.site = t[c].site /\ newc.name = t[c].name /\ newc.source = t[c].source /\ newc.moved = t[c].moved
       /\ newc.peer = d /\ newc.built_with = d /\ newc.known = k
  <2> DEFINE z == Saved(t[c], e)
  <2>1. /\ Row(z) /\ Filled(e, z.profile) /\ z.objects = e.name
        /\ z.site = t[c].site /\ z.name = t[c].name /\ z.source = t[c].source /\ z.moved = t[c].moved
    BY <1>6, <1>8, SavedFacts
  <2> HIDE DEF z
  <2>2. /\ DOMAIN newc = RowFields /\ newc.profile = z.profile /\ newc.objects = z.objects
        /\ newc.site = z.site /\ newc.name = z.name /\ newc.source = z.source /\ newc.moved = z.moved
        /\ newc.peer = d /\ newc.built_with = d /\ newc.known = k
    BY <2>1 DEF Row, RowFields, z
  <2> HIDE DEF newc
  <2>3. QED
    BY <2>1, <2>2 DEF Row
<1> HIDE DEF newc, newd
<1>14. /\ DOMAIN u = Conns /\ u[c] = newc /\ u[d] = newd
       /\ \A x \in Conns \ {c, d} : u[x] = t[x]
  BY <1>3, <1>6
<1> HIDE DEF u
<1>15. Match(newc, newd) /\ Match(newd, newc)
  BY <1>10, <1>12, <1>13, MirrorsMatch
<1>16. OwnName(newd)
  BY <1>9, <1>11, <1>12 DEF OwnName, Filled
<1>17. Stays(t[c], newc)
  BY <1>6, <1>8, <1>13 DEF Stays, OwnName, Filled
<1>18. \A x \in ThereIn(t) \ {d} : t[x].site = u[d].site => t[x].name # u[d].name
  BY <1>2, <1>5, <1>11, <1>12, <1>14, FreeNamesFacts DEF SameButPeer
<1>19. Good(u)
  BY <1>3, <1>5, <1>12, <1>13, <1>14, <1>15, <1>16, <1>17, <1>18, PairedGood
<1> QED
  BY <1>4, <1>19

\* The far end as a connection that is there.
LEMMA BuildExistingGood ==
    ASSUME Good(conn), BuildExisting
    PROVE  Good(conn')
<1> DEFINE t(c) == Unpaired(conn, c)
           p(c) == t(c)[c].profile
           e(c, d) == t(c)[d].profile
           far(c, d) == [Mirror(p(c), t(c)[d].name) EXCEPT !.local = e(c, d).local]
           near(c, d) == [PointedAt(p(c), e(c, d).local.ip)
                            EXCEPT !.remote.nets = IF e(c, d).local.nets # {} THEN e(c, d).local.nets ELSE @]
           fits(c, d) == e(c, d).local.ip # Blank /\ e(c, d).local.nets # {}
           known(c, d) == p(c).local.id # NoId /\ e(c, d).local.id # NoId /\ p(c).remote.id = e(c, d).local.id
           table(c, d) ==
               [t(c) EXCEPT
                 ![d] = [Saved(@, far(c, d)) EXCEPT !.peer = c, !.moved = FALSE,
                           !.built_with = IF fits(c, d) THEN c ELSE None, !.known = known(c, d)],
                 ![c] = [Saved(@, near(c, d)) EXCEPT !.peer = d,
                           !.built_with = IF fits(c, d) THEN d ELSE None, !.known = known(c, d)]]
<1>1. PICK c \in There, d \in There : c # d /\ conn' = table(c, d)
  <2>1. \E c, d \in There : c # d /\ Write(table(c, d))
    BY Zenon DEF BuildExisting
  <2>2. QED
    BY Zenon, <2>1 DEF Write
<1> DEFINE tt == t(c)
           q == tt[c].profile
           x == tt[d].profile
           m == Mirror(q, tt[d].name)
           f == [m EXCEPT !.local = x.local]
           g == PointedAt(q, x.local.ip)
           n == [g EXCEPT !.remote.nets = IF x.local.nets # {} THEN x.local.nets ELSE @]
           fit == x.local.ip # Blank /\ x.local.nets # {}
           k == q.local.id # NoId /\ x.local.id # NoId /\ q.remote.id = x.local.id
           bc == IF fit THEN d ELSE None
           bd == IF fit THEN c ELSE None
           newd == [Saved(tt[d], f) EXCEPT !.peer = c, !.moved = FALSE, !.built_with = bd, !.known = k]
           newc == [Saved(tt[c], n) EXCEPT !.peer = d, !.built_with = bc, !.known = k]
           u == [tt EXCEPT ![d] = newd, ![c] = newc]
<1>2. c \in ThereIn(conn) /\ c \in Conns /\ d \in ThereIn(conn) /\ d \in Conns
  BY ThereIsThere DEF ThereIn
<1>3. conn' = u
  BY <1>1
<1>4. Good(tt) /\ ThereIn(tt) = ThereIn(conn)
  BY <1>2, UnpairedFacts
<1> HIDE DEF tt, t
<1>5. /\ DOMAIN tt = Conns /\ Row(tt[c]) /\ Fields(tt[c]) /\ OwnName(tt[c]) /\ IsProfile(q)
      /\ Row(tt[d]) /\ Fields(tt[d]) /\ IsProfile(x)
  BY <1>2, <1>4 DEF Good, Shape, Named, Row, Fields
<1>6. /\ IsProfile(m) /\ m.name = tt[d].name /\ m.remote = q.local
      /\ m.auth = q.auth /\ m.psk = q.psk /\ m.alg = q.alg
  BY <1>5, MirrorFacts
<1>7. /\ IsProfile(g) /\ g.name = q.name /\ g.local = q.local
      /\ g.auth = q.auth /\ g.psk = q.psk /\ g.alg = q.alg
      /\ g.remote.ip = Or(x.local.ip, q.remote.ip) /\ g.remote.id = q.remote.id
  BY <1>5, PointedFacts
<1> HIDE DEF m, g
<1>8. /\ IsProfile(f) /\ f.name = tt[d].name /\ f.remote = q.local /\ f.local = x.local
      /\ f.auth = q.auth /\ f.psk = q.psk /\ f.alg = q.alg
  BY <1>5, <1>6 DEF IsProfile
<1>9. /\ IsProfile(n) /\ n.name = q.name /\ n.local = q.local
      /\ n.auth = q.auth /\ n.psk = q.psk /\ n.alg = q.alg
      /\ n.remote.ip = Or(x.local.ip, q.remote.ip) /\ n.remote.id = q.remote.id
      /\ x.local.nets # {} => n.remote.nets = x.local.nets
  BY <1>7 DEF IsProfile
<1> HIDE DEF f, n
<1>10. fit => Mirrors(n, f, k)
  BY <1>8, <1>9 DEF Mirrors, Or
<1> HIDE DEF fit, k
<1>11. /\ Row(newd) /\ Filled(f, newd.profile) /\ newd.objects = f.name
       /\ newd.site = tt[d].site /\ newd.name = tt[d].name
       /\ newd.peer = c /\ newd.built_with = bd /\ newd.known = k
  <2> DEFINE s == Saved(tt[d], f)
  <2>1. /\ Row(s) /\ Filled(f, s.profile) /\ s.objects = f.name
        /\ s.site = tt[d].site /\ s.name = tt[d].name
    BY <1>5, <1>8, SavedFacts
  <2> HIDE DEF s
  <2>2. /\ DOMAIN newd = RowFields /\ newd.profile = s.profile /\ newd.objects = s.objects
        /\ newd.site = s.site /\ newd.name = s.name
        /\ newd.peer = c /\ newd.built_with = bd /\ newd.known = k
    BY <2>1 DEF Row, RowFields, s
  <2> HIDE DEF newd
  <2>3. QED
    BY <2>1, <2>2 DEF Row
<1>12. /\ Row(newc) /\ Filled(n, newc.profile) /\ newc.objects = n.name
       /\ newc.site = tt[c].site /\ newc.name = tt[c].name /\ newc.source = tt[c].source /\ newc.moved = tt[c].moved
       /\ newc.peer = d /\ newc.built_with = bc /\ newc.known = k
  <2> DEFINE z == Saved(tt[c], n)
  <2>1. /\ Row(z) /\ Filled(n, z.profile) /\ z.objects = n.name
        /\ z.site = tt[c].site /\ z.name = tt[c].name /\ z.source = tt[c].source /\ z.moved = tt[c].moved
    BY <1>5, <1>9, SavedFacts
  <2> HIDE DEF z
  <2>2. /\ DOMAIN newc = RowFields /\ newc.profile = z.profile /\ newc.objects = z.objects
        /\ newc.site = z.site /\ newc.name = z.name /\ newc.source = z.source /\ newc.moved = z.moved
        /\ newc.peer = d /\ newc.built_with = bc /\ newc.known = k
    BY <2>1 DEF Row, RowFields, z
  <2> HIDE DEF newc
  <2>3. QED
    BY <2>1, <2>2 DEF Row
<1> HIDE DEF newc, newd
<1>13. /\ DOMAIN u = Conns /\ u[c] = newc /\ u[d] = newd
       /\ \A y \in Conns \ {c, d} : u[y] = tt[y]
  BY <1>1, <1>2, <1>5
<1> HIDE DEF u
<1>14. bc = d => Match(newc, newd) /\ Match(newd, newc)
  <2>1. bc = d => fit
    BY <1>2, TunnelsAssumption
  <2>2. fit => Match(newc, newd) /\ Match(newd, newc)
    BY <1>10, <1>11, <1>12, MirrorsMatch
  <2>3. QED
    BY <2>1, <2>2
<1>15. OwnName(newd)
  BY <1>8, <1>11 DEF OwnName, Filled
<1>16. Stays(tt[c], newc)
  BY <1>5, <1>9, <1>12 DEF Stays, OwnName, Filled
<1>17. \A y \in ThereIn(tt) \ {d} : tt[y].site = u[d].site => tt[y].name # u[d].name
  BY <1>2, <1>4, <1>11, <1>13 DEF Good, Named
<1>18. Good(u)
  BY <1>1, <1>2, <1>4, <1>11, <1>12, <1>13, <1>14, <1>15, <1>16, <1>17, PairedGood
<1> QED
  BY <1>3, <1>18
-----------------------------------------------------------------------------
(* What has been shown. *)

\* What is shown depends on the rows it is about, and an edit on the defaults.
LEMMA ShownKept ==
    ASSUME NEW r, IsChange(r), DOMAIN conn = Conns, DOMAIN conn' = Conns, Pending(r),
           conn'[r.c] = conn[r.c], conn'[r.d] = conn[r.d], r.op = "edit" => defaults' = defaults
    PROVE  Shown(r)' = Shown(r)
<1>1. CASE r.op = "edit"
  <2>1. r.d = r.c
    BY <1>1 DEF IsChange
  <2>2. /\ Meant(r) = [x \in {r.c} |-> FromForm(conn[x].name, r.form)]
        /\ Meant(r)' = [x \in {r.c} |-> FromForm(conn[x].name, r.form)]'
    BY <1>1 DEF Meant
  <2>3. FromForm(conn[r.c].name, r.form)' = FromForm(conn[r.c].name, r.form)
    BY <1>1 DEF FromForm
  <2>4. Meant(r)'[r.c] = Meant(r)[r.c]
    BY <2>2, <2>3
  <2>5. QED
    BY <2>1, <2>4 DEF Shown
<1>2. CASE r.op = "pair"
  <2>1. /\ Meant(r) = [x \in {r.c, r.d} |-> conn[x].profile]
        /\ Meant(r)' = [x \in {r.c, r.d} |-> conn'[x].profile]
    BY <1>2 DEF Meant
  <2>2. Meant(r)'[r.c] = Meant(r)[r.c] /\ Meant(r)'[r.d] = Meant(r)[r.d]
    BY <2>1
  <2>3. QED
    BY <2>2 DEF Shown
<1>3. CASE r.op = "bgp"
  <2>1. conn[r.c].peer = r.d /\ conn'[r.c].peer = r.d
    BY <1>3 DEF Pending
  <2>2. NearPeered(r.c)' = NearPeered(r.c)
    BY <2>1 DEF NearPeered
  <2>3. FarPeered(r.c)' = FarPeered(r.c)
    BY <2>1, <2>2 DEF FarPeered
  <2>4. /\ Meant(r) = [x \in {r.c, r.d} |-> IF x = r.c THEN NearPeered(r.c) ELSE FarPeered(r.c)]
        /\ Meant(r)' = [x \in {r.c, r.d} |-> IF x = r.c THEN NearPeered(r.c)' ELSE FarPeered(r.c)']
    BY <1>3 DEF Meant
  <2>5. Meant(r)'[r.c] = Meant(r)[r.c] /\ Meant(r)'[r.d] = Meant(r)[r.d]
    BY <2>2, <2>3, <2>4
  <2>6. QED
    BY <2>5 DEF Shown
<1> QED
  BY <1>1, <1>2, <1>3 DEF IsChange

\* A change writes what is shown of it, but for an end for which no peering is
\* inferred, which it leaves alone.
LEMMA OutcomeShown ==
    ASSUME Good(conn), NEW r, IsChange(r), Pending(r), NEW x \in {r.c, r.d}
    PROVE  LET new == Outcome(r)[x] IN
           \/ Shown(r)[x] = [profile |-> new.profile, objects |-> new.objects]
           \/ NothingInferred(r, x) /\ new = conn[x]
<1> DEFINE c == r.c
           d == r.d
           m == Meant(r)[x]
           row == conn[x]
           new == Outcome(r)[x]
<1>1. /\ c \in ThereIn(conn) /\ d \in ThereIn(conn) /\ c \in Conns /\ d \in Conns
      /\ DOMAIN conn = Conns
  BY ThereIsThere DEF ThereIn, Pending, IsChange, Good, Shape
<1>2. Fields(row)
  BY <1>1 DEF Good, Shape, Row, Fields
<1>3. Shown(r)[x] = [profile |-> FilledIds(m), objects |-> m.name]
  BY DEF Shown
<1>4. \A p : Saved(row, p).profile = FilledIds(p) /\ Saved(row, p).objects = p.name
  BY <1>2 DEF Saved, Fields, RowFields
<1>5. CASE r.op = "edit"
  <2>1. x = c /\ m = FromForm(row.name, r.form)
    BY <1>5 DEF IsChange, Meant
  <2>2. new = [Saved(row, m) EXCEPT !.moved = FALSE, !.built_with = None]
    BY <1>1, <1>5, <2>1 DEF Outcome, Edited
  <2>3. new.profile = Saved(row, m).profile /\ new.objects = Saved(row, m).objects
    <3>1. DOMAIN Saved(row, m) = RowFields
      BY <1>2 DEF Saved, Fields
    <3>2. QED
      BY <2>2, <3>1 DEF RowFields
  <2>4. QED
    BY <1>3, <1>4, <2>3
<1>6. CASE r.op = "pair"
  <2>1. c # d /\ m = row.profile
    BY <1>6 DEF IsChange, Meant
  <2>2. \E e : new = [Saved(row, m) EXCEPT !.peer = e]
    BY <1>1, <1>6, <2>1 DEF Outcome, Joined
  <2>3. new.profile = Saved(row, m).profile /\ new.objects = Saved(row, m).objects
    <3>1. DOMAIN Saved(row, m) = RowFields
      BY <1>2 DEF Saved, Fields
    <3>2. QED
      BY <2>2, <3>1 DEF RowFields
  <2>4. QED
    BY <1>3, <1>4, <2>3
<1>7. CASE r.op = "bgp"
  <2>1. c # d /\ conn[c].peer = d
    BY <1>7 DEF IsChange, Pending
  <2>2. m = IF x = c THEN NearPeered(c) ELSE FarPeered(c)
    BY <1>7 DEF Meant
  <2>3. Outcome(r) = Peered(c)
    BY <1>7 DEF Outcome
  <2>4. new = IF x \in Inferred(c) THEN Saved(row, m) ELSE row
    BY <1>1, <2>1, <2>2, <2>3 DEF Peered
  <2>5. CASE x \in Inferred(c)
    BY <1>3, <1>4, <2>4, <2>5
  <2>6. CASE x \notin Inferred(c)
    BY <1>7, <2>4, <2>6 DEF NothingInferred
  <2>7. QED
    BY <2>5, <2>6
<1> QED
  BY <1>5, <1>6, <1>7 DEF IsChange

\* What a step of somebody else leaves of a review.
LEMMA ReviewKept ==
    ASSUME Inv, Good(conn'), KeepReview
    PROVE  ReviewInv'
<1> SUFFICES ASSUME review' # NoReview
             PROVE  /\ DOMAIN review' = {"op", "change", "shown", "touched"} /\ review'.op = "asked"
                    /\ IsChange(review'.change)
                    /\ ~review'.touched => (Pending(review.change) /\ review.shown = Shown(review.change))'
  BY Zenon DEF ReviewInv
<1>1. review # NoReview
  BY DEF KeepReview, Touched
<1>2. /\ DOMAIN review = {"op", "change", "shown", "touched"} /\ review.op = "asked"
      /\ IsChange(review.change)
      /\ ~review.touched => Pending(review.change) /\ review.shown = Shown(review.change)
  BY <1>1 DEF Inv, ReviewInv
<1>3. CASE Touched
  <2>1. review' = [review EXCEPT !.touched = TRUE]
    BY <1>3 DEF KeepReview
  <2>2. DOMAIN review' = {"op", "change", "shown", "touched"} /\ review'.op = "asked"
    BY <1>2, <2>1
  <2>3. review'.change = review.change
    BY <1>2, <2>1
  <2>4. review'.touched = TRUE
    BY <1>2, <2>1
  <2>5. QED
    BY <1>2, <2>2, <2>3, <2>4
<1>4. CASE ~Touched
  <2>1. review' = review
    BY <1>4 DEF KeepReview
  <2> SUFFICES ASSUME ~review.touched
               PROVE  (Pending(review.change) /\ review.shown = Shown(review.change))'
    BY <1>2, <2>1
  <2>2. PICK r : r = review.change
    OBVIOUS
  <2>3. IsChange(r) /\ Pending(r) /\ review.shown = Shown(r)
    BY <1>2, <2>2
  <2>4. conn'[r.c] = conn[r.c] /\ conn'[r.d] = conn[r.d] /\ (r.op = "edit" => defaults' = defaults)
    BY <1>1, <1>4, <2>2 DEF Touched
  <2>5. DOMAIN conn = Conns /\ DOMAIN conn' = Conns
    BY DEF Inv, Good, Shape
  <2>6. Shown(r)' = Shown(r)
    BY <2>3, <2>4, <2>5, ShownKept
  <2>7. Pending(r)'
    BY <2>3, <2>4 DEF Pending, There
  <2>8. review'.change = r /\ review'.shown = Shown(r)'
    BY <2>1, <2>2, <2>3, <2>6
  <2>9. QED
    BY <2>7, <2>8
<1> QED
  BY <1>3, <1>4

\* What may be asked for.
LEMMA ChangesFacts ==
    ASSUME Good(conn), NEW r \in Changes, Possible(r)
    PROVE  IsChange(r) /\ Pending(r)
<1>1. There \subseteq Conns /\ \A c \in There : conn[c].peer \in {None} \cup (There \ {c})
  BY ThereIsThere DEF There, Good, Peers
<1>2. CASE \E c \in There, f \in Forms : r = Asked("edit", c, c, f)
  <2>1. PICK c \in There, f \in Forms : r = Asked("edit", c, c, f)
    BY <1>2
  <2>2. DOMAIN r = {"op", "c", "d", "form"} /\ r.op = "edit" /\ r.c = c /\ r.d = c /\ r.form = f
    BY <2>1 DEF Asked
  <2>3. QED
    BY <1>1, <2>2 DEF IsChange, Pending
<1>3. CASE \E c \in There, d \in There : r = Asked("pair", c, d, NoForm)
  <2>1. PICK c \in There, d \in There : r = Asked("pair", c, d, NoForm)
    BY <1>3
  <2>2. DOMAIN r = {"op", "c", "d", "form"} /\ r.op = "pair" /\ r.c = c /\ r.d = d
    BY <2>1 DEF Asked
  <2>3. c # d
    BY <2>2 DEF Possible, MayJoin
  <2>4. QED
    BY <1>1, <2>2, <2>3 DEF IsChange, Pending
<1>4. CASE \E c \in There : conn[c].peer # None /\ r = Asked("bgp", c, conn[c].peer, NoForm)
  <2>1. PICK c \in There : conn[c].peer # None /\ r = Asked("bgp", c, conn[c].peer, NoForm)
    BY <1>4
  <2>2. DOMAIN r = {"op", "c", "d", "form"} /\ r.op = "bgp" /\ r.c = c /\ r.d = conn[c].peer
    BY <2>1 DEF Asked
  <2>3. QED
    BY <1>1, <2>1, <2>2 DEF IsChange, Pending
<1> QED
  BY <1>2, <1>3, <1>4 DEF Changes

\* At first there are some connections, of different names where the site is one.
LEMMA InitGood ==
    ASSUME Init
    PROVE  Good(conn)
<1>1. PICK C \in SUBSET Conns :
         \E row \in [C -> {Added(s, n, f) : s \in Sites, n \in Names, f \in Forms}
                          \cup {Found(s, n, i, n) : s \in Sites, n \in Names, i \in Imports}] :
            /\ \A c, d \in C : c # d => row[c].site # row[d].site \/ row[c].name # row[d].name
            /\ conn = [c \in Conns |-> IF c \in C THEN row[c] ELSE Absent]
  BY DEF Init
<1>2. PICK row \in [C -> {Added(s, n, f) : s \in Sites, n \in Names, f \in Forms}
                          \cup {Found(s, n, i, n) : s \in Sites, n \in Names, i \in Imports}] :
         /\ \A c, d \in C : c # d => row[c].site # row[d].site \/ row[c].name # row[d].name
         /\ conn = [c \in Conns |-> IF c \in C THEN row[c] ELSE Absent]
  BY <1>1
<1> DEFINE t == [c \in Conns |-> Absent]
<1>3. DOMAIN t = Conns /\ ThereIn(t) = {}
  BY DEF ThereIn
<1> HIDE DEF t
<1>4. Good(t)
  BY <1>3 DEF Good, Shape, Peers, Named, Built
<1>5. \A c \in C : NewlyNamed(row[c], row[c].site, row[c].name)
  <2> SUFFICES ASSUME NEW c \in C PROVE NewlyNamed(row[c], row[c].site, row[c].name)
    OBVIOUS
  <2>1. PICK v : v = row[c]
    OBVIOUS
  <2>2. CASE \E s \in Sites, n \in Names, f \in Forms : v = Added(s, n, f)
    <3>1. PICK s \in Sites, n \in Names, f \in Forms : v = Added(s, n, f)
      BY <2>2
    <3>2. NewlyNamed(v, s, n)
      BY <3>1, AddedFacts
    <3>3. QED
      BY <2>1, <3>2 DEF NewlyNamed
  <2>3. CASE \E s \in Sites, n \in Names, i \in Imports : v = Found(s, n, i, n)
    <3>1. PICK s \in Sites, n \in Names, i \in Imports : v = Found(s, n, i, n)
      BY <2>3
    <3>2. NewlyNamed(v, s, n)
      BY <3>1, FoundFacts
    <3>3. QED
      BY <2>1, <3>2 DEF NewlyNamed
  <2>4. v \in {Added(s, n, f) : s \in Sites, n \in Names, f \in Forms}
             \cup {Found(s, n, i, n) : s \in Sites, n \in Names, i \in Imports}
    BY <1>2, <2>1
  <2>5. QED
    BY <2>2, <2>3, <2>4
<1>6. DOMAIN conn = Conns /\ \A x \in Conns \ C : conn[x] = Absent
  BY <1>2
<1>7. \A x \in C : conn[x] = row[x]
  BY <1>2
<1>8. \A x \in Conns \ C : conn[x] = t[x]
  BY <1>6 DEF t
<1>9. \A x \in C : NewlyNamed(conn[x], conn[x].site, conn[x].name)
  BY <1>5, <1>7
<1>10. \A x \in C : \A y \in ThereIn(t) \cup C :
          x # y /\ conn[x].site = conn[y].site => conn[x].name # conn[y].name
  BY <1>2, <1>3, <1>7
<1>11. C \subseteq Conns \ ThereIn(t)
  BY <1>3
<1> QED
  BY <1>4, <1>6, <1>8, <1>9, <1>10, <1>11, NewRows

\* The connections are well formed, point at one another, bear names of their
\* own and fit where they were built to; and what is under review is what its
\* page would show now, unless somebody has touched it.
THEOREM TunnelsInv == Spec => []Inv
<1>1. Init => Inv
  <2> SUFFICES ASSUME Init PROVE Inv
    OBVIOUS
  <2>1. Good(conn)
    BY InitGood
  <2>2. ReviewInv
    BY DEF Init, ReviewInv
  <2>3. QED
    BY <2>1, <2>2 DEF Inv
<1>2. Inv /\ [Next]_vars => Inv'
  <2> SUFFICES ASSUME Inv, [Next]_vars PROVE Inv'
    OBVIOUS
  <2>1. ASSUME Good(conn'), KeepReview PROVE Inv'
    BY <2>1, ReviewKept DEF Inv
  <2>2. ASSUME UNCHANGED <<conn, defaults>>, ReviewInv' PROVE Inv'
    BY <2>2 DEF Inv
  <2>3. CASE AddConnection
    BY <2>1, <2>3, AddConnectionGood DEF Inv, AddConnection, Write
  <2>4. CASE Import
    BY <2>1, <2>4, ImportGood DEF Inv, Import, Write
  <2>5. CASE ImportUpdate
    BY <2>1, <2>5, ImportUpdateGood DEF Inv, ImportUpdate, Write
  <2>6. CASE Merge
    BY <2>1, <2>6, MergeGood DEF Inv, Merge, Write
  <2>7. CASE Rename
    BY <2>1, <2>7, RenameGood DEF Inv, Rename, Write
  <2>8. CASE BuildNew
    <3>1. KeepReview
      BY <2>8 DEF BuildNew, Write
    <3>2. Good(conn')
      BY <2>8, BuildNewGood DEF Inv
    <3>3. QED
      BY <2>1, <3>1, <3>2
  <2>9. CASE BuildExisting
    BY <2>1, <2>9, BuildExistingGood DEF Inv, BuildExisting, Write
  <2>10. CASE Unpair
    BY <2>1, <2>10, UnpairGood DEF Inv, Unpair, Write
  <2>11. CASE Delete
    BY <2>1, <2>11, DeleteGood DEF Inv, Delete, Write
  <2>12. CASE Change
    <3>1. PICK r \in Changes : Possible(r) /\ Write(Outcome(r))
      BY <2>12 DEF Change
    <3>2. Good(Outcome(r))
      BY <3>1, ChangesFacts, OutcomeGood DEF Inv
    <3>3. QED
      BY <2>1, <3>1, <3>2 DEF Write
  <2>13. CASE SaveDefaults
    BY <2>1, <2>13 DEF SaveDefaults, Inv
  <2>14. CASE Preview
    <3>1. PICK r \in Changes :
             /\ Possible(r)
             /\ review' = [op |-> "asked", change |-> r, shown |-> Shown(r), touched |-> FALSE]
      BY <2>14 DEF Preview
    <3>2. UNCHANGED <<conn, defaults>>
      BY <2>14 DEF Preview
    <3>3. IsChange(r) /\ Pending(r)
      BY <3>1, ChangesFacts DEF Inv
    <3>4. Pending(r)' /\ Shown(r)' = Shown(r)
      <4>1. DOMAIN conn = Conns /\ DOMAIN conn' = Conns
        BY <3>2 DEF Inv, Good, Shape
      <4>2. Shown(r)' = Shown(r)
        BY <3>2, <3>3, <4>1, ShownKept
      <4>3. QED
        BY <3>2, <3>3, <4>2 DEF Pending, There
    <3>5. /\ DOMAIN review' = {"op", "change", "shown", "touched"} /\ review'.op = "asked"
          /\ review'.change = r /\ review'.shown = Shown(r)
      BY <3>1
    <3>6. ReviewInv'
      BY <3>3, <3>4, <3>5 DEF ReviewInv
    <3>7. QED
      BY <2>2, <3>2, <3>6
  <2>15. CASE Approve
    <3>1. review # NoReview /\ Possible(review.change) /\ conn' = Outcome(review.change) /\ review' = NoReview
      BY <2>15 DEF Approve
    <3>2. IsChange(review.change)
      BY <3>1 DEF Inv, ReviewInv
    <3>3. Good(conn')
      BY <3>1, <3>2, OutcomeGood DEF Inv
    <3>4. QED
      BY <3>1, <3>3 DEF Inv, ReviewInv
  <2>16. CASE Dismiss
    BY <2>2, <2>16 DEF Dismiss, ReviewInv
  <2>17. CASE UNCHANGED vars
    <3>1. UNCHANGED <<conn, defaults, review>>
      BY <2>17 DEF vars
    <3>2. KeepReview
      BY <3>1 DEF KeepReview, Touched
    <3>3. Good(conn')
      BY <3>1 DEF Inv
    <3>4. QED
      BY <2>1, <3>2, <3>3
  <2>18. CASE Rest
    BY <2>17, <2>18 DEF Rest
  <2>19. QED
    BY <2>3, <2>4, <2>5, <2>6, <2>7, <2>8, <2>9, <2>10, <2>11, <2>12, <2>13, <2>14, <2>15, <2>16,
       <2>17, <2>18 DEF Next
<1>3. QED
  BY <1>1, <1>2, PTL DEF Spec
-----------------------------------------------------------------------------
\* Two ends that build_far_end has made to match go on matching, whatever is
\* renamed, merged, unpaired or built for others, until one is edited or
\* imported over.
THEOREM TunnelsBuiltPairsFit == Spec => []BuiltPairsFit
<1>1. Inv => BuiltPairsFit
  BY ThereIsThere DEF Inv, Good, Built, Match, BuiltPairsFit
<1>2. QED
  BY <1>1, TunnelsInv, PTL

\* Two configurations for one device define different objects, but for a
\* connection renamed in a merge or as it was imported.
THEOREM TunnelsObjectsDistinct == Spec => []ObjectsDistinct
<1>1. ASSUME Inv PROVE ObjectsDistinct
  <2> SUFFICES ASSUME NEW c \in There, NEW d \in There, c # d,
                      conn[c].site = conn[d].site, conn[c].objects = conn[d].objects,
                      ~conn[c].moved, ~conn[d].moved,
                      conn[c].source # "imported", conn[d].source # "imported"
               PROVE  FALSE
    BY DEF ObjectsDistinct
  <2>1. conn[c].objects = conn[c].name /\ conn[d].objects = conn[d].name
    BY <1>1, ThereIsThere DEF Inv, Good, Named, OwnName
  <2>2. conn[c].name # conn[d].name
    BY <1>1, ThereIsThere DEF Inv, Good, Named
  <2>3. QED
    BY <2>1, <2>2
<1>2. QED
  BY <1>1, TunnelsInv, PTL

\* A presumed far end presumes the same of this end, unless it protects no
\* networks, and the two may be paired.
THEOREM TunnelsSuggestedBothWays == Spec => []SuggestedBothWays
<1>1. SuggestedBothWays
  <2> SUFFICES ASSUME NEW c \in There, NEW d \in Suggested(c)
               PROVE  /\ c \in Suggested(d) \/ conn[d].profile.local.nets = {}
                      /\ MayJoin(c, d)
    BY DEF SuggestedBothWays
  <2> DEFINE p == conn[c].profile
             q == conn[d].profile
  <2>1. /\ d \in There /\ d # c /\ conn[c].peer = None /\ conn[d].peer = None
        /\ conn[c].site # conn[d].site
        /\ \/ AddressesMeet(p, q) \/ NetsMeet(p, q) \/ Linked(p, q)
           \/ NamesEnd(c, d) /\ NamesEnd(d, c)
    BY DEF Suggested
  <2>2. AddressesMeet(p, q) => AddressesMeet(q, p)
    BY DEF AddressesMeet
  <2>3. NetsMeet(p, q) => NetsMeet(q, p) \/ q.local.nets = {}
    BY DEF NetsMeet
  <2>4. Linked(p, q) => Linked(q, p)
    <3>1. {p.tunnel_ip, q.tunnel_ip} = {q.tunnel_ip, p.tunnel_ip}
      OBVIOUS
    <3>2. QED
      BY <3>1 DEF Linked
  <2>5. c \in Suggested(d) \/ q.local.nets = {}
    BY <2>1, <2>2, <2>3, <2>4 DEF Suggested
  <2>6. MayJoin(c, d)
    BY <2>1 DEF MayJoin
  <2>7. QED
    BY <2>5, <2>6
<1>2. QED
  BY <1>1, PTL

\* What is approved is what was shown, unless one of its rows, or for an edit
\* the defaults, changed in between, and but for an end that an inferred peering
\* leaves alone.
THEOREM TunnelsApprovedAsShown == Spec => ApprovedAsShown
<1> DEFINE AsShown(x) ==
               \/ review.shown[x] = [profile |-> conn'[x].profile, objects |-> conn'[x].objects]
               \/ NothingInferred(review.change, x) /\ conn'[x] = conn[x]
<1>1. ASSUME Inv, Next, review # NoReview, ~review.touched, review' = NoReview, changes' # changes,
             NEW x \in DOMAIN review.shown
      PROVE  AsShown(x)
  <2>1. PICK r : r = review.change
    OBVIOUS
  <2>2. /\ DOMAIN review = {"op", "change", "shown", "touched"} /\ review.op = "asked"
        /\ IsChange(r) /\ Pending(r) /\ review.shown = Shown(r)
    BY <1>1, <2>1 DEF Inv, ReviewInv
  <2>3. ~KeepReview
    <3>1. [review EXCEPT !.touched = TRUE].op = "asked"
      BY <2>2
    <3>2. NoReview.op = "none"
      BY DEF NoReview
    <3>3. QED
      BY <1>1, <3>1, <3>2 DEF KeepReview
  <2>4. Approve
    <3>1. ~Preview /\ ~Dismiss /\ ~Rest
      BY <1>1 DEF Preview, Dismiss, Rest, vars
    <3>2. ~AddConnection /\ ~Import /\ ~ImportUpdate /\ ~Merge /\ ~Rename
      BY <2>3 DEF AddConnection, Import, ImportUpdate, Merge, Rename, Write
    <3>3. ~BuildNew
      <4>1. ASSUME BuildNew PROVE KeepReview
        BY <4>1 DEF BuildNew, Write
      <4>2. QED
        BY <2>3, <4>1
    <3>4. ~BuildExisting
      BY <2>3 DEF BuildExisting, Write
    <3>5. ~Unpair /\ ~Delete /\ ~Change /\ ~SaveDefaults
      BY <2>3 DEF Unpair, Delete, Change, SaveDefaults, Write
    <3>6. QED
      BY <1>1, <3>1, <3>2, <3>3, <3>4, <3>5 DEF Next
  <2>5. conn' = Outcome(r)
    BY <2>1, <2>4 DEF Approve
  <2>6. x \in {r.c, r.d}
    BY <1>1, <2>2 DEF Shown
  <2>7. QED
    BY <1>1, <2>1, <2>2, <2>5, <2>6, OutcomeShown DEF Inv
<1>2. Inv /\ [Next]_vars =>
         [review # NoReview /\ ~review.touched /\ review' = NoReview /\ changes' # changes =>
             \A x \in DOMAIN review.shown : AsShown(x)]_vars
  BY <1>1 DEF vars
<1>3. QED
  BY <1>2, TunnelsInv, PTL DEF Spec, ApprovedAsShown

\* Applying the inferred peering makes the two ends neighbours of each other:
\* their AS numbers cross if they did not contradict each other, and their
\* addresses if each end has one, whichever of the two it is applied from.
THEOREM TunnelsPeeringMirrors == Spec => PeeringMirrors
<1> DEFINE Mirrored(c, d, p, q, b, e) ==
               /\ Consistent(p, q) => b.local_as = e.peer_as /\ b.peer_as = e.local_as
               /\ OwnAddress(p) # Blank /\ OwnAddress(q) # Blank =>
                     b.local_ip = e.peer_ip /\ b.peer_ip = e.local_ip
<1>1. ASSUME Inv, NEW c \in There, conn[c].peer # None, conn' = Peered(c)
      PROVE  Mirrored(c, conn[c].peer, conn[c].profile, conn[conn[c].peer].profile,
                      conn'[c].profile.bgp, conn'[conn[c].peer].profile.bgp)
  <2> DEFINE d == conn[c].peer
             p == conn[c].profile
             q == conn[d].profile
             cp == IF Infers(p, q) THEN WithInferredBgp(p, q) ELSE p
             w == WithInferredBgp(q, cp)
             b == conn'[c].profile.bgp
             e == conn'[d].profile.bgp
  <2>1. /\ c \in ThereIn(conn) /\ d \in ThereIn(conn) /\ c \in Conns /\ d \in Conns /\ c # d
        /\ DOMAIN conn = Conns
    BY <1>1, ThereIsThere DEF ThereIn, Inv, Good, Peers, Shape
  <2>2. Fields(conn[c]) /\ IsProfile(p) /\ Fields(conn[d]) /\ IsProfile(q)
    BY <1>1, <2>1 DEF Inv, Good, Shape, Row, Fields
  <2>3. /\ conn'[c] = IF Infers(p, q) THEN Saved(conn[c], cp) ELSE conn[c]
        /\ conn'[d] = IF Infers(q, cp) THEN Saved(conn[d], w) ELSE conn[d]
    BY <1>1, <2>1 DEF Peered, NearPeered, FarPeered, Inferred
  <2>4. Infers(p, q) => /\ IsProfile(cp) /\ cp.tunnel_ip = p.tunnel_ip /\ cp.bgp.on
                        /\ cp.bgp.local_as = Or(p.bgp.local_as, IF q.bgp.on THEN q.bgp.peer_as ELSE Blank)
                        /\ cp.bgp.peer_as = Or(p.bgp.peer_as, IF q.bgp.on THEN q.bgp.local_as ELSE Blank)
                        /\ cp.bgp.local_ip = OwnAddress(p)
                        /\ cp.bgp.peer_ip = Or(OwnAddress(q), q.bgp.peer_ip)
    BY <2>2, InferredFacts
  <2>5. ~Infers(p, q) => cp = p
    OBVIOUS
  <2> HIDE DEF cp
  <2>6. /\ IsProfile(w)
        /\ w.bgp.local_as = Or(q.bgp.local_as, IF cp.bgp.on THEN cp.bgp.peer_as ELSE Blank)
        /\ w.bgp.peer_as = Or(q.bgp.peer_as, IF cp.bgp.on THEN cp.bgp.local_as ELSE Blank)
        /\ w.bgp.local_ip = OwnAddress(q)
        /\ w.bgp.peer_ip = Or(OwnAddress(cp), cp.bgp.peer_ip)
    BY <2>2, InferredFacts
  <2> HIDE DEF w
  <2>7. b = cp.bgp
    <3>1. CASE Infers(p, q)
      <4>1. Filled(cp, Saved(conn[c], cp).profile)
        BY <2>2, <2>4, <3>1, SavedFacts
      <4>2. QED
        BY <2>3, <3>1, <4>1 DEF Filled
    <3>2. CASE ~Infers(p, q)
      BY <2>3, <2>5, <3>2
    <3>3. QED
      BY <3>1, <3>2
  <2>8. Infers(q, cp) => e = w.bgp
    <3>1. Filled(w, Saved(conn[d], w).profile)
      BY <2>2, <2>6, SavedFacts
    <3>2. QED
      BY <2>3, <3>1 DEF Filled
  <2>9. ~Infers(q, cp) => e = q.bgp
    BY <2>3
  <2> SUFFICES Mirrored(c, d, p, q, b, e)
    OBVIOUS
  <2> HIDE DEF b, e
  <2>10. CASE Infers(p, q)
    <3>1. Infers(q, cp)
      BY <2>4, <2>10 DEF Infers
    <3>2. OwnAddress(cp) = OwnAddress(p)
      BY <2>4, <2>10 DEF OwnAddress, Or
    <3>3. Consistent(p, q) => b.local_as = e.peer_as /\ b.peer_as = e.local_as
      BY <2>4, <2>6, <2>7, <2>8, <2>10, <3>1 DEF Consistent, Or
    <3>4. OwnAddress(p) # Blank /\ OwnAddress(q) # Blank =>
             b.local_ip = e.peer_ip /\ b.peer_ip = e.local_ip
      BY <2>4, <2>6, <2>7, <2>8, <2>10, <3>1, <3>2 DEF Or
    <3>5. QED
      BY <3>3, <3>4
  <2>11. CASE ~Infers(p, q)
    <3>1. OwnAddress(p) = Blank /\ p.bgp.local_as = Blank /\ ~q.bgp.on
      BY <2>11 DEF Infers
    <3> SUFFICES ASSUME Consistent(p, q)
                 PROVE  b.local_as = e.peer_as /\ b.peer_as = e.local_as
      BY <3>1
    <3>2. /\ q.bgp.local_as = Blank /\ q.bgp.peer_as = Blank
          /\ p.bgp.on \/ p.bgp.peer_as = Blank
      BY <2>11, <3>1 DEF Consistent
    <3>3. cp = p /\ b = p.bgp
      BY <2>5, <2>7, <2>11
    <3>4. CASE Infers(q, cp)
      <4>1. e.local_as = Or(Blank, IF p.bgp.on THEN p.bgp.peer_as ELSE Blank)
        BY <2>6, <2>8, <3>2, <3>3, <3>4
      <4>2. e.peer_as = Or(Blank, IF p.bgp.on THEN Blank ELSE Blank)
        BY <2>6, <2>8, <3>1, <3>2, <3>3, <3>4
      <4>3. QED
        BY <3>1, <3>2, <3>3, <4>1, <4>2 DEF Or
    <3>5. CASE ~Infers(q, cp)
      <4>1. ~p.bgp.on
        BY <3>3, <3>5 DEF Infers
      <4>2. QED
        BY <2>9, <3>1, <3>2, <3>3, <3>5, <4>1
    <3>6. QED
      BY <3>4, <3>5
  <2>12. QED
    BY <2>10, <2>11
<1>2. Inv /\ [Next]_vars =>
        [\A c \in There :
            conn[c].peer # None /\ conn' = Peered(c) /\ conn' # conn =>
                LET d == conn[c].peer
                    p == conn[c].profile
                    q == conn[d].profile
                    b == conn'[c].profile.bgp
                    e == conn'[d].profile.bgp
                IN  /\ Consistent(p, q) => b.local_as = e.peer_as /\ b.peer_as = e.local_as
                    /\ OwnAddress(p) # Blank /\ OwnAddress(q) # Blank =>
                          b.local_ip = e.peer_ip /\ b.peer_ip = e.local_ip]_vars
  BY <1>1
<1>3. QED
  BY <1>2, TunnelsInv, PTL DEF Spec, PeeringMirrors
=============================================================================
