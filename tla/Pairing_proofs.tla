---------------------------- MODULE Pairing_proofs ----------------------------
(***************************************************************************)
(* Proofs about Pairing, for any requests, names, sites and connections.   *)
(*                                                                         *)
(* The argument: what a request that nobody has overtaken is about to      *)
(* write is still what a page offers, so a step changes the tables by a    *)
(* plan made for them (Sound, Clean), or by one that was overtaken.        *)
(***************************************************************************)
EXTENDS Pairing, FiniteSetTheorems, FunctionTheorems, WellFoundedInduction, TLAPS

-----------------------------------------------------------------------------
(* The inductive invariant.                                                *)

Columns == {"site", "name", "peer"}
Row(row) == DOMAIN row = Columns /\ row.name \in Seq(Nat)

\* What any plan writes: columns of rows, and rows with names.
IsPlan(p) ==
    /\ DOMAIN p = DOMAIN NoChange
    /\ \A c \in DOMAIN p.set :
          /\ DOMAIN p.set[c] \subseteq Columns
          /\ "name" \in DOMAIN p.set[c] => p.set[c].name \in Seq(Nat)
    /\ p.add \in Seq(Seq(Nat))

TypeOK ==
    /\ sites \subseteq 1 .. MaxSites
    /\ Ids \subseteq 1 .. MaxConns
    /\ \A c \in Ids : Row(conns[c])
    /\ DOMAIN plan = Requests
    /\ \A r \in Requests : plan[r] = NoPlan \/ IsPlan(plan[r])
    /\ overtaken \in [Requests -> BOOLEAN]

SameKey(a, b) == a.site = b.site /\ a.name = b.name
KeysApart(rows) == \A c, d \in DOMAIN rows : SameKey(rows[c], rows[d]) => c = d

\* The pages offer a request that would write plan p.
Offered(p) == LET Is(q) == q = p IN SomeRequest(Is) \/ SomeMerge(Is) \/ SomeTwin(Is)

\* What nobody has overtaken is still on offer.
PlanInv == \A r \in Requests : plan[r] # NoPlan /\ ~overtaken[r] => Offered(plan[r])

Inv == TypeOK /\ KeysApart(conns) /\ PlanInv
-----------------------------------------------------------------------------
(* Ids and names.                                                          *)

\* A nonempty set of natural numbers has a least element.
LEMMA Least ==
    ASSUME NEW T, T \subseteq Nat, T # {}
    PROVE  \E m \in T : \A k \in T : m <= k
<1> DEFINE R == OpToRel(<, Nat)
<1>1. IsWellFoundedOn(R, Nat)
  BY NatLessThanWellFounded
<1>2. \A x, y \in Nat : x < y => <<x, y>> \in R
  BY DEF OpToRel
<1> HIDE DEF R
<1>3. PICK m \in T : \A y \in T : ~(<<y, m>> \in R)
  BY <1>1, WFMin
<1>4. \A k \in T : m \in Nat /\ k \in Nat /\ ~(k < m)
  BY <1>2, <1>3
<1>5. QED
  BY <1>4

\* The next id is beyond all ids in use.
LEMMA NextIdFacts ==
    ASSUME NEW n \in Nat, NEW ids, ids \subseteq 1 .. n
    PROVE  /\ NextId(ids) \in Nat \ {0}
           /\ \A i \in ids : i < NextId(ids)
<1>1. CASE ids = {}
  BY <1>1 DEF NextId
<1>2. CASE ids # {}
  <2> DEFINE above == {k \in Nat : \A j \in ids : j <= k}
  <2>1. n \in above
    OBVIOUS
  <2>2. PICK m \in above : \A k \in above : m <= k
    BY <2>1, Least
  <2>3. m \in ids
    <3> SUFFICES ASSUME m \notin ids PROVE FALSE
      OBVIOUS
    <3>1. m \in Nat /\ \A j \in ids : j < m
      BY <2>2
    <3>2. PICK j \in ids : TRUE
      BY <1>2
    <3>3. m - 1 \in Nat
      BY <3>1, <3>2
    <3>4. \A k \in ids : k <= m - 1
      BY <3>1
    <3>5. QED
      BY <2>2, <3>3, <3>4
  <2> DEFINE top == CHOOSE i \in ids : \A j \in ids : j <= i
  <2>4. top \in ids /\ \A j \in ids : j <= top
    BY <2>2, <2>3
  <2>5. NextId(ids) = 1 + top
    BY <1>2 DEF NextId
  <2> HIDE DEF top
  <2>6. QED
    BY <2>4, <2>5
<1>3. QED
  BY <1>1, <1>2

\* Among as many suffixes as there are names in use, and one more, one is free.
LEMMA UniqueNameFacts ==
    ASSUME NEW taken, IsFiniteSet(taken), NEW base \in Seq(Nat)
    PROVE  UniqueName(taken, base) \in Seq(Nat) /\ UniqueName(taken, base) \notin taken
<1>1. CASE base \notin taken
  BY <1>1 DEF UniqueName
<1>2. CASE base \in taken
  <2> DEFINE n == Cardinality(taken)
             free == {i \in 2 .. (n + 2) : Append(base, i) \notin taken}
             f == [i \in 2 .. (n + 2) |-> Append(base, i)]
  <2>1. n \in Nat
    BY FS_CardinalityType
  <2>2. free # {}
    <3> SUFFICES ASSUME free = {} PROVE FALSE
      OBVIOUS
    <3>1. f \in [2 .. (n + 2) -> taken]
      OBVIOUS
    <3> HIDE DEF f, n
    <3>2. IsFiniteSet(2 .. (n + 2)) /\ Cardinality(2 .. (n + 2)) = n + 1
      <4>1. 2 \in Int /\ n + 2 \in Int /\ ~(2 > n + 2) /\ (n + 2) - 2 + 1 = n + 1
        BY <2>1
      <4>2. QED
        BY <4>1, FS_Interval
    <3>3. PICK x \in 2 .. (n + 2), y \in 2 .. (n + 2) : x # y /\ f[x] = f[y]
      BY <2>1, <3>1, <3>2, FS_PigeonHole DEF n
    <3>4. Append(base, x) = Append(base, y)
      BY <3>3 DEF f
    <3>5. \A z : Append(base, z)[Len(base) + 1] = z
      OBVIOUS
    <3>6. QED
      BY <3>3, <3>4, <3>5
  <2>3. free \subseteq Nat
    BY <2>1
  <2>4. \E m \in free : \A k \in free : m <= k
    BY <2>2, <2>3, Least
  <2> DEFINE m == CHOOSE i \in free : \A j \in free : i <= j
  <2>5. m \in free
    BY <2>4
  <2>6. UniqueName(taken, base) = Append(base, m)
    BY <1>2 DEF UniqueName
  <2> HIDE DEF m
  <2>7. Append(base, m) \notin taken /\ m \in Nat
    BY <2>3, <2>5
  <2>8. QED
    BY <2>6, <2>7
<1>3. QED
  BY <1>1, <1>2

\* uq_conn_site_name is as good as looking at any two rows.
LEMMA UniqueApart ==
    ASSUME NEW rows, IsFiniteSet(DOMAIN rows)
    PROVE  Unique(rows) <=> KeysApart(rows)
<1> DEFINE D == DOMAIN rows
           K == {<<rows[c].site, rows[c].name>> : c \in D}
           f == [c \in D |-> <<rows[c].site, rows[c].name>>]
<1>1. f \in Surjection(D, K)
  <2>1. f \in [D -> K]
    OBVIOUS
  <2>2. \A k \in K : \E c \in D : f[c] = k
    OBVIOUS
  <2>3. QED
    BY <2>1, <2>2 DEF Surjection
<1>2. f \in Injection(D, K) <=> KeysApart(rows)
  <2>1. f \in [D -> K]
    OBVIOUS
  <2>2. \A c, d \in D : f[c] = f[d] <=> SameKey(rows[c], rows[d])
    BY DEF SameKey
  <2> HIDE DEF f
  <2>3. QED
    BY <2>1, <2>2 DEF Injection, IsInjective, KeysApart
<1> HIDE DEF f
<1>3. Cardinality(K) = Cardinality(D) <=> f \in Injection(D, K)
  BY <1>1, FS_Surjection
<1>4. QED
  BY <1>2, <1>3 DEF Unique

\* Only finitely many names are taken.
LEMMA TakenFacts ==
    ASSUME TypeOK, NEW s
    PROVE  IsFiniteSet(TakenOn(s)) /\ TakenOn(s) \subseteq Seq(Nat)
<1> DEFINE home == IF s = Null THEN NextId(sites) ELSE s
           on == OnSite(home)
           f == [c \in on |-> conns[c].name]
<1>1. on \subseteq Ids /\ TakenOn(s) = {conns[c].name : c \in on}
  BY DEF OnSite, TakenOn
<1>2. IsFiniteSet(on)
  <2>1. IsFiniteSet(1 .. MaxConns)
    BY PairingAssumption, FS_Interval
  <2>2. on \in SUBSET (1 .. MaxConns)
    BY <1>1 DEF TypeOK
  <2>3. QED
    BY <2>1, <2>2, FS_Subset
<1> HIDE DEF on
<1>3. f \in Surjection(on, TakenOn(s))
  <2>1. f \in [on -> TakenOn(s)] /\ \A k \in TakenOn(s) : \E c \in on : f[c] = k
    BY <1>1
  <2>2. QED
    BY <2>1 DEF Surjection
<1> HIDE DEF f
<1>4. IsFiniteSet(TakenOn(s))
  BY <1>2, <1>3, FS_Surjection
<1>5. QED
  BY <1>1, <1>4 DEF TypeOK, Row
-----------------------------------------------------------------------------
(* What a plan makes of the tables.                                        *)

\* Column k of row c as plan p would have it.
Col(p, c, k) ==
    IF c \in DOMAIN p.set /\ k \in DOMAIN p.set[c] THEN p.set[c][k] ELSE conns[c][k]

NewIds(p) == NextId(Ids) .. (NextId(Ids) + Len(p.add) - 1)
Home(p) == IF p.home = Null THEN NextId(sites) ELSE p.home

\* The ids of new connections are free.
LEMMA IdsFacts ==
    ASSUME TypeOK
    PROVE  /\ NextId(Ids) \in Nat \ {0} /\ \A c \in Ids : c \in Nat \ {0} /\ c < NextId(Ids)
           /\ NextId(sites) \in Nat \ {0} /\ \A s \in sites : s \in Nat \ {0} /\ s < NextId(sites)
<1>1. MaxConns \in Nat /\ MaxSites \in Nat
  BY PairingAssumption
<1>2. Ids \subseteq 1 .. MaxConns /\ sites \subseteq 1 .. MaxSites
  BY DEF TypeOK
<1>3. NextId(Ids) \in Nat \ {0} /\ \A c \in Ids : c < NextId(Ids)
  BY <1>1, <1>2, NextIdFacts
<1>4. NextId(sites) \in Nat \ {0} /\ \A s \in sites : s < NextId(sites)
  BY <1>1, <1>2, NextIdFacts
<1>5. QED
  BY <1>2, <1>3, <1>4

\* The rows there were keep their ids, and the new ones are added at the end.
LEMMA WrittenFacts ==
    ASSUME TypeOK, NEW p, IsPlan(p)
    PROVE  /\ DOMAIN Written(p) = Ids \cup NewIds(p)
           /\ Ids \cap NewIds(p) = {}
           /\ \A c \in NewIds(p) :
                 /\ Written(p)[c].site = Home(p) /\ Written(p)[c].peer = p.link
                 /\ c - NextId(Ids) + 1 \in 1 .. Len(p.add)
                 /\ Written(p)[c].name = p.add[c - NextId(Ids) + 1]
                 /\ Row(Written(p)[c])
           /\ \A c \in Ids \ {p.link} :
                 /\ \A k \in Columns : Written(p)[c][k] = Col(p, c, k)
                 /\ Row(Written(p)[c])
           /\ p.link \in Ids =>
                 /\ SameKey(Written(p)[p.link], conns[p.link])
                 /\ Written(p)[p.link].peer = NextId(Ids)
                 /\ Row(Written(p)[p.link])
<1> DEFINE m == NextId(Ids)
           n == Len(p.add)
           top == m - 1
           D == Ids \cup {top + i : i \in DOMAIN p.add}
           Rows(c) == CASE c > top -> [site |-> Home(p), name |-> p.add[c - top], peer |-> p.link]
                        [] c <= top /\ c = p.link -> [conns[c] EXCEPT !.peer = top + 1]
                        [] c <= top /\ c # p.link /\ c \in DOMAIN p.set -> Updated(conns[c], p.set[c])
                        [] OTHER -> conns[c]
<1>1. m \in Nat \ {0} /\ \A c \in Ids : c \in Nat /\ c < m
  BY IdsFacts
<1>2. n \in Nat /\ DOMAIN p.add = 1 .. n /\ \A i \in 1 .. n : p.add[i] \in Seq(Nat)
  BY DEF IsPlan
<1>3. Written(p) = [c \in D |-> Rows(c)]
  BY DEF Written, Home
<1> HIDE DEF m, n
<1>4. D = Ids \cup NewIds(p) /\ Ids \cap NewIds(p) = {}
  <2>1. NewIds(p) = m .. (m + n - 1)
    BY DEF NewIds, m, n
  <2>2. {top + i : i \in 1 .. n} = m .. (m + n - 1)
    <3>1. \A x \in m .. (m + n - 1) : x - top \in 1 .. n /\ x = top + (x - top)
      BY <1>1, <1>2
    <3>2. \A i \in 1 .. n : top + i \in m .. (m + n - 1)
      BY <1>1, <1>2
    <3>3. QED
      BY <3>1, <3>2
  <2>3. D = Ids \cup (m .. (m + n - 1))
    BY <1>2, <2>2
  <2>4. Ids \cap (m .. (m + n - 1)) = {}
    BY <1>1
  <2> HIDE DEF D
  <2>5. QED
    BY <2>1, <2>3, <2>4
<1>5. ASSUME NEW c \in NewIds(p)
      PROVE  /\ c - m + 1 \in 1 .. n
             /\ Rows(c) = [site |-> Home(p), name |-> p.add[c - m + 1], peer |-> p.link]
  <2>1. c \in m .. (m + n - 1)
    BY DEF NewIds, m, n
  <2>2. c > top /\ ~(c <= top) /\ c - top = c - m + 1 /\ c - m + 1 \in 1 .. n
    BY <1>1, <1>2, <2>1
  <2>3. QED
    BY <2>2
<1>6. ASSUME NEW c \in Ids
      PROVE  /\ c = p.link => Rows(c) = [conns[c] EXCEPT !.peer = m]
             /\ c # p.link /\ c \in DOMAIN p.set => Rows(c) = Updated(conns[c], p.set[c])
             /\ c # p.link /\ c \notin DOMAIN p.set => Rows(c) = conns[c]
  <2>1. ~(c > top) /\ c <= top /\ top + 1 = m
    BY <1>1
  <2>2. QED
    BY <2>1
<1> HIDE DEF Rows
<1>7. ASSUME NEW c \in Ids \ {p.link}
      PROVE  /\ DOMAIN Rows(c) = Columns
             /\ \A k \in Columns : Rows(c)[k] = Col(p, c, k)
  <2>1. DOMAIN conns[c] = Columns
    BY DEF TypeOK, Row
  <2>2. CASE c \in DOMAIN p.set
    <3>1. Rows(c) = [k \in Columns |->
                        IF k \in DOMAIN p.set[c] THEN p.set[c][k] ELSE conns[c][k]]
      BY <1>6, <2>1, <2>2 DEF Updated
    <3>2. QED
      BY <2>2, <3>1 DEF Col
  <2>3. CASE c \notin DOMAIN p.set
    BY <1>6, <2>1, <2>3 DEF Col
  <2>4. QED
    BY <2>2, <2>3
<1>8. ASSUME NEW c \in Ids \ {p.link}
      PROVE  Row(Rows(c))
  <2>1. Rows(c).name = Col(p, c, "name")
    BY <1>7 DEF Columns
  <2>2. Col(p, c, "name") \in Seq(Nat)
    BY DEF Col, IsPlan, TypeOK, Row
  <2>3. QED
    BY <1>7, <2>1, <2>2 DEF Row
<1>9. ASSUME p.link \in Ids
      PROVE  /\ SameKey(Rows(p.link), conns[p.link]) /\ Rows(p.link).peer = m
             /\ Row(Rows(p.link))
  <2>1. DOMAIN conns[p.link] = Columns /\ conns[p.link].name \in Seq(Nat)
    BY <1>9 DEF TypeOK, Row
  <2>2. Rows(p.link) = [conns[p.link] EXCEPT !.peer = m]
    BY <1>6, <1>9
  <2>3. QED
    BY <2>1, <2>2 DEF SameKey, Row, Columns
<1>10. ASSUME NEW c \in NewIds(p)
       PROVE  Row(Rows(c))
  BY <1>2, <1>5 DEF Row, Columns
<1>11. \A c \in D : Written(p)[c] = Rows(c)
  BY <1>3
<1>12. DOMAIN Written(p) = D
  BY <1>3
<1> HIDE DEF D
<1>13. QED
  BY <1>4, <1>5, <1>7, <1>8, <1>9, <1>10, <1>11, <1>12 DEF m, n

\* A plan that fits keeps types and names, whatever it was made for.
LEMMA ApplyKeeps ==
    ASSUME TypeOK, NEW p, IsPlan(p), Bounded(p), Fits(p), Apply(p)
    PROVE  /\ sites' \subseteq 1 .. MaxSites /\ Ids' \subseteq 1 .. MaxConns
           /\ \A c \in Ids' : Row(conns'[c])
           /\ KeysApart(conns')
<1> DEFINE rows == Written(p)
           m == NextId(Ids)
           n == Len(p.add)
<1>1. /\ DOMAIN conns' \subseteq DOMAIN rows
      /\ \A c \in DOMAIN conns' : conns'[c] = rows[c]
  BY DEF Apply
<1>2. /\ DOMAIN rows = Ids \cup NewIds(p) /\ m \in Nat \ {0}
      /\ n \in Nat /\ (n > 0 => p.add # <<>>)
  <2>1. p.add \in Seq(Seq(Nat))
    BY DEF IsPlan
  <2>2. DOMAIN rows = Ids \cup NewIds(p)
    BY WrittenFacts
  <2>3. m \in Nat \ {0}
    BY IdsFacts
  <2>4. n \in Nat /\ (n > 0 => p.add # <<>>)
    BY <2>1
  <2>5. QED
    BY <2>2, <2>3, <2>4
<1>3. Ids \subseteq 1 .. MaxConns /\ sites \subseteq 1 .. MaxSites /\ MaxConns \in Nat /\ MaxSites \in Nat
  BY PairingAssumption DEF TypeOK
<1>4. \A c \in DOMAIN rows : Row(rows[c])
  BY <1>2, WrittenFacts
<1>5. DOMAIN rows \subseteq 1 .. MaxConns
  <2>1. n > 0 => m + n <= MaxConns + 1
    BY <1>2 DEF Bounded
  <2>2. NewIds(p) = m .. (m + n - 1)
    BY DEF NewIds
  <2> HIDE DEF m, n
  <2>3. m .. (m + n - 1) \subseteq 1 .. MaxConns
    BY <1>2, <1>3, <2>1
  <2>4. QED
    BY <1>2, <1>3, <2>2, <2>3
<1>6. KeysApart(rows)
  <2>1. Unique(rows)
    BY DEF Fits
  <2> HIDE DEF rows
  <2>2. IsFiniteSet(DOMAIN rows)
    <3>1. IsFiniteSet(1 .. MaxConns)
      BY <1>3, FS_Interval
    <3>2. DOMAIN rows \in SUBSET (1 .. MaxConns)
      BY <1>5
    <3>3. QED
      BY <3>1, <3>2, FS_Subset
  <2>3. QED
    BY <2>1, <2>2, UniqueApart
<1>7. sites' \subseteq 1 .. MaxSites
  <2>1. p.add # <<>> /\ p.home = Null => NextId(sites) \in 1 .. MaxSites
    BY <1>3, IdsFacts DEF Bounded
  <2>2. QED
    BY <1>3, <2>1 DEF Apply
<1> HIDE DEF rows
<1>8. QED
  BY <1>1, <1>4, <1>5, <1>6, <1>7 DEF KeysApart, Ids

\* A plan made for the tables: every row it writes goes to a site and points at
\* a connection that will be there, or where it did before.
Sound(p) ==
    /\ IsPlan(p) /\ Present(p)
    /\ p.home \in sites \cup {Null}
    /\ p.add # <<>> => p.gone = {} /\ p.closed = {}
    /\ p.link # Null => p.add # <<>>
    /\ \A c \in Ids \ p.gone :
          /\ Col(p, c, "site") \in {conns[c].site} \cup sites
          /\ Col(p, c, "site") \notin p.closed
          /\ Col(p, c, "peer") \in {conns[c].peer, Null} \cup Ids
          /\ Col(p, c, "peer") \notin p.gone

\* Its sites and connections are there when it is applied.
LEMMA SoundApplied ==
    ASSUME TypeOK, NEW p, Sound(p), Apply(p)
    PROVE  /\ Ids' = (Ids \cup NewIds(p)) \ p.gone
           /\ \A c \in Ids' : conns'[c] = Written(p)[c]
           /\ sites \ p.closed \subseteq sites'
           /\ NewIds(p) # {} => Home(p) \in sites'
           /\ NewIds(p) # {} => p.add # <<>>
           /\ p.link # Null => NextId(Ids) \in NewIds(p)
<1>1. IsPlan(p) /\ p.add \in Seq(Seq(Nat)) /\ NextId(Ids) \in Nat
  BY IdsFacts DEF Sound, IsPlan
<1>2. NewIds(p) # {} => p.add # <<>>
  BY <1>1 DEF NewIds
<1>3. p.add # <<>> => NextId(Ids) \in NewIds(p)
  <2>1. p.add # <<>> => Len(p.add) >= 1 /\ Len(p.add) \in Nat
    BY <1>1
  <2>2. QED
    BY <1>1, <2>1 DEF NewIds
<1>4. Swept(p, Written(p)) \subseteq p.gone
  <2> SUFFICES ASSUME NEW c \in DOMAIN Written(p), Written(p)[c].site \in p.closed, c \notin p.gone
               PROVE  FALSE
    BY DEF Swept
  <2>1. NewIds(p) = {} /\ p.link = Null
    BY <1>2 DEF Sound
  <2>2. c \in Ids
    BY <1>1, <2>1, WrittenFacts
  <2>3. c \in Ids /\ c # p.link
    BY <2>1, <2>2, IdsFacts DEF Null
  <2>4. Written(p)[c].site = Col(p, c, "site")
    BY <1>1, <2>3, WrittenFacts DEF Columns
  <2>5. QED
    BY <2>3, <2>4 DEF Sound
<1>5. /\ DOMAIN conns' = DOMAIN Written(p) \ p.gone
      /\ \A c \in DOMAIN conns' : conns'[c] = Written(p)[c]
  BY <1>4 DEF Apply
<1>6. sites \ p.closed \subseteq sites'
  BY DEF Apply
<1>7. p.add # <<>> => Home(p) \in sites'
  BY DEF Apply, Home, Sound
<1>8. Ids' = (Ids \cup NewIds(p)) \ p.gone /\ \A c \in Ids' : conns'[c] = Written(p)[c]
  BY <1>1, <1>5, WrittenFacts DEF Ids
<1>9. QED
  BY <1>2, <1>3, <1>6, <1>7, <1>8 DEF Sound

\* So nothing more dangles.
LEMMA SoundKeeps ==
    ASSUME TypeOK, NEW p, Sound(p), Apply(p)
    PROVE  Dangling' \subseteq Dangling /\ Homeless' \subseteq Homeless
<1>1. /\ Ids' = (Ids \cup NewIds(p)) \ p.gone
      /\ \A c \in Ids' : conns'[c] = Written(p)[c]
      /\ sites \ p.closed \subseteq sites'
      /\ NewIds(p) # {} => Home(p) \in sites' /\ p.add # <<>>
      /\ p.link # Null => NextId(Ids) \in NewIds(p)
  BY SoundApplied
<1>2. IsPlan(p) /\ p.link \in Ids \cup {Null} /\ Null \notin Ids /\ Ids \cap NewIds(p) = {}
  BY WrittenFacts, IdsFacts DEF Sound, Present, Null
<1>3. \A c \in NewIds(p) : Written(p)[c].site = Home(p) /\ Written(p)[c].peer = p.link
  BY <1>2, WrittenFacts
<1>4. \A c \in Ids \ {p.link} : /\ Written(p)[c].site = Col(p, c, "site")
                                /\ Written(p)[c].peer = Col(p, c, "peer")
  BY <1>2, WrittenFacts DEF Columns
<1>5. p.link \in Ids => /\ Written(p)[p.link].site = conns[p.link].site
                        /\ Written(p)[p.link].peer = NextId(Ids)
  BY <1>2, WrittenFacts DEF SameKey
<1>6. NewIds(p) # {} => p.gone = {} /\ p.closed = {}
  BY <1>1 DEF Sound
<1>7. ASSUME NEW c \in Ids', conns'[c].peer \notin Ids' \cup {Null}
      PROVE  c \in Ids /\ conns[c].peer \notin Ids \cup {Null}
  <2>1. c \notin NewIds(p)
    BY <1>1, <1>2, <1>3, <1>6, <1>7
  <2>2. c \in Ids \ p.gone
    BY <1>1, <2>1
  <2>3. c # p.link
    BY <1>1, <1>2, <1>5, <1>6, <1>7, <2>2
  <2>4. /\ conns'[c].peer = Col(p, c, "peer")
        /\ Col(p, c, "peer") \in {conns[c].peer, Null} \cup Ids
        /\ Col(p, c, "peer") \notin p.gone
    BY <1>1, <1>4, <2>2, <2>3 DEF Sound
  <2>5. QED
    BY <1>1, <1>7, <2>2, <2>4
<1>8. ASSUME NEW c \in Ids', conns'[c].site \notin sites'
      PROVE  c \in Ids /\ conns[c].site \notin sites
  <2>1. c \notin NewIds(p)
    BY <1>1, <1>3, <1>8
  <2>2. c \in Ids \ p.gone
    BY <1>1, <2>1
  <2>3. CASE c = p.link
    BY <1>1, <1>2, <1>5, <1>6, <1>8, <2>2, <2>3
  <2>4. CASE c # p.link
    <3>1. /\ conns'[c].site = Col(p, c, "site")
          /\ Col(p, c, "site") \in {conns[c].site} \cup sites
          /\ Col(p, c, "site") \notin p.closed
      BY <1>1, <1>4, <2>2, <2>4 DEF Sound
    <3>2. QED
      BY <1>1, <1>8, <2>2, <3>1
  <2>5. QED
    BY <2>3, <2>4
<1>9. QED
  BY <1>7, <1>8 DEF Dangling, Homeless, Housed
-----------------------------------------------------------------------------
(* Plans that clash with no name.                                          *)

\* The names a plan writes differ from each other and from those there are.
NamesApart(p) ==
    /\ \A c, d \in Ids : Col(p, c, "site") = Col(p, d, "site")
                         /\ Col(p, c, "name") = Col(p, d, "name") => c = d
    /\ p.add # <<>> => \A c \in Ids : /\ Col(p, c, "site") = conns[c].site
                                     /\ Col(p, c, "name") = conns[c].name
    /\ \A i \in 1 .. Len(p.add) : p.add[i] \notin TakenOn(p.home)
    /\ \A i, j \in 1 .. Len(p.add) : p.add[i] = p.add[j] => i = j

LEMMA NamesApartFit ==
    ASSUME TypeOK, KeysApart(conns), NEW p, Sound(p), NamesApart(p)
    PROVE  Fits(p)
<1> DEFINE rows == Written(p)
<1>1. /\ IsPlan(p) /\ Present(p) /\ p.add \in Seq(Seq(Nat))
      /\ NextId(Ids) \in Nat /\ Ids \subseteq 1 .. MaxConns /\ MaxConns \in Nat
  BY IdsFacts, PairingAssumption DEF Sound, IsPlan, TypeOK
<1>2. DOMAIN rows = Ids \cup NewIds(p)
  BY <1>1, WrittenFacts
<1>3. IsFiniteSet(DOMAIN rows)
  <2> DEFINE n == Len(p.add)
             m == NextId(Ids)
  <2>1. n \in Nat /\ m \in Nat
    BY <1>1
  <2>2. NewIds(p) = m .. (m + n - 1)
    BY DEF NewIds
  <2> HIDE DEF n, m, rows
  <2>3. IsFiniteSet(NewIds(p))
    <3>1. m \in Int /\ m + n - 1 \in Int
      BY <2>1
    <3>2. QED
      BY <2>2, <3>1, FS_Interval
  <2>4. IsFiniteSet(Ids)
    <3>1. IsFiniteSet(1 .. MaxConns)
      BY <1>1, FS_Interval
    <3>2. Ids \in SUBSET (1 .. MaxConns)
      BY <1>1
    <3>3. QED
      BY <3>1, <3>2, FS_Subset
  <2>5. IsFiniteSet(Ids \cup NewIds(p))
    BY <2>3, <2>4, FS_Union
  <2>6. QED
    BY <1>2, <2>5
<1>4. ASSUME NEW c \in Ids
      PROVE  /\ rows[c].site = Col(p, c, "site") \/ (p.add # <<>> /\ rows[c].site = conns[c].site)
             /\ rows[c].name = Col(p, c, "name") \/ (p.add # <<>> /\ rows[c].name = conns[c].name)
  <2>1. CASE c = p.link
    BY <1>1, <2>1, WrittenFacts, IdsFacts DEF SameKey, Sound, Null
  <2>2. CASE c # p.link
    BY <1>1, <2>2, WrittenFacts DEF Columns
  <2>3. QED
    BY <2>1, <2>2
<1>5. ASSUME NEW c \in NewIds(p)
      PROVE  /\ p.add # <<>> /\ rows[c].site = Home(p)
             /\ c - NextId(Ids) + 1 \in 1 .. Len(p.add)
             /\ rows[c].name = p.add[c - NextId(Ids) + 1]
             /\ c \in Int
  <2>1. NewIds(p) # {} => p.add # <<>>
    BY <1>1 DEF NewIds
  <2>2. NewIds(p) \subseteq Int
    BY DEF NewIds
  <2>3. QED
    BY <1>1, <2>1, <2>2, WrittenFacts
<1>6. ASSUME NEW c \in NewIds(p), NEW d \in Ids, SameKey(rows[c], rows[d])
      PROVE  FALSE
  <2>1. rows[d].site = conns[d].site /\ rows[d].name = conns[d].name
    BY <1>4, <1>5 DEF NamesApart
  <2>2. conns[d].name \in TakenOn(p.home)
    BY <1>5, <1>6, <2>1 DEF SameKey, TakenOn, OnSite, Home
  <2>3. QED
    BY <1>5, <1>6, <2>1, <2>2 DEF SameKey, NamesApart
<1>7. ASSUME NEW c \in NewIds(p), NEW d \in NewIds(p), SameKey(rows[c], rows[d])
      PROVE  c = d
  <2>1. c - NextId(Ids) + 1 = d - NextId(Ids) + 1
    BY <1>5, <1>7 DEF SameKey, NamesApart
  <2>2. QED
    BY <1>1, <1>5, <2>1
<1>8. ASSUME NEW c \in Ids, NEW d \in Ids, SameKey(rows[c], rows[d])
      PROVE  c = d
  BY <1>4, <1>8 DEF SameKey, NamesApart
<1>9. KeysApart(rows)
  BY <1>2, <1>6, <1>7, <1>8 DEF KeysApart, SameKey
<1>10. Unique(rows)
  BY <1>3, <1>9, UniqueApart
<1>11. QED
  BY <1>1, <1>10 DEF Fits

\* The names a plan adds are new to the site and differ.
AddsApart(p) ==
    /\ \A i \in 1 .. Len(p.add) : p.add[i] \notin TakenOn(p.home)
    /\ \A i, j \in 1 .. Len(p.add) : p.add[i] = p.add[j] => i = j

\* A plan that updates no columns but peers, and adds connections only where
\* nothing is deleted.
Repoints(p) ==
    /\ DOMAIN p = DOMAIN NoChange
    /\ \A c \in DOMAIN p.set : DOMAIN p.set[c] = {"peer"}
    /\ DOMAIN p.set \cup p.saved \subseteq Ids
    /\ p.home \in sites \cup {Null}
    /\ p.add \in Seq(Seq(Nat))
    /\ p.add # <<>> => p.gone = {} /\ p.closed = {}
    /\ p.link # Null => p.link \in Ids /\ p.add # <<>>
    /\ \A c \in Ids \ p.gone :
          /\ conns[c].site \notin p.closed
          /\ Col(p, c, "peer") \in {conns[c].peer, Null} \cup Ids
          /\ Col(p, c, "peer") \notin p.gone

PeersOnly(p) == Repoints(p) /\ AddsApart(p)

LEMMA RepointsSound ==
    ASSUME TypeOK, NEW p, Repoints(p)
    PROVE  Sound(p)
<1>1. \A c \in Ids : Col(p, c, "site") = conns[c].site /\ Col(p, c, "name") = conns[c].name
  BY DEF Repoints, Col
<1>2. IsPlan(p)
  BY DEF Repoints, IsPlan, Columns
<1>3. Present(p)
  BY DEF Repoints, Present
<1>4. QED
  BY <1>1, <1>2, <1>3 DEF Sound, Repoints

LEMMA PeersOnlyFits ==
    ASSUME TypeOK, KeysApart(conns), NEW p, PeersOnly(p)
    PROVE  Sound(p) /\ Fits(p)
<1>1. \A c \in Ids : Col(p, c, "site") = conns[c].site /\ Col(p, c, "name") = conns[c].name
  BY DEF PeersOnly, Repoints, Col
<1>2. Sound(p)
  BY RepointsSound DEF PeersOnly
<1>3. NamesApart(p)
  BY <1>1 DEF NamesApart, PeersOnly, AddsApart, KeysApart, SameKey, Ids
<1>4. QED
  BY <1>2, <1>3, NamesApartFit

\* What a pair comes to: it stays, both are free, one gets another far end.
Clean(p) ==
    \A c, d \in Ids \ p.gone : Mutual(c, d) =>
        \/ p.link \in {c, d}
        \/ Col(p, c, "peer") = d /\ Col(p, d, "peer") = c
        \/ Col(p, c, "peer") = Null /\ Col(p, d, "peer") = Null
        \/ \E x \in {c, d}, e \in (Ids \ p.gone) \ {p.link} :
              Col(p, x, "peer") = e /\ Col(p, e, "peer") = x

LEMMA CleanKeeps ==
    ASSUME TypeOK, NEW p, Sound(p), Clean(p), Apply(p),
           NEW c \in Ids, NEW d \in Ids, Mutual(c, d), {c, d} \subseteq Ids'
    PROVE  Mutual(c, d)' \/ (Free(c) /\ Free(d))' \/ Coupled(c)' \/ Coupled(d)'
<1>1. /\ Ids' = (Ids \cup NewIds(p)) \ p.gone
      /\ \A x \in Ids' : conns'[x] = Written(p)[x]
      /\ p.link # Null => NextId(Ids) \in NewIds(p)
      /\ NewIds(p) # {} => p.add # <<>>
  BY SoundApplied
<1>2. IsPlan(p) /\ Null \notin Ids /\ NewIds(p) \cap Ids = {}
      /\ (p.add # <<>> => p.gone = {})
  BY WrittenFacts, IdsFacts DEF Sound, Null
<1>3. \A x \in Ids \ {p.link} : Written(p)[x].peer = Col(p, x, "peer")
  BY <1>2, WrittenFacts DEF Columns
<1>4. \A x \in NewIds(p) : Written(p)[x].peer = p.link
  BY <1>2, WrittenFacts
<1>5. p.link \in Ids => Written(p)[p.link].peer = NextId(Ids)
  BY <1>2, WrittenFacts
<1>6. c \in Ids \ p.gone /\ d \in Ids \ p.gone
  BY <1>1
<1>7. CASE p.link \in {c, d}
  <2> DEFINE n == NextId(Ids)
  <2>1. n \in Ids' /\ p.link \in Ids' /\ conns'[n].peer = p.link /\ conns'[p.link].peer = n
    BY <1>1, <1>2, <1>4, <1>5, <1>6, <1>7
  <2> HIDE DEF n
  <2>2. Coupled(p.link)'
    BY <2>1 DEF Coupled, Mutual
  <2>3. QED
    BY <1>7, <2>2
<1>8. CASE p.link \notin {c, d}
  <2>1. conns'[c].peer = Col(p, c, "peer") /\ conns'[d].peer = Col(p, d, "peer")
    BY <1>1, <1>3, <1>8
  <2>2. ASSUME NEW x \in {c, d}, NEW e \in (Ids \ p.gone) \ {p.link},
               Col(p, x, "peer") = e, Col(p, e, "peer") = x
        PROVE  Coupled(x)'
    <3>1. x \in Ids' /\ e \in Ids' /\ conns'[x].peer = e /\ conns'[e].peer = x
      BY <1>1, <1>3, <1>6, <1>8, <2>2
    <3>2. QED
      BY <3>1 DEF Coupled, Mutual
  <2>3. QED
    BY <1>6, <1>8, <2>1, <2>2 DEF Clean, Mutual, Free
<1>9. QED
  BY <1>7, <1>8
-----------------------------------------------------------------------------
(* The handlers: what each of them means to write is sound, parts pairs    *)
(* cleanly, and fits (merging excepted).                                   *)

Good(p) == Sound(p) /\ Clean(p) /\ Fits(p)

\* Handlers that only add connections.
Adding(p) ==
    /\ DOMAIN p = DOMAIN NoChange
    /\ p.set = <<>> /\ p.saved \subseteq Ids /\ p.link = Null
    /\ p.gone = {} /\ p.closed = {}
    /\ p.home \in sites \cup {Null} /\ p.add \in Seq(Seq(Nat))

LEMMA AddingSound ==
    ASSUME TypeOK, NEW p, Adding(p)
    PROVE  Repoints(p) /\ Clean(p)
<1>1. DOMAIN p.set = {}
  BY DEF Adding
<1>2. \A c : Col(p, c, "peer") = conns[c].peer
  BY <1>1 DEF Col
<1>3. Repoints(p)
  BY <1>1, <1>2 DEF Repoints, Adding
<1>4. Clean(p)
  BY <1>2 DEF Clean, Mutual
<1>5. QED
  BY <1>3, <1>4

LEMMA AddingGood ==
    ASSUME TypeOK, KeysApart(conns), NEW p, DOMAIN p = DOMAIN NoChange,
           p.set = <<>>, p.saved \subseteq Ids, p.link = Null, p.gone = {}, p.closed = {},
           p.home \in sites \cup {Null}, p.add \in Seq(Seq(Nat)),
           \A i \in 1 .. Len(p.add) : p.add[i] \notin TakenOn(p.home),
           \A i, j \in 1 .. Len(p.add) : p.add[i] = p.add[j] => i = j
    PROVE  Good(p)
<1>1. Adding(p) /\ AddsApart(p)
  BY DEF Adding, AddsApart
<1>2. QED
  BY <1>1, AddingSound, PeersOnlyFits DEF Good, PeersOnly

LEMMA GenerateSiteGood ==
    ASSUME TypeOK, KeysApart(conns), NEW n \in Names
    PROVE  Good(GenerateSite(n))
<1> DEFINE name == UniqueName(TakenOn(Null), n)
           p == GenerateSite(n)
<1>1. name \in Seq(Nat) /\ name \notin TakenOn(Null)
  BY TakenFacts, UniqueNameFacts, PairingAssumption
<1> HIDE DEF name
<1>2. /\ DOMAIN p = DOMAIN NoChange /\ p.set = <<>> /\ p.saved = {} /\ p.link = Null
      /\ p.gone = {} /\ p.closed = {} /\ p.home = Null /\ p.add = <<name>>
  BY DEF GenerateSite, NoChange, name
<1> HIDE DEF p
<1>3. p.add \in Seq(Seq(Nat)) /\ Len(p.add) = 1 /\ p.add[1] = name
  BY <1>1, <1>2
<1>4. /\ \A i \in 1 .. Len(p.add) : p.add[i] \notin TakenOn(p.home)
      /\ \A i, j \in 1 .. Len(p.add) : p.add[i] = p.add[j] => i = j
  BY <1>1, <1>2, <1>3
<1>5. Good(p)
  BY <1>2, <1>3, <1>4, AddingGood
<1>6. QED
  BY <1>5 DEF p

LEMMA AddConnectionGood ==
    ASSUME TypeOK, KeysApart(conns), NEW s \in sites, NEW n \in Names
    PROVE  Good(AddConnection(s, n))
<1> DEFINE name == UniqueName(TakenOn(s), n)
           p == AddConnection(s, n)
<1>1. name \in Seq(Nat) /\ name \notin TakenOn(s)
  BY TakenFacts, UniqueNameFacts, PairingAssumption
<1> HIDE DEF name
<1>2. /\ DOMAIN p = DOMAIN NoChange /\ p.set = <<>> /\ p.saved = {} /\ p.link = Null
      /\ p.gone = {} /\ p.closed = {} /\ p.home = s /\ p.add = <<name>>
  BY DEF AddConnection, NoChange, name
<1> HIDE DEF p
<1>3. p.add \in Seq(Seq(Nat)) /\ Len(p.add) = 1 /\ p.add[1] = name
  BY <1>1, <1>2
<1>4. /\ \A i \in 1 .. Len(p.add) : p.add[i] \notin TakenOn(p.home)
      /\ \A i, j \in 1 .. Len(p.add) : p.add[i] = p.add[j] => i = j
  BY <1>1, <1>2, <1>3
<1>5. Good(p)
  BY <1>2, <1>3, <1>4, AddingGood
<1>6. QED
  BY <1>5 DEF p

\* The second name is looked up among those in use and the first.
LEMMA ImportSiteGood ==
    ASSUME TypeOK, KeysApart(conns), NEW n \in Names, NEW m \in Names
    PROVE  Good(ImportSite(n, m))
<1> DEFINE taken == TakenOn(Null)
           first == UniqueName(taken, n)
           second == UniqueName(taken \cup {first}, m)
           p == ImportSite(n, m)
<1>1. IsFiniteSet(taken) /\ n \in Seq(Nat) /\ m \in Seq(Nat)
  BY TakenFacts, PairingAssumption
<1>2. first \in Seq(Nat) /\ first \notin taken
  BY <1>1, UniqueNameFacts
<1>3. second \in Seq(Nat) /\ second \notin taken \cup {first}
  <2> HIDE DEF taken, first
  <2>1. IsFiniteSet(taken \cup {first})
    BY <1>1, FS_AddElement
  <2>2. QED
    BY <1>1, <2>1, UniqueNameFacts
<1>4. UniqueNames(taken, n, m) = <<first, second>>
  BY DEF UniqueNames
<1> HIDE DEF first, second
<1>5. /\ DOMAIN p = DOMAIN NoChange /\ p.set = <<>> /\ p.saved = {} /\ p.link = Null
      /\ p.gone = {} /\ p.closed = {} /\ p.home = Null /\ p.add = <<first, second>>
  BY <1>4 DEF ImportSite, NoChange
<1> HIDE DEF p
<1>6. /\ p.add \in Seq(Seq(Nat)) /\ Len(p.add) = 2
      /\ p.add[1] = first /\ p.add[2] = second /\ first # second
  BY <1>2, <1>3, <1>5
<1>7. /\ \A i \in 1 .. Len(p.add) : p.add[i] \notin TakenOn(p.home)
      /\ \A i, j \in 1 .. Len(p.add) : p.add[i] = p.add[j] => i = j
  BY <1>2, <1>3, <1>5, <1>6
<1>8. Good(p)
  BY <1>5, <1>6, <1>7, AddingGood
<1>9. QED
  BY <1>8 DEF p

\* An update touches connections of its site and adds to it; what it adds is
\* named apart if it does not bring one new name twice.
LEMMA ImportUpdateAdds ==
    ASSUME TypeOK, NEW s \in sites, NEW names \in Imported, NEW p \in ImportUpdate(s, names)
    PROVE  Adding(p) /\ (~BringsTwice(s, names) => AddsApart(p))
<1> DEFINE new == NewOn(s, names)
           known == {c \in OnSite(s) : \E i \in DOMAIN names : conns[c].name = names[i]}
           n == Cardinality(new)
           Order(q) == \A k, l \in DOMAIN q : k < l => q[k] < q[l]
<1>1. PICK order \in [1 .. n -> new] :
         /\ Order(order)
         /\ p = [NoChange EXCEPT !.saved = known, !.add = AddedNames(s, names, order), !.home = s]
  BY Zenon DEF ImportUpdate
<1>2. PICK m \in 1 .. 2 : names \in [1 .. m -> Names]
  BY DEF Imported
<1>3. new \subseteq 1 .. m
  BY <1>2 DEF NewOn
<1>4. n \in Nat
  <2> HIDE DEF new
  <2>1. IsFiniteSet(1 .. m)
    BY <1>2, FS_Interval
  <2>2. IsFiniteSet(new)
    BY <1>3, <2>1, FS_Subset
  <2>3. QED
    BY <2>2, FS_CardinalityType
<1>5. \A k \in 1 .. n :
         /\ names[order[k]] \in Seq(Nat) /\ names[order[k]] \notin TakenOn(s)
         /\ UniqueName(TakenOn(s), names[order[k]]) = names[order[k]]
  <2> SUFFICES ASSUME NEW k \in 1 .. n
               PROVE  /\ names[order[k]] \in Seq(Nat) /\ names[order[k]] \notin TakenOn(s)
                      /\ UniqueName(TakenOn(s), names[order[k]]) = names[order[k]]
    OBVIOUS
  <2>1. order[k] \in new
    <3> HIDE DEF new, n
    <3>1. QED
      BY <1>1
  <2>2. names[order[k]] \in Names /\ names[order[k]] \notin TakenOn(s)
    BY <1>2, <2>1 DEF NewOn
  <2>3. QED
    BY <2>2, PairingAssumption DEF UniqueName
<1>6. known \subseteq Ids
  BY DEF OnSite
<1> HIDE DEF new, known, n
<1>7. /\ DOMAIN p = DOMAIN NoChange /\ p.set = <<>> /\ p.saved = known /\ p.link = Null
      /\ p.gone = {} /\ p.closed = {} /\ p.home = s
      /\ p.add = [k \in 1 .. n |-> UniqueName(TakenOn(s), names[order[k]])]
  BY <1>1 DEF NoChange, AddedNames
<1>8. p.add = [k \in 1 .. n |-> names[order[k]]]
  BY <1>5, <1>7
<1>9. p.add \in Seq(Seq(Nat)) /\ Len(p.add) = n
  BY <1>4, <1>5, <1>8
<1>10. Adding(p)
  BY <1>6, <1>7, <1>9 DEF Adding
<1>11. ASSUME ~BringsTwice(s, names), NEW k \in 1 .. n, NEW l \in 1 .. n,
              names[order[k]] = names[order[l]]
       PROVE  k = l
  <2>1. order[k] \in new /\ order[l] \in new
    BY <1>1
  <2>2. order[k] = order[l]
    BY <1>11, <2>1 DEF BringsTwice, new
  <2>3. order[k] \in Nat /\ ~(order[k] < order[k])
    <3>1. order[k] \in 1 .. m
      BY <1>3, <2>1
    <3>2. QED
      BY <3>1
  <2>4. \A a, b \in 1 .. n : a < b => order[a] < order[b]
    BY <1>1
  <2>5. ~(k < l) /\ ~(l < k)
    BY <2>2, <2>3, <2>4
  <2>6. QED
    BY <1>4, <2>5
<1>12. ~BringsTwice(s, names) => AddsApart(p)
  BY <1>5, <1>7, <1>8, <1>9, <1>11 DEF AddsApart
<1>13. QED
  BY <1>10, <1>12

LEMMA ImportUpdateGood ==
    ASSUME TypeOK, KeysApart(conns), NEW s \in sites, NEW names \in Imported,
           ~BringsTwice(s, names), NEW p \in ImportUpdate(s, names)
    PROVE  Good(p)
BY ImportUpdateAdds, AddingSound, PeersOnlyFits DEF Good, PeersOnly

\* An update that brings one new name twice would do no harm if it were written.
LEMMA TwinSound ==
    ASSUME TypeOK, NEW p, \E s \in sites, names \in Imported : p \in ImportUpdate(s, names)
    PROVE  Sound(p) /\ Clean(p)
BY ImportUpdateAdds, AddingSound, RepointsSound

\* Deletions: nobody who stays points at what goes.
LEMMA DeletingGood ==
    ASSUME TypeOK, KeysApart(conns), NEW cs \in SUBSET Ids, NEW p,
           DOMAIN p = DOMAIN NoChange, p.set = Forgetting(cs), p.saved = {}, p.add = <<>>,
           p.home = Null, p.link = Null, p.gone = cs,
           \A c \in Ids \ cs : conns[c].site \notin p.closed
    PROVE  Good(p)
<1>1. /\ DOMAIN p.set \subseteq Ids
      /\ \A c \in DOMAIN p.set : DOMAIN p.set[c] = {"peer"}
  BY DEF Forgetting, Forgotten
<1>2. \A c \in Ids \ cs :
         Col(p, c, "peer") = IF conns[c].peer \in cs THEN Null ELSE conns[c].peer
  BY DEF Col, Forgetting, Forgotten
<1>3. Null \notin Ids
  BY IdsFacts DEF Null
<1>4. p.add \in Seq(Seq(Nat)) /\ Len(p.add) = 0
  OBVIOUS
<1>5. PeersOnly(p)
  BY <1>1, <1>2, <1>3, <1>4 DEF PeersOnly, Repoints, AddsApart, Repoints, AddsApart
<1>6. Clean(p)
  BY <1>2 DEF Clean, Mutual
<1>7. QED
  BY <1>5, <1>6, PeersOnlyFits DEF Good

LEMMA DeleteSiteGood ==
    ASSUME TypeOK, KeysApart(conns), NEW s \in sites
    PROVE  Good(DeleteSite(s))
<1> DEFINE p == DeleteSite(s)
<1>1. /\ DOMAIN p = DOMAIN NoChange /\ p.set = Forgetting(OnSite(s)) /\ p.saved = {} /\ p.link = Null
      /\ p.gone = OnSite(s) /\ p.closed = {s} /\ p.home = Null /\ p.add = <<>>
  BY DEF DeleteSite, NoChange
<1> HIDE DEF p
<1>2. OnSite(s) \in SUBSET Ids /\ \A c \in Ids \ OnSite(s) : conns[c].site \notin p.closed
  BY <1>1 DEF OnSite
<1>3. Good(p)
  BY <1>1, <1>2, DeletingGood
<1>4. QED
  BY <1>3 DEF p

LEMMA DeleteConnectionGood ==
    ASSUME TypeOK, KeysApart(conns), NEW c \in Ids
    PROVE  Good(DeleteConnection(c))
<1> DEFINE p == DeleteConnection(c)
<1>1. /\ DOMAIN p = DOMAIN NoChange /\ p.set = Forgetting({c}) /\ p.saved = {} /\ p.link = Null
      /\ p.gone = {c} /\ p.closed = {} /\ p.home = Null /\ p.add = <<>>
  BY DEF DeleteConnection, NoChange
<1> HIDE DEF p
<1>2. Good(p)
  BY <1>1, DeletingGood
<1>3. QED
  BY <1>2 DEF p

LEMMA UnpairedFacts ==
    ASSUME NEW c \in Ids
    PROVE  /\ DOMAIN Unpaired(c) = {c} \cup {x \in Ids : conns[c].peer = x /\ conns[x].peer = c}
           /\ \A x \in DOMAIN Unpaired(c) : Unpaired(c)[x] = Null
BY DEF Unpaired

LEMMA UnpairGood ==
    ASSUME TypeOK, KeysApart(conns), NEW c \in Ids
    PROVE  Good(Unpair(c))
<1> DEFINE p == Unpair(c)
           u == Unpaired(c)
<1>1. /\ DOMAIN p = DOMAIN NoChange /\ p.set = Repointed(u) /\ p.saved = {} /\ p.link = Null
      /\ p.gone = {} /\ p.closed = {} /\ p.home = Null /\ p.add = <<>>
  BY DEF Unpair, NoChange
<1>2. /\ DOMAIN u = {c} \cup {x \in Ids : conns[c].peer = x /\ conns[x].peer = c}
      /\ \A x \in DOMAIN u : u[x] = Null
  BY UnpairedFacts
<1> HIDE DEF p, u
<1>3. /\ DOMAIN p.set \subseteq Ids
      /\ \A x \in DOMAIN p.set : DOMAIN p.set[x] = {"peer"}
      /\ \A x : Col(p, x, "peer") = IF x \in DOMAIN u THEN Null ELSE conns[x].peer
  BY <1>1, <1>2 DEF Repointed, Col
<1>4. p.add \in Seq(Seq(Nat)) /\ Len(p.add) = 0
  BY <1>1
<1>5. PeersOnly(p)
  BY <1>1, <1>3, <1>4 DEF PeersOnly, Repoints, AddsApart, Repoints, AddsApart
<1>6. Clean(p)
  BY <1>2, <1>3 DEF Clean, Mutual
<1>7. Good(p)
  BY <1>5, <1>6, PeersOnlyFits DEF Good
<1>8. QED
  BY <1>7 DEF p

LEMMA PairExistingGood ==
    ASSUME TypeOK, KeysApart(conns), NEW c \in Ids, NEW far \in Ids, c # far
    PROVE  Good(PairExisting(c, far))
<1> DEFINE others == DOMAIN Unpaired(c)
           p == PairExisting(c, far)
           peers == Coupling(c, far, others)
<1>1. /\ DOMAIN p = DOMAIN NoChange /\ p.set = Repointed(peers) /\ p.saved = {c, far} /\ p.link = Null
      /\ p.gone = {} /\ p.closed = {} /\ p.home = Null /\ p.add = <<>>
  BY DEF PairExisting, NoChange
<1>2. others = {c} \cup {x \in Ids : conns[c].peer = x /\ conns[x].peer = c}
  BY UnpairedFacts
<1> HIDE DEF p, others
<1>3. /\ DOMAIN peers = {c, far} \cup others /\ peers[c] = far /\ peers[far] = c
      /\ \A x \in others \ {c, far} : peers[x] = Null
  BY DEF Coupling
<1> HIDE DEF peers
<1>4. /\ DOMAIN p.set \subseteq Ids
      /\ \A x \in DOMAIN p.set : DOMAIN p.set[x] = {"peer"}
      /\ \A x : Col(p, x, "peer") = IF x \in DOMAIN peers THEN peers[x] ELSE conns[x].peer
  BY <1>1, <1>2, <1>3 DEF Repointed, Col
<1>5. p.add \in Seq(Seq(Nat)) /\ Len(p.add) = 0
  BY <1>1
<1>6. PeersOnly(p)
  BY <1>1, <1>2, <1>3, <1>4, <1>5 DEF PeersOnly, Repoints, AddsApart, Repoints, AddsApart
<1>7. Clean(p)
  <2> SUFFICES ASSUME NEW x \in Ids, NEW y \in Ids, Mutual(x, y)
               PROVE  \/ Col(p, x, "peer") = y /\ Col(p, y, "peer") = x
                      \/ \E z \in {x, y}, e \in (Ids \ p.gone) \ {p.link} :
                            Col(p, z, "peer") = e /\ Col(p, e, "peer") = z
    BY DEF Clean
  <2>1. c \notin {p.link} /\ far \notin {p.link} /\ p.gone = {}
    BY <1>1, IdsFacts DEF Null
  <2>2. Col(p, c, "peer") = far /\ Col(p, far, "peer") = c
    BY <1>3, <1>4
  <2>3. CASE x \in {c, far} \/ y \in {c, far}
    BY <2>1, <2>2, <2>3
  <2>4. CASE x \notin {c, far} /\ y \notin {c, far}
    <3>1. x \notin others /\ y \notin others
      BY <1>2, <2>4 DEF Mutual
    <3>2. QED
      BY <1>3, <1>4, <2>4, <3>1 DEF Mutual
  <2>5. QED
    BY <2>3, <2>4
<1>8. Good(p)
  BY <1>6, <1>7, PeersOnlyFits DEF Good
<1>9. QED
  BY <1>8 DEF p

LEMMA PairConfirmGood ==
    ASSUME TypeOK, KeysApart(conns), NEW c \in Ids, NEW d \in Ids, c # d,
           conns[c].peer = Null, conns[d].peer = Null
    PROVE  Good(PairConfirm(c, d))
<1> DEFINE p == PairConfirm(c, d)
           peers == Coupling(c, d, {})
<1>1. /\ DOMAIN p = DOMAIN NoChange /\ p.set = Repointed(peers) /\ p.saved = {c, d} /\ p.link = Null
      /\ p.gone = {} /\ p.closed = {} /\ p.home = Null /\ p.add = <<>>
  BY DEF PairConfirm, NoChange
<1> HIDE DEF p
<1>2. DOMAIN peers = {c, d} /\ peers[c] = d /\ peers[d] = c
  BY DEF Coupling
<1> HIDE DEF peers
<1>3. /\ DOMAIN p.set \subseteq Ids
      /\ \A x \in DOMAIN p.set : DOMAIN p.set[x] = {"peer"}
      /\ \A x : Col(p, x, "peer") = IF x \in DOMAIN peers THEN peers[x] ELSE conns[x].peer
  BY <1>1, <1>2 DEF Repointed, Col
<1>4. p.add \in Seq(Seq(Nat)) /\ Len(p.add) = 0
  BY <1>1
<1>5. PeersOnly(p)
  BY <1>1, <1>2, <1>3, <1>4 DEF PeersOnly, Repoints, AddsApart, Repoints, AddsApart
<1>6. Clean(p)
  BY <1>2, <1>3, IdsFacts DEF Clean, Mutual, Null
<1>7. Good(p)
  BY <1>5, <1>6, PeersOnlyFits DEF Good
<1>8. QED
  BY <1>7 DEF p

LEMMA BuildFarEndGood ==
    ASSUME TypeOK, KeysApart(conns), NEW c \in Ids, NEW s \in sites \cup {Null}, NEW n \in Names
    PROVE  Good(BuildFarEnd(c, s, n))
<1> DEFINE p == BuildFarEnd(c, s, n)
           name == UniqueName(TakenOn(s), n)
           u == DOMAIN Unpaired(c)
           peers == [d \in u \ {c} |-> Null]
<1>1. u = {c} \cup {x \in Ids : conns[c].peer = x /\ conns[x].peer = c}
  BY UnpairedFacts
<1>2. name \in Seq(Nat) /\ name \notin TakenOn(s)
  BY TakenFacts, UniqueNameFacts, PairingAssumption
<1>3. /\ DOMAIN p = DOMAIN NoChange /\ p.set = Repointed(peers) /\ p.saved = {c} /\ p.link = c
      /\ p.gone = {} /\ p.closed = {} /\ p.home = s /\ p.add = <<name>>
  BY DEF BuildFarEnd, NoChange
<1> HIDE DEF p, u, name
<1>4. DOMAIN peers = u \ {c} /\ \A x \in u \ {c} : peers[x] = Null
  OBVIOUS
<1> HIDE DEF peers
<1>5. /\ DOMAIN p.set \subseteq Ids
      /\ \A x \in DOMAIN p.set : DOMAIN p.set[x] = {"peer"}
      /\ \A x : Col(p, x, "peer") = IF x \in u \ {c} THEN Null ELSE conns[x].peer
  BY <1>1, <1>3, <1>4 DEF Repointed, Col
<1>6. p.add \in Seq(Seq(Nat)) /\ Len(p.add) = 1 /\ p.add[1] = name
  BY <1>2, <1>3
<1>7. /\ \A i \in 1 .. Len(p.add) : p.add[i] \notin TakenOn(p.home)
      /\ \A i, j \in 1 .. Len(p.add) : p.add[i] = p.add[j] => i = j
      /\ p.add # <<>>
  BY <1>2, <1>3, <1>6
<1>8. PeersOnly(p)
  BY <1>3, <1>5, <1>6, <1>7 DEF PeersOnly, Repoints, AddsApart, Repoints, AddsApart
<1>9. Clean(p)
  BY <1>1, <1>3, <1>5 DEF Clean, Mutual
<1>10. Good(p)
  BY <1>8, <1>9, PeersOnlyFits DEF Good
<1>11. QED
  BY <1>10 DEF p

LEMMA RenameGood ==
    ASSUME TypeOK, KeysApart(conns), NEW c \in Housed, NEW n \in Names,
           n \notin TakenOn(conns[c].site)
    PROVE  Good(RenameConnection(c, n))
<1> DEFINE p == RenameConnection(c, n)
<1>1. /\ DOMAIN p = DOMAIN NoChange /\ p.set = [x \in {c} |-> [name |-> n]] /\ p.saved = {c}
      /\ p.link = Null /\ p.gone = {} /\ p.closed = {} /\ p.home = Null /\ p.add = <<>>
  BY DEF RenameConnection, NoChange
<1> HIDE DEF p
<1>2. DOMAIN p.set = {c} /\ DOMAIN p.set[c] = {"name"} /\ p.set[c].name = n /\ c \in Ids
  BY <1>1 DEF Housed
<1>3. /\ \A x : Col(p, x, "site") = conns[x].site /\ Col(p, x, "peer") = conns[x].peer
      /\ \A x : Col(p, x, "name") = IF x = c THEN n ELSE conns[x].name
  BY <1>2 DEF Col
<1>4. p.add \in Seq(Seq(Nat)) /\ Len(p.add) = 0
  BY <1>1
<1>5. IsPlan(p)
  BY <1>1, <1>2, <1>4, PairingAssumption DEF IsPlan, Columns
<1>6. Present(p)
  BY <1>1, <1>2 DEF Present
<1>7. Sound(p)
  BY <1>1, <1>3, <1>5, <1>6 DEF Sound
<1>8. \A x \in Ids : conns[x].site = conns[c].site => conns[x].name # n
  BY IdsFacts DEF TakenOn, OnSite, Housed, Null
<1>9. NamesApart(p)
  BY <1>1, <1>2, <1>3, <1>4, <1>8 DEF NamesApart, KeysApart, SameKey, Ids
<1>10. Clean(p)
  BY <1>3 DEF Clean, Mutual
<1>11. Good(p)
  BY <1>7, <1>9, <1>10, NamesApartFit DEF Good
<1>12. QED
  BY <1>11 DEF p

\* A merge, which may clash with names, takes every connection along.
LEMMA MergeSound ==
    ASSUME TypeOK, NEW t \in sites, NEW s \in sites, t # s
    PROVE  Sound(MergeSites(t, s)) /\ Clean(MergeSites(t, s))
<1> DEFINE p == MergeSites(t, s)
           name(c) == UniqueName(TakenOn(t), conns[c].name)
           columns(c) == IF name(c) = conns[c].name THEN [site |-> t] ELSE [site |-> t, name |-> name(c)]
<1>1. /\ DOMAIN p = DOMAIN NoChange /\ p.set = [c \in OnSite(s) |-> columns(c)] /\ p.saved = {}
      /\ p.link = Null /\ p.gone = {} /\ p.closed = {s} /\ p.home = Null /\ p.add = <<>>
  BY DEF MergeSites, NoChange
<1>2. \A c \in Ids : name(c) \in Seq(Nat)
  BY TakenFacts, UniqueNameFacts DEF TypeOK, Row
<1> HIDE DEF p, name
<1>3. ASSUME NEW c
      PROVE  /\ DOMAIN columns(c) \subseteq {"site", "name"} /\ "site" \in DOMAIN columns(c)
             /\ columns(c).site = t
             /\ "name" \in DOMAIN columns(c) => columns(c).name = name(c)
  BY DEF columns
<1> HIDE DEF columns
<1>4. DOMAIN p.set = OnSite(s) /\ OnSite(s) \subseteq Ids /\ \A c \in OnSite(s) : p.set[c] = columns(c)
  BY <1>1 DEF OnSite
<1>5. IsPlan(p)
  <2>1. ASSUME NEW c \in DOMAIN p.set
        PROVE  /\ DOMAIN p.set[c] \subseteq Columns
               /\ "name" \in DOMAIN p.set[c] => p.set[c].name \in Seq(Nat)
    BY <1>2, <1>3, <1>4 DEF Columns
  <2>2. p.add \in Seq(Seq(Nat))
    BY <1>1
  <2>3. QED
    BY <1>1, <2>1, <2>2 DEF IsPlan
<1>6. ASSUME NEW c \in Ids
      PROVE  /\ Col(p, c, "site") = IF c \in OnSite(s) THEN t ELSE conns[c].site
             /\ Col(p, c, "peer") = conns[c].peer
  BY <1>3, <1>4 DEF Col
<1>7. Present(p)
  BY <1>1, <1>4 DEF Present
<1>8. Sound(p)
  BY <1>1, <1>5, <1>6, <1>7 DEF Sound, OnSite
<1>9. Clean(p)
  BY <1>6 DEF Clean, Mutual
<1>10. QED
  BY <1>8, <1>9 DEF p
-----------------------------------------------------------------------------
(* Every step.                                                             *)

\* What the pages offer.
LEMMA OfferedGood ==
    ASSUME TypeOK, KeysApart(conns), NEW p, LET Is(q) == q = p IN SomeRequest(Is)
    PROVE  Good(p)
<1>1. \/ \E n \in Names : GenerateSite(n) = p
      \/ \E n, m \in Names : ImportSite(n, m) = p
      \/ \E s \in sites : DeleteSite(s) = p
      \/ \E s \in sites, n \in Names : AddConnection(s, n) = p
      \/ \E s \in sites, names \in Imported :
            ~BringsTwice(s, names) /\ p \in ImportUpdate(s, names)
      \/ \E c \in Housed : DeleteConnection(c) = p
      \/ \E c \in Housed, n \in Names : n \notin TakenOn(conns[c].site) /\ RenameConnection(c, n) = p
      \/ \E c \in Housed, s \in sites \cup {Null}, n \in Names : BuildFarEnd(c, s, n) = p
      \/ \E c, d \in Housed : c # d /\ PairExisting(c, d) = p
      \/ \E c, d \in Housed : /\ conns[c].site # conns[d].site
                              /\ conns[c].peer = Null /\ conns[d].peer = Null
                              /\ PairConfirm(c, d) = p
      \/ \E c \in Ids : Unpair(c) = p
  BY Zenon DEF SomeRequest
<1>2. Housed \subseteq Ids
  BY DEF Housed
<1>3. CASE \E n \in Names : GenerateSite(n) = p
  BY <1>3, GenerateSiteGood
<1>4. CASE \E n, m \in Names : ImportSite(n, m) = p
  BY <1>4, ImportSiteGood
<1>5. CASE \E s \in sites : DeleteSite(s) = p
  BY <1>5, DeleteSiteGood
<1>6. CASE \E s \in sites, n \in Names : AddConnection(s, n) = p
  BY <1>6, AddConnectionGood
<1>7. CASE \E s \in sites, names \in Imported :
               ~BringsTwice(s, names) /\ p \in ImportUpdate(s, names)
  BY <1>7, ImportUpdateGood
<1>8. CASE \E c \in Housed : DeleteConnection(c) = p
  BY <1>2, <1>8, DeleteConnectionGood
<1>9. CASE \E c \in Housed, n \in Names : n \notin TakenOn(conns[c].site) /\ RenameConnection(c, n) = p
  BY <1>9, RenameGood
<1>10. CASE \E c \in Housed, s \in sites \cup {Null}, n \in Names : BuildFarEnd(c, s, n) = p
  BY <1>2, <1>10, BuildFarEndGood
<1>11. CASE \E c, d \in Housed : c # d /\ PairExisting(c, d) = p
  BY <1>2, <1>11, PairExistingGood
<1>12. CASE \E c, d \in Housed : /\ conns[c].site # conns[d].site
                                 /\ conns[c].peer = Null /\ conns[d].peer = Null
                                 /\ PairConfirm(c, d) = p
  BY <1>2, <1>12, PairConfirmGood
<1>13. CASE \E c \in Ids : Unpair(c) = p
  BY <1>13, UnpairGood
<1>14. QED
  BY <1>1, <1>3, <1>4, <1>5, <1>6, <1>7, <1>8, <1>9, <1>10, <1>11, <1>12, <1>13

LEMMA OfferedSound ==
    ASSUME TypeOK, KeysApart(conns), NEW p, Offered(p)
    PROVE  Sound(p) /\ Clean(p)
<1>1. CASE LET Is(q) == q = p IN SomeRequest(Is)
  BY <1>1, OfferedGood DEF Good
<1>2. CASE \E t, s \in sites : t # s /\ MergeSites(t, s) = p
  BY <1>2, MergeSound
<1>3. CASE \E s \in sites, names \in Imported : p \in ImportUpdate(s, names)
  BY <1>3, TwinSound
<1>4. QED
  BY Zenon, <1>1, <1>2, <1>3 DEF Offered, SomeMerge, SomeTwin

\* What is offered depends on the tables only.
LEMMA OfferedStays ==
    ASSUME UNCHANGED <<sites, conns>>, NEW p, Offered(p)
    PROVE  Offered(p)'
<1>1. /\ Ids' = Ids /\ Housed' = Housed
      /\ \A s : OnSite(s)' = OnSite(s)
      /\ NextId(sites)' = NextId(sites)
  BY DEF Ids, Housed, OnSite, NextId
<1>2. \A s : TakenOn(s)' = TakenOn(s)
  BY <1>1 DEF TakenOn
<1>3. \A cs : Forgetting(cs)' = Forgetting(cs)
  BY <1>1 DEF Forgetting, Forgotten
<1>4. \A c : Unpaired(c)' = Unpaired(c)
  BY <1>1 DEF Unpaired
<1>5. \A n, m : GenerateSite(n)' = GenerateSite(n) /\ ImportSite(n, m)' = ImportSite(n, m)
  BY <1>2 DEF GenerateSite, ImportSite
<1>6. \A s, n : AddConnection(s, n)' = AddConnection(s, n)
  BY <1>2 DEF AddConnection
<1>7. \A s, names : /\ ImportUpdate(s, names)' = ImportUpdate(s, names)
                     /\ BringsTwice(s, names)' = BringsTwice(s, names)
  <2>1. \A s, names : NewOn(s, names)' = NewOn(s, names)
    BY <1>2 DEF NewOn
  <2>2. \A s, names, order : AddedNames(s, names, order)' = AddedNames(s, names, order)
    BY <1>2 DEF AddedNames
  <2>3. ASSUME NEW s, NEW names
        PROVE  ImportUpdate(s, names)' = ImportUpdate(s, names)
    <3> DEFINE Known == {c \in OnSite(s) : \E i \in DOMAIN names : conns[c].name = names[i]}
               Orders == {q \in [1..Cardinality(NewOn(s, names)) -> NewOn(s, names)] :
                             \A k, l \in DOMAIN q : k < l => q[k] < q[l]}
               Plan(o) == [NoChange EXCEPT !.saved = Known, !.add = AddedNames(s, names, o),
                                           !.home = s]
    <3>1. Known' = Known
      BY <1>1
    <3>2. Orders' = Orders
      BY <2>1
    <3>3. \A o : Plan(o)' = Plan(o)
      BY <2>2, <3>1 DEF NoChange
    <3>4. ImportUpdate(s, names) = {Plan(o) : o \in Orders}
      BY Zenon DEF ImportUpdate
    <3>5. ImportUpdate(s, names)' = {Plan(o)' : o \in Orders'}
      BY Zenon DEF ImportUpdate
    <3> HIDE DEF Known, Orders, Plan
    <3>6. QED
      BY <3>2, <3>3, <3>4, <3>5
  <2>4. \A s, names : BringsTwice(s, names)' = BringsTwice(s, names)
    BY <2>1 DEF BringsTwice
  <2>5. QED
    BY <2>3, <2>4
<1>8. \A t, s : MergeSites(t, s)' = MergeSites(t, s)
  BY <1>1, <1>2 DEF MergeSites
<1>9. \A s, c : DeleteSite(s)' = DeleteSite(s) /\ DeleteConnection(c)' = DeleteConnection(c)
  BY <1>1, <1>3 DEF DeleteSite, DeleteConnection
<1>10. \A c, d : PairExisting(c, d)' = PairExisting(c, d) /\ PairConfirm(c, d)' = PairConfirm(c, d)
  BY <1>4 DEF PairExisting, PairConfirm, Repointed
<1>11. \A c, s, n : BuildFarEnd(c, s, n)' = BuildFarEnd(c, s, n)
  BY <1>2, <1>4 DEF BuildFarEnd, Repointed
<1>12. \A c, n : Unpair(c)' = Unpair(c) /\ RenameConnection(c, n)' = RenameConnection(c, n)
  BY <1>4 DEF Unpair, RenameConnection, Repointed
<1>13. QED
  BY <1>1, <1>2, <1>5, <1>6, <1>7, <1>8, <1>9, <1>10, <1>11, <1>12 DEF Offered, SomeRequest, SomeMerge, SomeTwin

\* Who serves a request, or reads for one, does so for a plan on offer.
LEMMA HandleOffered ==
    ASSUME SomeRequest(Handle) \/ SomeMerge(Handle)
    PROVE  \E p : Offered(p) /\ Handle(p)
BY Zenon DEF Offered, SomeRequest, SomeMerge, SomeTwin

LEMMA ReadOffered ==
    ASSUME NEW r, LET ReadBy(p) == Read(r, p) IN
           SomeRequest(ReadBy) \/ SomeMerge(ReadBy) \/ SomeTwin(ReadBy)
    PROVE  \E p : Offered(p) /\ Read(r, p)
BY Zenon DEF Offered, SomeRequest, SomeMerge, SomeTwin

\* A step changes the tables by a plan that fits them; if it is not that of a
\* request which others have overtaken, it is one on offer.
Applies(p) == IsPlan(p) /\ Bounded(p) /\ Fits(p) /\ Apply(p) /\ (Lone => Offered(p))

LEMMA InitInv == Init => Inv
<1> SUFFICES ASSUME Init PROVE Inv
  OBVIOUS
<1>1. sites = {} /\ Ids = {} /\ DOMAIN conns = {}
  BY DEF Init, Ids
<1>2. TypeOK
  BY <1>1, PairingAssumption DEF Init, TypeOK
<1>3. KeysApart(conns) /\ PlanInv
  BY <1>1 DEF Init, KeysApart, PlanInv
<1>4. QED
  BY <1>2, <1>3 DEF Inv

\* What was on offer when it was read is so until somebody changes the tables.
LEMMA PlansKept ==
    ASSUME Inv, NEW q \in Requests, plan'[q] = plan[q], plan[q] # NoPlan,
           ~overtaken[q] /\ UNCHANGED <<sites, conns>>
    PROVE  Offered(plan[q])'
<1>1. PICK p : p = plan[q]
  OBVIOUS
<1>2. Offered(p)
  BY <1>1 DEF Inv, PlanInv
<1>3. Offered(p)'
  BY <1>2, OfferedStays
<1>4. QED
  BY <1>1, <1>3

\* A plan that is applied leaves the invariant as it was, if it is marked in
\* all others that the tables have changed.
LEMMA ApplyInv ==
    ASSUME Inv, NEW p, IsPlan(p), Bounded(p), Fits(p), Apply(p), NEW r, Overtakes(r),
           DOMAIN plan' = Requests,
           \A q \in Requests : plan'[q] = IF q = r THEN NoPlan ELSE plan[q]
    PROVE  Inv'
<1>1. /\ sites' \subseteq 1 .. MaxSites /\ Ids' \subseteq 1 .. MaxConns
      /\ \A c \in Ids' : Row(conns'[c])
      /\ KeysApart(conns')
  BY ApplyKeeps DEF Inv
<1>2. \A q \in Requests :
         overtaken'[q] = /\ q # r /\ plan[q] # NoPlan
                         /\ overtaken[q] \/ conns' # conns \/ sites' # sites
  BY DEF Overtakes
<1>3. TypeOK'
  <2>1. overtaken' \in [Requests -> BOOLEAN]
    BY DEF Overtakes
  <2>2. \A q \in Requests : plan'[q] = NoPlan \/ IsPlan(plan'[q])
    BY DEF Inv, TypeOK
  <2>3. \A q \in Requests : IsPlan(plan'[q]) => IsPlan(plan[q])'
    BY DEF IsPlan
  <2>4. QED
    BY <1>1, <2>1, <2>2, <2>3 DEF TypeOK
<1>4. PlanInv'
  <2> SUFFICES ASSUME NEW q \in Requests, plan'[q] # NoPlan, ~overtaken'[q]
               PROVE  Offered(plan[q])'
    BY DEF PlanInv
  <2>1. q # r /\ plan'[q] = plan[q]
    OBVIOUS
  <2>2. ~overtaken[q] /\ UNCHANGED <<sites, conns>>
    BY <1>2, <2>1
  <2>3. QED
    BY <2>1, <2>2, PlansKept
<1>5. QED
  BY <1>1, <1>3, <1>4 DEF Inv

LEMMA HandleStep ==
    ASSUME Inv, NEW p, Offered(p), Handle(p)
    PROVE  Inv' /\ Applies(p)
<1>1. IsPlan(p)
  BY OfferedSound DEF Inv, Sound
<1>2. /\ Bounded(p) /\ Fits(p) /\ Apply(p) /\ Overtakes(Null) /\ plan' = plan
  BY DEF Handle
<1>3. \A q \in Requests : plan'[q] = IF q = Null THEN NoPlan ELSE plan[q]
  BY <1>2, PairingAssumption
<1>4. DOMAIN plan' = Requests
  BY <1>2 DEF Inv, TypeOK
<1>5. Inv'
  BY <1>1, <1>2, <1>3, <1>4, ApplyInv
<1>6. QED
  BY <1>1, <1>2, <1>5 DEF Applies

LEMMA ReadStep ==
    ASSUME Inv, NEW r \in Requests, NEW p, Offered(p), Read(r, p)
    PROVE  Inv' /\ UNCHANGED <<sites, conns>>
<1>1. /\ IsPlan(p) /\ plan' = [plan EXCEPT ![r] = p]
      /\ UNCHANGED <<sites, conns, overtaken>>
  BY OfferedSound DEF Inv, Sound, Read
<1>2. TypeOK'
  <2>1. DOMAIN plan' = Requests /\ \A q \in Requests : plan'[q] = NoPlan \/ IsPlan(plan'[q])
    BY <1>1 DEF Inv, TypeOK
  <2>2. \A q \in Requests : IsPlan(plan'[q]) => IsPlan(plan[q])'
    BY DEF IsPlan
  <2>3. QED
    BY <1>1, <2>1, <2>2 DEF Inv, TypeOK, Ids
<1>3. PlanInv'
  <2> SUFFICES ASSUME NEW q \in Requests, plan'[q] # NoPlan, ~overtaken'[q]
               PROVE  Offered(plan[q])'
    BY DEF PlanInv
  <2>1. CASE q = r
    <3>1. plan'[q] = p
      BY <1>1, <2>1 DEF Inv, TypeOK
    <3>2. Offered(p)'
      BY <1>1, OfferedStays
    <3>3. QED
      BY <3>1, <3>2
  <2>2. CASE q # r
    <3>1. plan'[q] = plan[q] /\ ~overtaken[q]
      BY <1>1, <2>2 DEF Inv, TypeOK
    <3>2. QED
      BY <1>1, <3>1, PlansKept
  <2>3. QED
    BY <2>1, <2>2
<1>4. QED
  BY <1>1, <1>2, <1>3 DEF Inv, KeysApart

LEMMA WriteStep ==
    ASSUME Inv, NEW r \in Requests, Write(r)
    PROVE  Inv' /\ \E p : Applies(p)
<1>1. PICK p : p = plan[r]
  OBVIOUS
<1>2. /\ p # NoPlan /\ Bounded(p) /\ Fits(p) /\ Apply(p) /\ Overtakes(r)
      /\ plan' = [plan EXCEPT ![r] = NoPlan] /\ DOMAIN plan = Requests
  BY <1>1 DEF Write, Inv, TypeOK
<1>3. IsPlan(p)
  BY <1>1, <1>2 DEF Inv, TypeOK
<1>4. DOMAIN plan' = Requests /\ \A q \in Requests : plan'[q] = IF q = r THEN NoPlan ELSE plan[q]
  BY <1>2
<1>5. Inv'
  BY <1>2, <1>3, <1>4, ApplyInv
<1>6. Lone => Offered(p)
  BY <1>1, <1>2, <1>4 DEF Lone, Inv, PlanInv
<1>7. QED
  BY <1>2, <1>3, <1>5, <1>6 DEF Applies

LEMMA FailStep ==
    ASSUME Inv, NEW r \in Requests, Fail(r)
    PROVE  Inv' /\ UNCHANGED <<sites, conns>>
<1>1. /\ plan' = [plan EXCEPT ![r] = NoPlan] /\ overtaken' = [overtaken EXCEPT ![r] = FALSE]
      /\ UNCHANGED <<sites, conns>> /\ DOMAIN plan = Requests
  BY DEF Fail, Inv, TypeOK
<1>2. TypeOK'
  <2>1. DOMAIN plan' = Requests /\ \A q \in Requests : plan'[q] = NoPlan \/ IsPlan(plan'[q])
    BY <1>1 DEF Inv, TypeOK
  <2>2. \A q \in Requests : IsPlan(plan'[q]) => IsPlan(plan[q])'
    BY DEF IsPlan
  <2>3. overtaken' \in [Requests -> BOOLEAN]
    BY <1>1 DEF Inv, TypeOK
  <2>4. QED
    BY <1>1, <2>1, <2>2, <2>3 DEF Inv, TypeOK, Ids
<1>3. PlanInv'
  <2> SUFFICES ASSUME NEW q \in Requests, plan'[q] # NoPlan, ~overtaken'[q]
               PROVE  Offered(plan[q])'
    BY DEF PlanInv
  <2>1. q # r /\ plan'[q] = plan[q] /\ ~overtaken[q]
    BY <1>1 DEF Inv, TypeOK
  <2>2. QED
    BY <1>1, <2>1, PlansKept
<1>4. QED
  BY <1>1, <1>2, <1>3 DEF Inv, KeysApart

LEMMA NextStep ==
    ASSUME Inv, [Next]_vars
    PROVE  Inv' /\ (UNCHANGED <<sites, conns>> \/ \E p : Applies(p))
<1>1. CASE UNCHANGED vars
  <2>1. TypeOK'
    BY <1>1 DEF vars, Inv, TypeOK, Ids, IsPlan, NoChange
  <2>2. PlanInv'
    BY <1>1, PlansKept DEF vars, PlanInv
  <2>3. QED
    BY <1>1, <2>1, <2>2 DEF vars, Inv, KeysApart
<1>2. CASE SomeRequest(Handle) \/ SomeMerge(Handle)
  BY <1>2, HandleOffered, HandleStep
<1>3. CASE \E r \in Requests :
              LET ReadBy(p) == Read(r, p) IN
              SomeRequest(ReadBy) \/ SomeMerge(ReadBy) \/ SomeTwin(ReadBy)
  BY Zenon, <1>3, ReadOffered, ReadStep
<1>4. CASE \E r \in Requests : Write(r) \/ Fail(r)
  BY <1>4, WriteStep, FailStep
<1>5. QED
  BY Zenon, <1>1, <1>2, <1>3, <1>4 DEF Next

\* The tables are well formed, no two connections of a site share a name, and
\* what a request has read that nobody overtook is still what a page offers.
THEOREM PairingInv == Spec => []Inv
<1>1. Inv /\ [Next]_vars => Inv'
  BY NextStep
<1>2. QED
  BY <1>1, InitInv, PTL DEF Spec
-----------------------------------------------------------------------------
(* The properties.                                                         *)

\* A request that nobody overtakes leaves no connection pointing at a far end
\* or on a site that is not there.
THEOREM PairingNothingDangles == Spec => NothingDangles
<1>1. Inv /\ [Next]_vars /\ Lone => Dangling' \subseteq Dangling /\ Homeless' \subseteq Homeless
  <2> SUFFICES ASSUME Inv, [Next]_vars, Lone
               PROVE  Dangling' \subseteq Dangling /\ Homeless' \subseteq Homeless
    OBVIOUS
  <2>1. CASE UNCHANGED <<sites, conns>>
    BY <2>1 DEF Dangling, Homeless, Housed, Ids
  <2>2. CASE \E p : Applies(p)
    BY <2>2, OfferedSound, SoundKeeps DEF Applies, Inv
  <2>3. QED
    BY <2>1, <2>2, NextStep
<1>2. Inv /\ [Next]_vars =>
         [Lone => Dangling' \subseteq Dangling /\ Homeless' \subseteq Homeless]_<<sites, conns>>
  BY <1>1
<1>3. QED
  BY <1>2, PairingInv, PTL DEF Spec, NothingDangles

\* When a pair parts and both ends remain, both are free or at least one of them
\* is in a new pair, unless a request was overtaken.  The other may go on pointing
\* at its former far end.
THEOREM PairingPairsPartCleanly == Spec => PairsPartCleanly
<1> DEFINE Parts ==
      Lone => \A c, d \in Ids : Mutual(c, d) /\ {c, d} \subseteq Ids' =>
          Mutual(c, d)' \/ (Free(c) /\ Free(d))' \/ Coupled(c)' \/ Coupled(d)'
<1>1. Inv /\ [Next]_vars => [Parts]_<<sites, conns>>
  <2> SUFFICES ASSUME Inv, [Next]_vars, ~UNCHANGED <<sites, conns>>, Lone,
                      NEW c \in Ids, NEW d \in Ids, Mutual(c, d), {c, d} \subseteq Ids'
               PROVE  Mutual(c, d)' \/ (Free(c) /\ Free(d))' \/ Coupled(c)' \/ Coupled(d)'
    BY Zenon DEF Parts
  <2>1. PICK p : Applies(p)
    BY NextStep
  <2>2. TypeOK /\ Sound(p) /\ Clean(p) /\ Apply(p)
    BY <2>1, OfferedSound DEF Applies, Inv
  <2>3. QED
    BY <2>2, CleanKeeps
<1>2. QED
  BY <1>1, PairingInv, PTL DEF Spec, PairsPartCleanly

\* Whatever a page offers fits the tables it was rendered from, but a merge and an
\* import that updates a site and brings one new name twice.
THEOREM PairingRequestsFit == Spec => []RequestsFit
<1>1. Inv => RequestsFit
  <2> SUFFICES ASSUME Inv, LET Misfits(p) == ~Fits(p) IN SomeRequest(Misfits) PROVE FALSE
    BY Zenon DEF RequestsFit
  <2>1. PICK p : ~Fits(p) /\ LET Is(q) == q = p IN SomeRequest(Is)
    BY Zenon DEF SomeRequest
  <2>2. QED
    BY <2>1, OfferedGood DEF Good, Inv
<1>2. QED
  BY <1>1, PairingInv, PTL
=============================================================================
