----------------------------- MODULE Pki_proofs -----------------------------
(***************************************************************************)
(* Proofs about the certificate authorities, for any number of rows, keys, *)
(* certificates and names, and any certificates from outside.              *)
(***************************************************************************)
EXTENDS Pki, WellFoundedInduction, TLAPS

-----------------------------------------------------------------------------
(* Tables and ids.                                                         *)

\* A nonempty set of natural numbers has a least element.
LEMMA MinExists ==
    ASSUME NEW T, T \subseteq Nat, T # {}
    PROVE  \E m \in T : \A k \in T : m <= k
<1> DEFINE R == OpToRel(<, Nat)
<1>1. IsWellFoundedOn(R, Nat)
  BY NatLessThanWellFounded
<1>2. \A x, y \in Nat : x < y => <<x, y>> \in R
  BY DEF OpToRel
<1> HIDE DEF R
<1>3. PICK m \in T : \A y \in T : ~(<<y, m>> \in R)
  BY <1>1, WFMin
<1>4. \A k \in T : m \in Nat /\ k \in Nat /\ ~(k < m)
  BY <1>2, <1>3
<1>5. \A k \in T : m <= k
  BY <1>4
<1>6. QED
  BY <1>5

\* A nonempty set of natural numbers up to n has a greatest element.
LEMMA MaxExists ==
    ASSUME NEW n \in Nat, NEW S, S \subseteq 0..n, S # {}
    PROVE  \E m \in S : \A k \in S : k <= m
<1> DEFINE T == {n - k : k \in S}
<1>1. T # {}
  OBVIOUS
<1>2. T \subseteq Nat
  <2>1. \A k \in 0..n : n - k \in Nat
    OBVIOUS
  <2>2. QED
    BY <2>1
<1>3. PICK t \in T : \A k \in T : t <= k
  BY <1>1, <1>2, MinExists
<1>4. PICK m \in S : t = n - m
  OBVIOUS
<1>5. ASSUME NEW k \in S PROVE k <= m
  <2>1. t <= n - k
    BY <1>3
  <2>2. QED
    BY <2>1, <1>4
<1>6. QED
  BY <1>5

\* A new id is larger than all ids in use.
LEMMA NextIdFacts ==
    ASSUME NEW n \in Nat, NEW S, S \subseteq 1 .. n
    PROVE  NextId(S) \in Nat \ {0} /\ \A j \in S : j < NextId(S)
<1>1. CASE S = {}
  BY <1>1 DEF NextId
<1>2. CASE S # {}
  <2> DEFINE m == CHOOSE i \in S : \A j \in S : j <= i
  <2>1. m \in S /\ \A j \in S : j <= m
    <3>1. S \subseteq 0 .. n
      OBVIOUS
    <3>2. \E i \in S : \A j \in S : j <= i
      BY <1>2, <3>1, MaxExists
    <3>3. QED
      BY <3>2
  <2>2. NextId(S) = 1 + m
    BY <1>2 DEF NextId
  <2> HIDE DEF m
  <2>3. QED
    BY <2>1, <2>2
<1>3. QED
  BY <1>1, <1>2

\* Least picks the least member of a nonempty set of numbers.
LEMMA LeastFacts ==
    ASSUME NEW S, S # {}, S \subseteq Nat
    PROVE  Least(S) \in S /\ \A j \in S : Least(S) <= j
BY MinExists DEF Least

\* Deleting rows leaves the others as they are.
LEMMA WithoutFacts ==
    ASSUME NEW f, NEW S
    PROVE  /\ DOMAIN Without(f, S) = DOMAIN f \ S
           /\ Without(f, S) = [j \in DOMAIN f \ S |-> f[j]]
           /\ \A j \in DOMAIN f \ S : Without(f, S)[j] = f[j]
BY DEF Without

\* A new certificate is one nobody has seen.
LEMMA IssueFacts ==
    ASSUME NEW K, NEW x \in X509(K), FreshMarks(x) # {}
    PROVE  /\ Issue(x) \in X509(K) /\ Issue(x) \notin world
           /\ Issue(x).subject = x.subject /\ Issue(x).issuer = x.issuer
           /\ Issue(x).key = x.key /\ Issue(x).signer = x.signer
           /\ Issue(x).serial = x.serial /\ Issue(x).bc = x.bc
<1> DEFINE m == Least(FreshMarks(x))
<1>1. m \in FreshMarks(x)
  <2>1. FreshMarks(x) \subseteq Nat
    BY PkiAssumption DEF FreshMarks
  <2>2. QED
    BY <2>1, LeastFacts
<1>2. Issue(x) = [x EXCEPT !.n = m]
  BY DEF Issue
<1>3. m \in 0 .. MaxTwins /\ [x EXCEPT !.n = m] \notin world
  BY <1>1 DEF FreshMarks
<1> HIDE DEF m
<1>4. QED
  BY <1>2, <1>3 DEF X509
\* The certificates the code makes have the fields of one.
LEMMA UnsignedType ==
    ASSUME NEW K, NEW subject \in Subjects, NEW issuer \in Subjects, NEW key \in K,
           NEW signer \in K, NEW serial \in Nat, NEW bc \in Constraints
    PROVE  Unsigned(subject, issuer, key, signer, serial, bc) \in X509(K)
BY PkiAssumption DEF Unsigned, X509

-----------------------------------------------------------------------------
(* Types.                                                                  *)

\* Rows keep their type while certificates and keys are made.
LEMMA RowsGrow ==
    ASSUME TypeOK, world \subseteq world', lastKey' \in Nat, lastKey <= lastKey'
    PROVE  /\ Keys \subseteq Keys'
           /\ CaRows \subseteq CaRows' /\ CertRows \subseteq CertRows'
           /\ X509(Keys) \subseteq X509(Keys)'
<1>1. Keys \subseteq Keys'
  BY DEF Keys, TypeOK
<1>2. QED
  BY <1>1 DEF CaRows, CertRows, X509

\* The missing certificate is no certificate, and the missing key no key.
LEMMA NoCertFacts ==
    ASSUME NEW l \in 0 .. MaxKeys,
           NEW x \in X509(OutsideKeys \cup {DeviceKey} \cup (1 .. l))
    PROVE  x # NoCert
BY PkiAssumption DEF X509

\* An empty database is well typed.
LEMMA TypeInit == Init => TypeOK
BY PkiAssumption DEF Init, TypeOK, Ids, CertIds, X509, Keys

\* A row that is inserted, with a certificate and without one.
LEMMA CaRowFacts ==
    ASSUME NEW type, NEW parent, NEW s, NEW cert, NEW key, NEW counter
    PROVE  /\ cert # NoCert => CaRow(type, parent, s, cert, key, counter) =
                [type |-> type, parent |-> parent, subject |-> s, cert |-> cert, key |-> key,
                 counter |-> counter, locked |-> TRUE, pending |-> FALSE, csr |-> NoKey]
           /\ CaRow(type, parent, s, NoCert, key, counter) =
                [type |-> type, parent |-> parent, subject |-> s, cert |-> NoCert, key |-> key,
                 counter |-> counter, locked |-> TRUE, pending |-> TRUE, csr |-> key]
<1>1. ASSUME cert # NoCert
      PROVE  (cert = NoCert) = FALSE /\ (IF cert = NoCert THEN key ELSE NoKey) = NoKey
  BY <1>1
<1>2. (NoCert = NoCert) = TRUE /\ (IF NoCert = NoCert THEN key ELSE NoKey) = key
  OBVIOUS
<1>3. QED
  BY <1>1, <1>2 DEF CaRow

\* Inserting a row of the right type.
LEMMA InsertFacts ==
    ASSUME NEW n \in Nat, NEW T, NEW T2, T \subseteq T2, NEW D, D \subseteq 1 .. n,
           NEW f \in [D -> T], NextId(D) <= n, NEW row \in T2, NEW g, g = Put(f, NextId(D), row)
    PROVE  /\ NextId(D) \in 1 .. n /\ NextId(D) \notin D /\ \A j \in D : j < NextId(D)
           /\ g \in [D \cup {NextId(D)} -> T2] /\ DOMAIN g = D \cup {NextId(D)}
           /\ D \cup {NextId(D)} \subseteq 1 .. n
           /\ g[NextId(D)] = row
           /\ \A j \in D : g[j] = f[j]
<1>1. PICK i : i = NextId(D)
  OBVIOUS
<1>2. i \in Nat \ {0} /\ \A j \in D : j < i
  BY <1>1, NextIdFacts
<1>3. i \in 1 .. n /\ i \notin D
  BY <1>1, <1>2
<1>4. g = [j \in D \cup {i} |-> IF j = i THEN row ELSE f[j]]
  BY <1>1 DEF Put
<1>5. \A j \in D \cup {i} : g[j] \in T2
  BY <1>4
<1>6. QED
  BY <1>1, <1>2, <1>3, <1>4, <1>5

-----------------------------------------------------------------------------
(* What the actions do to the table of CAs, row by row.                    *)

\* One row is inserted under a new id, later than all others.
Added(i) ==
    /\ i \in 1 .. MaxCas /\ i \notin Ids /\ Ids' = Ids \cup {i}
    /\ \A j \in Ids : j < i

\* Rows that an action leaves as they are.
Kept(S) == \A j \in S : cas'[j] = cas[j]

\* The counter alone has changed.
OnlyCounted(p) == cas'[p] = [cas[p] EXCEPT !.counter = cas[p].counter + 1]

\* Inserting a CA row gives it a new id and leaves the other rows alone.
LEMMA AddRow ==
    ASSUME TypeOK, CaRows \subseteq CaRows', NEW row \in CaRows', NEW f \in [Ids -> CaRows],
           NextId(Ids) <= MaxCas, cas' = Put(f, NextId(Ids), row)
    PROVE  /\ Added(NextId(Ids)) /\ cas'[NextId(Ids)] = row /\ \A j \in Ids : cas'[j] = f[j]
           /\ Ids' \subseteq 1 .. MaxCas /\ cas' \in [Ids' -> CaRows']
<1>1. Ids \subseteq 1 .. MaxCas /\ MaxCas \in Nat
  BY PkiAssumption DEF TypeOK
<1>2. Ids' = DOMAIN cas'
  BY DEF Ids
<1>3. QED
  BY <1>1, <1>2, InsertFacts DEF Added

\* A new CA certificate of VCM's and the row that holds it.
LEMMA CreateRootFacts ==
    ASSUME TypeOK, NEW s \in Subjects, CreateRoot(s)
    PROVE  /\ TypeOK'
           /\ UNCHANGED certs /\ world \subseteq world' /\ lastKey' = lastKey + 1
           /\ \E i : /\ Added(i) /\ Kept(Ids)
                     /\ cas'[i].type = "root" /\ cas'[i].parent = Null
                     /\ cas'[i].cert \in world' /\ cas'[i].cert \notin world
                     /\ cas'[i].cert.key = cas'[i].key /\ cas'[i].key = lastKey + 1
                     /\ ~cas'[i].pending /\ cas'[i].counter = 1
<1> DEFINE x == Unsigned(s, s, FreshKey, FreshKey, 1, "ca")
           c == Issue(x)
           row == CaRow("root", Null, s, c, FreshKey, 1)
           i == NextId(Ids)
<1>1. /\ lastKey < MaxKeys /\ lastKey' = lastKey + 1 /\ UNCHANGED certs
      /\ FreshMarks(x) # {} /\ world' = world \cup {c}
      /\ i <= MaxCas /\ cas' = Put(cas, i, row)
  BY DEF CreateRoot, GenerateKey, FreshKey, Made, AddCa
<1>2. lastKey' \in 0 .. MaxKeys /\ lastKey <= lastKey' /\ FreshKey \in Keys' /\ FreshKey = lastKey + 1
  BY <1>1, PkiAssumption DEF TypeOK, Keys, FreshKey
<1>3. x \in X509(Keys')
  BY <1>2, PkiAssumption DEF Unsigned, X509, Constraints
<1>4. c \in X509(Keys') /\ c \notin world /\ c.key = FreshKey
  <2>1. x.key = FreshKey
    BY DEF Unsigned
  <2>2. QED
    BY <1>1, <1>3, <2>1, IssueFacts
<1>5. CaRows \subseteq CaRows' /\ CertRows \subseteq CertRows' /\ X509(Keys) \subseteq X509(Keys)'
  BY <1>1, <1>2, RowsGrow, PkiAssumption
<1> HIDE DEF x, c
<1>6. c # NoCert
  BY <1>2, <1>4, NoCertFacts DEF Keys
<1>7. row = [type |-> "root", parent |-> Null, subject |-> s, cert |-> c, key |-> FreshKey,
              counter |-> 1, locked |-> TRUE, pending |-> FALSE, csr |-> NoKey]
  BY <1>6, CaRowFacts
<1> HIDE DEF row
<1>8. row \in CaRows'
  BY <1>1, <1>2, <1>4, <1>7 DEF CaRows, CaTypes
<1>9. /\ Added(i) /\ Kept(Ids) /\ cas'[i] = row
      /\ Ids' \subseteq 1 .. MaxCas /\ cas' \in [Ids' -> CaRows']
  <2>1. cas \in [Ids -> CaRows]
    BY DEF TypeOK
  <2>2. QED
    BY <1>1, <1>5, <1>8, <2>1, AddRow DEF Kept
<1>10. TypeOK'
  BY <1>1, <1>2, <1>4, <1>5, <1>9 DEF TypeOK, CertIds
<1>11. QED
  BY <1>1, <1>2, <1>4, <1>7, <1>9, <1>10

\* A child that is signed here takes a serial from its parent.
LEMMA CreateChildFacts ==
    ASSUME TypeOK, KeysFitCerts, NEW p, NEW type \in CaTypes, NEW s \in Subjects,
           CreateChild(p, type, s)
    PROVE  /\ TypeOK'
           /\ UNCHANGED certs /\ world \subseteq world' /\ lastKey' = lastKey + 1
           /\ p \in Ids /\ ~Pending(p) /\ cas[p].key # NoKey /\ type # "root"
           /\ \E i : /\ Added(i) /\ Kept(Ids \ {p}) /\ OnlyCounted(p)
                     /\ cas'[i].type = type /\ cas'[i].parent = p
                     /\ cas'[i].cert \in world' /\ cas'[i].cert \notin world
                     /\ cas'[i].cert.key = cas'[i].key /\ cas'[i].key = lastKey + 1
                     /\ cas'[i].cert.serial = cas[p].counter
                     /\ ~cas'[i].pending /\ cas'[i].counter = 1
<1> DEFINE x == Unsigned(s, cas[p].cert.subject, FreshKey, cas[p].key, Serial(p),
                         CaConstraint(type))
           c == Issue(x)
           row == CaRow(type, p, s, c, FreshKey, 1)
           g == Put(cas, p, Counted(p))
           i == NextId(Ids)
<1>1. /\ lastKey < MaxKeys /\ lastKey' = lastKey + 1 /\ UNCHANGED certs
      /\ p \in Ids /\ ~Pending(p) /\ cas[p].key # NoKey /\ type # "root"
      /\ FreshMarks(x) # {} /\ world' = world \cup {c}
      /\ i <= MaxCas /\ cas' = Put(g, i, row)
  BY DEF CreateChild, GenerateKey, FreshKey, Made
<1>2. lastKey' \in 0 .. MaxKeys /\ lastKey <= lastKey' /\ FreshKey \in Keys' /\ FreshKey = lastKey + 1
  BY <1>1, PkiAssumption DEF TypeOK, Keys, FreshKey
<1>3. cas[p] \in CaRows /\ cas[p].cert \in world /\ cas[p].cert \in X509(Keys)
  BY <1>1 DEF TypeOK, KeysFitCerts, CaRows, Pending
<1>4. CaRows \subseteq CaRows' /\ CertRows \subseteq CertRows' /\ X509(Keys) \subseteq X509(Keys)'
      /\ Keys \subseteq Keys'
  BY <1>1, <1>2, RowsGrow, PkiAssumption
<1>5. x \in X509(Keys')
  <2>1. cas[p].cert.subject \in Subjects /\ cas[p].key \in Keys /\ Serial(p) \in Nat
    BY <1>1, <1>3 DEF X509, CaRows, Serial
  <2>2. CaConstraint(type) \in Constraints
    BY DEF CaConstraint, Constraints
  <2>3. cas[p].key \in Keys' /\ 0 \in 0 .. MaxTwins
    BY <1>4, <2>1, PkiAssumption
  <2>4. QED
    BY <1>2, <2>1, <2>2, <2>3, UnsignedType
<1>6. c \in X509(Keys') /\ c \notin world /\ c.key = FreshKey /\ c.serial = cas[p].counter
  <2>1. x.key = FreshKey /\ x.serial = cas[p].counter
    BY DEF Unsigned, Serial
  <2>2. QED
    BY <1>1, <1>5, <2>1, IssueFacts
<1> HIDE DEF x, c
<1>7. c # NoCert
  BY <1>2, <1>6, NoCertFacts DEF Keys
<1>8. row = [type |-> type, parent |-> p, subject |-> s, cert |-> c, key |-> FreshKey,
             counter |-> 1, locked |-> TRUE, pending |-> FALSE, csr |-> NoKey]
  BY <1>7, CaRowFacts
<1>9. p \in 1 .. MaxCas
  BY <1>1 DEF TypeOK
<1> HIDE DEF row
<1>10. row \in CaRows'
  BY <1>1, <1>2, <1>6, <1>8, <1>9 DEF CaRows
<1>11. /\ g \in [Ids -> CaRows] /\ DOMAIN g = Ids
       /\ g[p] = [cas[p] EXCEPT !.counter = cas[p].counter + 1]
       /\ \A j \in Ids \ {p} : g[j] = cas[j]
  <2>1. Counted(p) \in CaRows /\ Counted(p) = [cas[p] EXCEPT !.counter = cas[p].counter + 1]
    BY <1>3 DEF Counted, Serial, CaRows
  <2> HIDE DEF g
  <2>2. g = [j \in Ids |-> IF j = p THEN Counted(p) ELSE cas[j]]
    BY <1>1 DEF g, Put, Ids
  <2>3. QED
    BY <1>1, <2>1, <2>2 DEF TypeOK
<1> HIDE DEF g
<1>12. /\ Added(i) /\ Kept(Ids \ {p}) /\ OnlyCounted(p) /\ cas'[i] = row
       /\ Ids' \subseteq 1 .. MaxCas /\ cas' \in [Ids' -> CaRows']
  BY <1>1, <1>4, <1>10, <1>11, AddRow DEF Kept, OnlyCounted
<1>13. TypeOK'
  BY <1>1, <1>2, <1>4, <1>6, <1>12 DEF TypeOK, CertIds
<1>14. QED
  BY <1>1, <1>2, <1>6, <1>8, <1>12, <1>13

\* A child of an offline CA has a key and a CSR for it.
LEMMA CreatePendingFacts ==
    ASSUME TypeOK, NEW p, NEW type \in CaTypes, NEW s \in Subjects,
           CreatePending(p, type, s)
    PROVE  /\ TypeOK'
           /\ UNCHANGED <<certs, world>> /\ lastKey' = lastKey + 1
           /\ p \in Ids /\ ~Pending(p) /\ cas[p].key = NoKey
           /\ \E i : /\ Added(i) /\ Kept(Ids) /\ cas'[i].parent = p
                     /\ cas'[i].cert = NoCert /\ cas'[i].pending
                     /\ cas'[i].key = lastKey + 1 /\ cas'[i].csr = lastKey + 1
                     /\ cas'[i].counter = 1
<1> DEFINE row == CaRow(type, p, s, NoCert, FreshKey, 1)
           i == NextId(Ids)
<1>1. /\ lastKey < MaxKeys /\ lastKey' = lastKey + 1 /\ UNCHANGED <<certs, world>>
      /\ p \in Ids /\ ~Pending(p) /\ cas[p].key = NoKey
      /\ i <= MaxCas /\ cas' = Put(cas, i, row)
  BY DEF CreatePending, GenerateKey, FreshKey, AddCa
<1>2. lastKey' \in 0 .. MaxKeys /\ lastKey <= lastKey' /\ FreshKey \in Keys' /\ FreshKey = lastKey + 1
  BY <1>1, PkiAssumption DEF TypeOK, Keys, FreshKey
<1>3. CaRows \subseteq CaRows' /\ CertRows \subseteq CertRows' /\ X509(Keys) \subseteq X509(Keys)'
  BY <1>1, <1>2, RowsGrow, PkiAssumption
<1>4. row = [type |-> type, parent |-> p, subject |-> s, cert |-> NoCert, key |-> FreshKey,
             counter |-> 1, locked |-> TRUE, pending |-> TRUE, csr |-> FreshKey]
  BY CaRowFacts
<1>5. p \in 1 .. MaxCas
  BY <1>1 DEF TypeOK
<1> HIDE DEF row
<1>6. row \in CaRows'
  BY <1>1, <1>2, <1>4, <1>5 DEF CaRows
<1>7. /\ Added(i) /\ Kept(Ids) /\ cas'[i] = row
      /\ Ids' \subseteq 1 .. MaxCas /\ cas' \in [Ids' -> CaRows']
  <2>1. cas \in [Ids -> CaRows]
    BY DEF TypeOK
  <2>2. QED
    BY <1>1, <1>3, <1>6, <2>1, AddRow DEF Kept
<1>8. TypeOK'
  BY <1>1, <1>2, <1>3, <1>7 DEF TypeOK, CertIds
<1>9. QED
  BY <1>1, <1>2, <1>4, <1>7, <1>8

\* The imported row holds a certificate that no other row holds.
LEMMA ImportCaFacts ==
    ASSUME TypeOK, KeysFitCerts, NEW x, NEW key \in OutsideKeys \cup {NoKey},
           NEW override \in CaTypes \cup {Null}, ImportCa(x, key, override)
    PROVE  /\ TypeOK'
           /\ UNCHANGED <<certs, world, lastKey>>
           /\ x \in world /\ \A b \in Ids : cas[b].cert # x
           /\ \E i : /\ Added(i) /\ Kept(Ids)
                     /\ cas'[i].parent # Null =>
                           cas'[i].parent \in Ids /\ ~Pending(cas'[i].parent)
                     /\ cas'[i].cert = x /\ ~cas'[i].pending
                     /\ cas'[i].key \in {NoKey, x.key}
                     /\ cas'[i].counter = ImportBase
<1> DEFINE type == ImportedType(x, override)
           parent == ImportedParent(x)
           row == CaRow(type, parent, x.subject, x, key, ImportBase)
           i == NextId(Ids)
<1>1. /\ x \in world /\ key \in {NoKey, x.key} /\ \A b \in Ids : cas[b].cert # x
      /\ i <= MaxCas /\ cas' = Put(cas, i, row) /\ UNCHANGED <<certs, world, lastKey>>
  BY DEF ImportCa, NewCaCert, AddCa
<1>2. parent # Null => parent \in Ids /\ ~Pending(parent)
  <2>1. NamedAsIssuer(x) \subseteq Ids /\ \A b \in NamedAsIssuer(x) : ~Pending(b)
    BY DEF NamedAsIssuer, KeysFitCerts, Pending
  <2>2. NamedAsIssuer(x) # {} => Least(NamedAsIssuer(x)) \in NamedAsIssuer(x)
    <3>1. Ids \subseteq Nat
      BY PkiAssumption DEF TypeOK
    <3>2. NamedAsIssuer(x) \subseteq Nat
      BY <2>1, <3>1
    <3>3. QED
      BY <3>2, LeastFacts
  <2>3. QED
    BY <2>1, <2>2 DEF ImportedParent
<1>3. type \in CaTypes
  BY DEF ImportedType, CaTypes
<1>4. x \in X509(Keys) /\ x # NoCert
  <2>1. x \in X509(Keys)
    BY <1>1 DEF TypeOK
  <2>2. QED
    BY <2>1, NoCertFacts DEF Keys, TypeOK
<1>5. parent \in (1 .. MaxCas) \cup {Null}
  BY <1>2 DEF TypeOK
<1> HIDE DEF type, parent
<1>6. row = [type |-> type, parent |-> parent, subject |-> x.subject, cert |-> x, key |-> key,
             counter |-> ImportBase, locked |-> TRUE, pending |-> FALSE, csr |-> NoKey]
  <2>1. x # NoCert
    BY <1>4
  <2>2. PICK sub : sub = x.subject
    OBVIOUS
  <2>3. CaRow(type, parent, sub, x, key, ImportBase) =
          [type |-> type, parent |-> parent, subject |-> sub, cert |-> x, key |-> key,
           counter |-> ImportBase, locked |-> TRUE, pending |-> FALSE, csr |-> NoKey]
    BY <2>1, CaRowFacts
  <2>4. QED
    BY <2>2, <2>3
<1> HIDE DEF row
<1>7. CaRows' = CaRows /\ CertRows' = CertRows /\ X509(Keys)' = X509(Keys)
  BY <1>1 DEF CaRows, CertRows, X509, Keys
<1>8. row \in CaRows
  BY <1>1, <1>3, <1>4, <1>5, <1>6, PkiAssumption DEF CaRows, Keys, X509
<1>9. /\ Added(i) /\ Kept(Ids) /\ cas'[i] = row
      /\ Ids' \subseteq 1 .. MaxCas /\ cas' \in [Ids' -> CaRows']
  <2>1. cas \in [Ids -> CaRows]
    BY DEF TypeOK
  <2>2. QED
    BY <1>1, <1>7, <1>8, <2>1, AddRow DEF Kept
<1>10. TypeOK'
  BY <1>1, <1>7, <1>9 DEF TypeOK, CertIds
<1>11. QED
  BY <1>1, <1>2, <1>6, <1>9, <1>10

\* An action that makes no key and no certificate leaves the types of rows alone.
LEMMA RowsSame ==
    ASSUME UNCHANGED <<world, lastKey>>
    PROVE  CaRows' = CaRows /\ CertRows' = CertRows /\ X509(Keys)' = X509(Keys)
BY DEF CaRows, CertRows, X509, Keys

\* What regenerate_pending_csr does to the rows.
LEMMA RegenerateFacts ==
    ASSUME TypeOK, NEW a, RegenerateCsr(a)
    PROVE  /\ TypeOK'
           /\ UNCHANGED <<certs, world>> /\ lastKey' = lastKey + 1
           /\ a \in Ids /\ Pending(a) /\ Ids' = Ids /\ Kept(Ids \ {a})
           /\ cas'[a] = [cas[a] EXCEPT !.key = lastKey + 1, !.csr = lastKey + 1]
<1>1. /\ a \in Ids /\ Pending(a) /\ lastKey < MaxKeys /\ lastKey' = lastKey + 1
      /\ cas' = [cas EXCEPT ![a] = [cas[a] EXCEPT !.key = lastKey + 1, !.csr = lastKey + 1]]
      /\ UNCHANGED <<certs, world>>
  BY DEF RegenerateCsr, MayRegenerate, GenerateKey, FreshKey
<1>2. lastKey' \in 0 .. MaxKeys /\ lastKey <= lastKey' /\ lastKey + 1 \in Keys'
  BY <1>1, PkiAssumption DEF TypeOK, Keys
<1>3. CaRows \subseteq CaRows' /\ CertRows \subseteq CertRows' /\ X509(Keys) \subseteq X509(Keys)'
  BY <1>1, <1>2, RowsGrow, PkiAssumption
<1>4. cas \in [Ids -> CaRows]
  BY DEF TypeOK
<1>5. [cas[a] EXCEPT !.key = lastKey + 1, !.csr = lastKey + 1] \in CaRows'
  <2>1. cas[a] \in CaRows'
    BY <1>1, <1>3, <1>4
  <2>2. QED
    BY <1>2, <2>1 DEF CaRows
<1>6. /\ Ids' = Ids /\ Kept(Ids \ {a})
      /\ cas'[a] = [cas[a] EXCEPT !.key = lastKey + 1, !.csr = lastKey + 1]
      /\ cas' \in [Ids -> CaRows']
  BY <1>1, <1>3, <1>4, <1>5 DEF Ids, Kept
<1>7. TypeOK'
  BY <1>1, <1>2, <1>3, <1>6 DEF TypeOK, CertIds
<1>8. QED
  BY <1>1, <1>6, <1>7

\* What an offline signature changes: the certificates in existence only.
LEMMA SignOfflineFacts ==
    ASSUME TypeOK, KeysFitCerts, NEW a, NEW ca \in Outside, NEW reply \in Replies,
           SignOffline(a, ca, reply)
    PROVE  TypeOK' /\ UNCHANGED <<cas, certs, lastKey>> /\ world \subseteq world'
<1> DEFINE x == Unsigned(reply[1], ca.subject, cas[a].csr, ca.key, 0, reply[2])
<1>1. /\ a \in Ids /\ Pending(a) /\ UNCHANGED <<cas, certs, lastKey>>
      /\ FreshMarks(x) # {} /\ world' = world \cup {Issue(x)}
  BY DEF SignOffline, Made
<1>2. reply[1] \in Subjects /\ reply[2] \in Constraints
  BY PkiAssumption
<1>3. ca.subject \in Subjects /\ ca.key \in Keys
  BY PkiAssumption DEF X509, Keys
<1>4. cas[a].csr \in Keys
  BY <1>1 DEF TypeOK, KeysFitCerts, CaRows, Pending
<1>5. x \in X509(Keys)
  BY <1>2, <1>3, <1>4, UnsignedType
<1> HIDE DEF x
<1>6. Issue(x) \in X509(Keys)
  BY <1>1, <1>5, IssueFacts
<1>7. CaRows \subseteq CaRows' /\ CertRows \subseteq CertRows' /\ X509(Keys)' = X509(Keys)
  BY <1>1, RowsGrow, PkiAssumption DEF TypeOK, X509, Keys
<1>8. QED
  BY <1>1, <1>6, <1>7 DEF TypeOK, CertIds, Ids

\* What complete_pending_ca does to the rows.
LEMMA CompleteFacts ==
    ASSUME TypeOK, NEW a, NEW x, NEW allow, Complete(a, x, allow)
    PROVE  /\ TypeOK'
           /\ UNCHANGED <<certs, world, lastKey>>
           /\ a \in Ids /\ Pending(a) /\ Ids' = Ids /\ Kept(Ids \ {a})
           /\ x \in world /\ x.key = cas[a].key /\ \A b \in Ids \ {a} : cas[b].cert # x
           /\ cas'[a] = [cas[a] EXCEPT !.cert = x, !.subject = x.subject,
                                       !.pending = FALSE, !.csr = NoKey]
<1>1. /\ a \in Ids /\ Pending(a) /\ UNCHANGED <<certs, world, lastKey>>
      /\ x \in world /\ x.key = cas[a].key /\ \A b \in Ids \ {a} : cas[b].cert # x
      /\ cas' = [cas EXCEPT ![a] = [cas[a] EXCEPT !.cert = x, !.subject = x.subject,
                                                  !.pending = FALSE, !.csr = NoKey]]
  BY DEF Complete, Certifies
<1>2. CaRows' = CaRows /\ CertRows' = CertRows /\ X509(Keys)' = X509(Keys)
  BY <1>1, RowsSame
<1>3. cas \in [Ids -> CaRows] /\ x.subject \in Subjects
  BY <1>1 DEF TypeOK, X509
<1>4. [cas[a] EXCEPT !.cert = x, !.subject = x.subject, !.pending = FALSE, !.csr = NoKey]
        \in CaRows
  <2>1. cas[a] \in CaRows
    BY <1>1, <1>3
  <2>2. QED
    BY <1>1, <1>3, <2>1 DEF CaRows
<1>5. /\ Ids' = Ids /\ Kept(Ids \ {a}) /\ cas' \in [Ids -> CaRows]
      /\ cas'[a] = [cas[a] EXCEPT !.cert = x, !.subject = x.subject,
                                  !.pending = FALSE, !.csr = NoKey]
  BY <1>1, <1>3, <1>4 DEF Ids, Kept
<1>6. TypeOK'
  BY <1>1, <1>2, <1>5 DEF TypeOK, CertIds
<1>7. QED
  BY <1>1, <1>5, <1>6

\* What discard_pending_ca does to the rows.
LEMMA DiscardFacts ==
    ASSUME TypeOK, NEW a, Discard(a)
    PROVE  /\ TypeOK'
           /\ UNCHANGED <<certs, world, lastKey>>
           /\ a \in Ids /\ Pending(a) /\ Ids' = Ids \ {a} /\ Kept(Ids \ {a})
<1>1. /\ a \in Ids /\ Pending(a) /\ UNCHANGED <<certs, world, lastKey>>
      /\ cas' = [j \in Ids \ {a} |-> cas[j]]
  BY DEF Discard, Without, Ids
<1>2. CaRows' = CaRows /\ CertRows' = CertRows /\ X509(Keys)' = X509(Keys)
  BY <1>1, RowsSame
<1>3. Ids' = Ids \ {a} /\ Kept(Ids \ {a})
  BY <1>1 DEF Ids, Kept
<1>4. cas' \in [Ids' -> CaRows]
  BY <1>1, <1>3 DEF TypeOK
<1>5. QED
  BY <1>1, <1>2, <1>3, <1>4 DEF TypeOK, CertIds

\* A deletion takes a whole subtree and the certificates linked to it.
LEMMA DeleteCaFacts ==
    ASSUME TypeOK, NEW a, NEW cascade, DeleteCa(a, cascade)
    PROVE  /\ TypeOK'
           /\ UNCHANGED <<world, lastKey>>
           /\ a \in Ids /\ ~cas[a].locked
           /\ Ids' = Ids \ Subtree(a) /\ Kept(Ids \ Subtree(a))
           /\ CertIds' = CertIds \ CertsBelow(a) /\ \A c \in CertIds' : certs'[c] = certs[c]
           /\ \A b \in Subtree(a) : ~cas[b].locked
           /\ \A c \in CertsBelow(a) : ~certs[c].locked
<1>1. /\ a \in Ids /\ ~cas[a].locked /\ ~LockBelow(a) /\ UNCHANGED <<world, lastKey>>
      /\ cas' = [j \in Ids \ Subtree(a) |-> cas[j]]
      /\ certs' = [j \in CertIds \ CertsBelow(a) |-> certs[j]]
  BY DEF DeleteCa, Without, Ids, CertIds
<1>2. CaRows' = CaRows /\ CertRows' = CertRows /\ X509(Keys)' = X509(Keys)
  BY <1>1, RowsSame
<1>3. Ids' = Ids \ Subtree(a) /\ Kept(Ids \ Subtree(a))
  BY <1>1 DEF Ids, Kept
<1>4. CertIds' = CertIds \ CertsBelow(a) /\ \A c \in CertIds' : certs'[c] = certs[c]
  BY <1>1 DEF CertIds
<1>5. cas' \in [Ids' -> CaRows] /\ certs' \in [CertIds' -> CertRows]
  BY <1>1, <1>3, <1>4 DEF TypeOK
<1>6. TypeOK'
  BY <1>1, <1>2, <1>3, <1>4, <1>5 DEF TypeOK
<1>7. (\A b \in Subtree(a) : ~cas[b].locked) /\ (\A c \in CertsBelow(a) : ~certs[c].locked)
  BY <1>1 DEF LockBelow, Descendants
<1>8. QED
  BY <1>1, <1>3, <1>4, <1>6, <1>7

\* What lock_ca does to the rows.
LEMMA LockCaFacts ==
    ASSUME TypeOK, NEW a, NEW locked \in BOOLEAN, LockCa(a, locked)
    PROVE  /\ TypeOK'
           /\ UNCHANGED <<certs, world, lastKey>>
           /\ a \in Ids /\ Ids' = Ids /\ Kept(Ids \ {a})
           /\ cas'[a] = [cas[a] EXCEPT !.locked = locked]
<1>1. /\ a \in Ids /\ UNCHANGED <<certs, world, lastKey>>
      /\ cas' = [cas EXCEPT ![a] = [cas[a] EXCEPT !.locked = locked]]
  BY DEF LockCa
<1>2. CaRows' = CaRows /\ CertRows' = CertRows /\ X509(Keys)' = X509(Keys)
  BY <1>1, RowsSame
<1>3. cas \in [Ids -> CaRows]
  BY DEF TypeOK
<1>4. [cas[a] EXCEPT !.locked = locked] \in CaRows
  <2>1. cas[a] \in CaRows
    BY <1>1, <1>3
  <2>2. QED
    BY <2>1 DEF CaRows
<1>5. /\ Ids' = Ids /\ Kept(Ids \ {a}) /\ cas' \in [Ids -> CaRows]
      /\ cas'[a] = [cas[a] EXCEPT !.locked = locked]
  BY <1>1, <1>3, <1>4 DEF Ids, Kept
<1>6. QED
  BY <1>1, <1>2, <1>5 DEF TypeOK, CertIds

-----------------------------------------------------------------------------
(* What the actions do to the table of certificates, row by row.           *)

AddedCert(i) == i \in 1 .. MaxCerts /\ i \notin CertIds /\ CertIds' = CertIds \cup {i}
KeptCerts(S) == \A c \in S : certs'[c] = certs[c]

\* Inserting a certificate row gives it a new id and leaves the others alone.
LEMMA AddCertRow ==
    ASSUME TypeOK, CertRows \subseteq CertRows', NEW row \in CertRows',
           NextId(CertIds) <= MaxCerts, certs' = Put(certs, NextId(CertIds), row)
    PROVE  /\ AddedCert(NextId(CertIds)) /\ certs'[NextId(CertIds)] = row /\ KeptCerts(CertIds)
           /\ CertIds' \subseteq 1 .. MaxCerts /\ certs' \in [CertIds' -> CertRows']
<1>1. CertIds \subseteq 1 .. MaxCerts /\ MaxCerts \in Nat /\ certs \in [CertIds -> CertRows]
  BY PkiAssumption DEF TypeOK
<1>2. CertIds' = DOMAIN certs'
  BY DEF CertIds
<1>3. QED
  BY <1>1, <1>2, InsertFacts DEF AddedCert, KeptCerts

\* A leaf that is signed here takes a serial from its CA.
LEMMA SignCsrFacts ==
    ASSUME TypeOK, KeysFitCerts, NEW a, NEW s \in Subjects, SignCsr(a, s)
    PROVE  /\ TypeOK'
           /\ world \subseteq world' /\ lastKey' = lastKey
           /\ a \in Ids /\ ~Pending(a) /\ cas[a].key # NoKey /\ cas[a].type # "root"
           /\ Ids' = Ids /\ Kept(Ids \ {a}) /\ OnlyCounted(a)
           /\ \E i : /\ AddedCert(i) /\ KeptCerts(CertIds)
                     /\ certs'[i].ca = a /\ certs'[i].managed
                     /\ certs'[i].x \in world' /\ certs'[i].x \notin world
                     /\ certs'[i].x.issuer = cas[a].cert.subject
                     /\ certs'[i].x.signer = cas[a].key
                     /\ certs'[i].x.serial = cas[a].counter
<1> DEFINE x == Unsigned(s, cas[a].cert.subject, DeviceKey, cas[a].key, Serial(a), "leaf")
           c == Issue(x)
           row == CertRow(a, TRUE, c)
           i == NextId(CertIds)
<1>1. /\ a \in Ids /\ cas[a].key # NoKey /\ cas[a].cert # NoCert /\ cas[a].type # "root"
      /\ FreshMarks(x) # {} /\ world' = world \cup {c}
      /\ i <= MaxCerts /\ certs' = Put(certs, i, row)
      /\ cas' = [cas EXCEPT ![a] = Counted(a)] /\ lastKey' = lastKey
  BY DEF SignCsr, MayIssue, CanSign, Made, AddCert
<1>2. cas[a] \in CaRows /\ cas[a].cert \in world /\ cas[a].cert \in X509(Keys) /\ ~Pending(a)
  BY <1>1 DEF TypeOK, KeysFitCerts, CaRows, Pending
<1>3. x \in X509(Keys)
  <2>1. cas[a].cert.subject \in Subjects /\ cas[a].key \in Keys /\ Serial(a) \in Nat
    BY <1>1, <1>2 DEF X509, CaRows, Serial
  <2>2. DeviceKey \in Keys /\ "leaf" \in Constraints
    BY DEF Keys, Constraints
  <2>3. QED
    BY <2>1, <2>2, UnsignedType
<1>4. /\ c \in X509(Keys) /\ c \notin world
      /\ c.issuer = cas[a].cert.subject /\ c.signer = cas[a].key
      /\ c.serial = cas[a].counter
  <2>1. /\ x.issuer = cas[a].cert.subject /\ x.signer = cas[a].key
        /\ x.serial = cas[a].counter
    BY DEF Unsigned, Serial
  <2>2. QED
    BY <1>1, <1>3, <2>1, IssueFacts
<1> HIDE DEF x, c
<1>5. CaRows \subseteq CaRows' /\ CertRows \subseteq CertRows' /\ X509(Keys)' = X509(Keys)
  BY <1>1, RowsGrow, PkiAssumption DEF TypeOK, X509, Keys
<1>6. row = [ca |-> a, managed |-> TRUE, x |-> c, replacedBy |-> Null, locked |-> FALSE]
  BY DEF CertRow
<1> HIDE DEF row
<1>7. row \in CertRows'
  <2>1. a \in 1 .. MaxCas
    BY <1>1 DEF TypeOK
  <2>2. QED
    BY <1>1, <1>6, <2>1 DEF CertRows
<1>8. /\ AddedCert(i) /\ KeptCerts(CertIds) /\ certs'[i] = row
      /\ CertIds' \subseteq 1 .. MaxCerts /\ certs' \in [CertIds' -> CertRows']
  BY <1>1, <1>5, <1>7, AddCertRow
<1>9. Counted(a) \in CaRows /\ Counted(a) = [cas[a] EXCEPT !.counter = cas[a].counter + 1]
  BY <1>2 DEF Counted, Serial, CaRows
<1>10. Ids' = Ids /\ Kept(Ids \ {a}) /\ OnlyCounted(a) /\ cas' \in [Ids' -> CaRows']
  BY <1>1, <1>5, <1>9 DEF TypeOK, Ids, Kept, OnlyCounted
<1>11. TypeOK'
  BY <1>1, <1>4, <1>5, <1>8, <1>10 DEF TypeOK
<1>12. certs'[i].ca = a /\ certs'[i].managed /\ certs'[i].x = c
  BY <1>6, <1>8
<1> HIDE DEF i
<1>13. QED
  BY <1>1, <1>2, <1>4, <1>8, <1>10, <1>11, <1>12

\* An imported certificate is new and linked to a CA that signed it, or to none.
LEMMA ImportCertFacts ==
    ASSUME TypeOK, KeysFitCerts, NEW x, NEW chosen, ImportCert(x, chosen)
    PROVE  /\ TypeOK'
           /\ UNCHANGED <<cas, world, lastKey>>
           /\ x \in world /\ \A c \in CertIds : certs[c].x # x
           /\ chosen # Null => chosen \in Ids /\ ~Pending(chosen) /\ Signed(chosen, x)
           /\ \E i : /\ AddedCert(i) /\ KeptCerts(CertIds)
                     /\ certs'[i].ca = chosen /\ ~certs'[i].managed /\ certs'[i].x = x
<1> DEFINE row == CertRow(chosen, FALSE, x)
           i == NextId(CertIds)
<1>1. /\ x \in world /\ \A c \in CertIds : certs[c].x # x
      /\ i <= MaxCerts /\ certs' = Put(certs, i, row) /\ UNCHANGED <<cas, world, lastKey>>
  BY DEF ImportCert, AddCert
<1>2. chosen # Null => chosen \in Ids /\ ~Pending(chosen) /\ Signed(chosen, x)
  <2>1. Issuers(x) \subseteq Ids /\ Ids \subseteq Nat /\ Issuers(x) \subseteq Nat
    <3>1. Issuers(x) \subseteq Ids
      BY DEF Issuers, NamedAsIssuer
    <3>2. Ids \subseteq Nat
      BY PkiAssumption DEF TypeOK
    <3>3. QED
      BY <3>1, <3>2
  <2>2. CASE Issuers(x) # {}
    <3>1. Least(Issuers(x)) \in Issuers(x)
      BY <2>1, <2>2, LeastFacts
    <3>2. chosen = Least(Issuers(x))
      BY <2>2 DEF ImportCert
    <3>3. QED
      BY <2>1, <3>1, <3>2 DEF Issuers
  <2>3. CASE Issuers(x) = {}
    <3>1. chosen = Null \/ (chosen \in Ids /\ Signed(chosen, x))
      BY <2>3 DEF ImportCert
    <3>2. QED
      BY <3>1 DEF Signed, KeysFitCerts, Pending
  <2>4. QED
    BY <2>2, <2>3
<1>3. CaRows' = CaRows /\ CertRows' = CertRows /\ X509(Keys)' = X509(Keys)
  BY <1>1, RowsSame
<1>4. row = [ca |-> chosen, managed |-> FALSE, x |-> x, replacedBy |-> Null, locked |-> FALSE]
  BY DEF CertRow
<1> HIDE DEF row
<1>5. row \in CertRows'
  <2>1. chosen \in (1 .. MaxCas) \cup {Null}
    BY <1>2 DEF TypeOK
  <2>2. QED
    BY <1>1, <1>3, <1>4, <2>1 DEF CertRows
<1>6. /\ AddedCert(i) /\ KeptCerts(CertIds) /\ certs'[i] = row
      /\ CertIds' \subseteq 1 .. MaxCerts /\ certs' \in [CertIds' -> CertRows']
  BY <1>1, <1>3, <1>5, AddCertRow
<1>7. TypeOK'
  BY <1>1, <1>3, <1>6 DEF TypeOK, Ids
<1>8. QED
  BY <1>1, <1>2, <1>4, <1>6, <1>7

\* What delete_cert does to the rows.
LEMMA DeleteCertFacts ==
    ASSUME TypeOK, NEW c, DeleteCert(c)
    PROVE  /\ TypeOK'
           /\ UNCHANGED <<cas, world, lastKey>>
           /\ c \in CertIds /\ ~certs[c].locked
           /\ CertIds' = CertIds \ {c} /\ KeptCerts(CertIds \ {c})
<1>1. /\ c \in CertIds /\ ~certs[c].locked /\ UNCHANGED <<cas, world, lastKey>>
      /\ certs' = [j \in CertIds \ {c} |-> certs[j]]
  BY DEF DeleteCert, Without, CertIds
<1>2. CaRows' = CaRows /\ CertRows' = CertRows /\ X509(Keys)' = X509(Keys)
  BY <1>1, RowsSame
<1>3. CertIds' = CertIds \ {c} /\ KeptCerts(CertIds \ {c})
  BY <1>1 DEF CertIds, KeptCerts
<1>4. certs' \in [CertIds' -> CertRows]
  BY <1>1, <1>3 DEF TypeOK
<1>5. QED
  BY <1>1, <1>2, <1>3, <1>4 DEF TypeOK, Ids

\* Locking and superseding change one field of one row.
LEMMA LockCertFacts ==
    ASSUME TypeOK, NEW c, NEW locked \in BOOLEAN, LockCert(c, locked)
    PROVE  /\ TypeOK'
           /\ UNCHANGED <<cas, world, lastKey>>
           /\ c \in CertIds /\ CertIds' = CertIds /\ KeptCerts(CertIds \ {c})
           /\ certs'[c] = [certs[c] EXCEPT !.locked = locked]
<1>1. /\ c \in CertIds /\ UNCHANGED <<cas, world, lastKey>>
      /\ certs' = [certs EXCEPT ![c] = [certs[c] EXCEPT !.locked = locked]]
  BY DEF LockCert
<1>2. CaRows' = CaRows /\ CertRows' = CertRows /\ X509(Keys)' = X509(Keys)
  BY <1>1, RowsSame
<1>3. certs \in [CertIds -> CertRows]
  BY DEF TypeOK
<1>4. [certs[c] EXCEPT !.locked = locked] \in CertRows
  <2>1. certs[c] \in CertRows
    BY <1>1, <1>3
  <2>2. QED
    BY <2>1 DEF CertRows
<1>5. /\ CertIds' = CertIds /\ KeptCerts(CertIds \ {c}) /\ certs' \in [CertIds -> CertRows]
      /\ certs'[c] = [certs[c] EXCEPT !.locked = locked]
  BY <1>1, <1>3, <1>4 DEF CertIds, KeptCerts
<1>6. QED
  BY <1>1, <1>2, <1>5 DEF TypeOK, Ids

\* What replace_cert does to the rows.
LEMMA ReplaceCertFacts ==
    ASSUME TypeOK, NEW c, NEW by, ReplaceCert(c, by)
    PROVE  /\ TypeOK'
           /\ UNCHANGED <<cas, world, lastKey>>
           /\ c \in CertIds /\ CertIds' = CertIds /\ KeptCerts(CertIds \ {c})
           /\ certs'[c] = [certs[c] EXCEPT !.replacedBy = by]
<1>1. /\ c \in CertIds /\ UNCHANGED <<cas, world, lastKey>>
      /\ by = Null \/ by \in CertIds
      /\ certs' = [certs EXCEPT ![c] = [certs[c] EXCEPT !.replacedBy = by]]
  BY DEF ReplaceCert
<1>2. CaRows' = CaRows /\ CertRows' = CertRows /\ X509(Keys)' = X509(Keys)
  BY <1>1, RowsSame
<1>3. certs \in [CertIds -> CertRows] /\ by \in (1 .. MaxCerts) \cup {Null}
  BY <1>1 DEF TypeOK
<1>4. [certs[c] EXCEPT !.replacedBy = by] \in CertRows
  <2>1. certs[c] \in CertRows
    BY <1>1, <1>3
  <2>2. QED
    BY <1>3, <2>1 DEF CertRows
<1>5. /\ CertIds' = CertIds /\ KeptCerts(CertIds \ {c}) /\ certs' \in [CertIds -> CertRows]
      /\ certs'[c] = [certs[c] EXCEPT !.replacedBy = by]
  BY <1>1, <1>3, <1>4 DEF CertIds, KeptCerts
<1>6. QED
  BY <1>1, <1>2, <1>5 DEF TypeOK, Ids

-----------------------------------------------------------------------------
(* What any step does to the rows: the facts the invariants rest on.       *)

\* Rows that stay keep their place; usable ones their certificate and key too.
CasEvolve ==
    \A j \in Ids \cap Ids' :
        /\ cas'[j].parent = cas[j].parent
        /\ ~Pending(j) => /\ cas'[j].cert = cas[j].cert /\ cas'[j].key = cas[j].key
                          /\ cas'[j].type = cas[j].type /\ ~cas'[j].pending

\* A new CA comes after all others and under a usable one, or none.
NewCasFit ==
    \A j \in Ids' \ Ids :
        /\ \A i \in Ids : i < j
        /\ cas'[j].parent # Null =>
              cas'[j].parent \in Ids \cap Ids' /\ ~Pending(cas'[j].parent)

\* No row that stays loses the CA it points at.
LinksKept ==
    /\ \A j \in Ids \cap Ids' : cas[j].parent \in Ids => cas[j].parent \in Ids'
    /\ \A c \in CertIds \cap CertIds' : certs[c].ca \in Ids => certs[c].ca \in Ids'

CertsEvolve ==
    \A c \in CertIds \cap CertIds' :
        /\ certs'[c].ca = certs[c].ca /\ certs'[c].x = certs[c].x
        /\ certs'[c].managed = certs[c].managed

\* A new certificate is linked to the CA that signed it, or to none.
NewCertsFit ==
    \A c \in CertIds' \ CertIds :
        /\ certs'[c].ca # Null =>
              /\ certs'[c].ca \in Ids \cap Ids' /\ ~Pending(certs'[c].ca)
              /\ Signed(certs'[c].ca, certs'[c].x)
        /\ certs'[c].managed =>
              /\ certs'[c].ca # Null /\ cas[certs'[c].ca].type # "root"
              /\ cas[certs'[c].ca].cert.subject = certs'[c].x.issuer

\* At most one row gets a certificate, and no other row holds it.
OneCaCert ==
    \E i : /\ \A j \in Ids' \ {i} : j \in Ids /\ cas'[j].cert = cas[j].cert
           /\ i \in Ids' => \/ i \in Ids /\ cas'[i].cert = cas[i].cert
                            \/ cas'[i].cert = NoCert
                            \/ \A b \in Ids \ {i} : cas[b].cert # cas'[i].cert

OneCert ==
    \E i : /\ \A c \in CertIds' \ {i} : c \in CertIds /\ certs'[c].x = certs[c].x
           /\ i \in CertIds' => \/ i \in CertIds /\ certs'[i].x = certs[i].x
                                \/ \A d \in CertIds \ {i} : certs[d].x # certs'[i].x

CertsSame == CertsEvolve /\ NewCertsFit /\ OneCert
CasSame == CasEvolve /\ NewCasFit /\ OneCaCert

\* Locked rows stay, but for CAs that are pending.
LockStep ==
    /\ \A a \in Ids : cas[a].locked /\ ~Pending(a) => a \in Ids'
    /\ \A c \in CertIds : certs[c].locked => c \in CertIds'

Effect == TypeOK' /\ KeysFitCerts' /\ CasSame /\ LinksKept /\ CertsSame /\ LockStep

\* The children of a subtree's members are in the subtree.
LEMMA SubtreeClosed ==
    ASSUME NEW a \in Ids
    PROVE  a \in Subtree(a) /\ Closed(Subtree(a)) /\ Subtree(a) \subseteq Ids
<1>1. a \in Subtree(a) /\ Subtree(a) \subseteq Ids
  BY DEF Subtree
<1>2. ASSUME NEW b \in Ids, cas[b].parent \in Subtree(a)
      PROVE  b \in Subtree(a)
  <2>1. ASSUME NEW S \in SUBSET Ids, a \in S, Closed(S)
        PROVE  b \in S
    <3>1. cas[b].parent \in S
      BY <1>2, <2>1 DEF Subtree
    <3>2. QED
      BY <2>1, <3>1 DEF Closed
  <2>2. QED
    BY <2>1 DEF Subtree
<1>3. QED
  BY <1>1, <1>2 DEF Closed

\* A step that leaves the certificate rows alone satisfies the clauses on them.
LEMMA CertsUnchanged ==
    ASSUME UNCHANGED certs
    PROVE  CertsSame
<1>1. CertIds' = CertIds /\ \A c \in CertIds : certs'[c] = certs[c]
  BY DEF CertIds
<1>2. OneCert
  BY <1>1 DEF OneCert
<1>3. QED
  BY <1>1, <1>2 DEF CertsSame, CertsEvolve, NewCertsFit

\* A step that leaves the CA rows alone satisfies the clauses on them.
LEMMA CasUnchanged ==
    ASSUME UNCHANGED cas
    PROVE  CasSame
<1>1. Ids' = Ids /\ \A j \in Ids : cas'[j] = cas[j]
  BY DEF Ids
<1>2. OneCaCert
  BY <1>1 DEF OneCaCert
<1>3. QED
  BY <1>1, <1>2 DEF CasSame, CasEvolve, NewCasFit, Pending

\* No id is Null.
LEMMA NullFacts ==
    ASSUME TypeOK
    PROVE  Null \notin Ids
<1>1. Ids \subseteq 1 .. MaxCas
  BY DEF TypeOK
<1>2. 1 .. MaxCas \subseteq 0 .. MaxCas
  BY PkiAssumption
<1>3. Null \notin 0 .. MaxCas
  BY PkiAssumption
<1>4. QED
  BY <1>1, <1>2, <1>3

\* Certificates in rows are certificates.
LEMMA RowCerts ==
    ASSUME TypeOK
    PROVE  /\ NoCert \notin world
           /\ \A j \in Ids : cas[j].cert \in world \cup {NoCert}
           /\ \A c \in CertIds : certs[c].x \in world
<1>1. \A x \in world : x # NoCert
  BY NoCertFacts DEF TypeOK, Keys
<1>2. QED
  BY <1>1 DEF TypeOK, CaRows, CertRows

\* The same about the next state.
LEMMA RowCertsNext ==
    ASSUME TypeOK'
    PROVE  /\ NoCert \notin world'
           /\ \A j \in Ids' : cas'[j].cert \in world' \cup {NoCert}
<1>1. \A x \in world' : x # NoCert
  BY NoCertFacts DEF TypeOK, Keys
<1>2. QED
  BY <1>1 DEF TypeOK, CaRows

\* Creating a root CA has the effect every step has.
LEMMA CreateRootEffect ==
    ASSUME TypeOK, KeysFitCerts, NEW s \in Subjects, CreateRoot(s)
    PROVE  Effect
<1>1. TypeOK' /\ UNCHANGED certs /\ CertsSame
  BY CreateRootFacts, CertsUnchanged
<1>2. PICK i : /\ Added(i) /\ Kept(Ids)
               /\ cas'[i].type = "root" /\ cas'[i].parent = Null
               /\ cas'[i].cert \in world' /\ cas'[i].cert \notin world
               /\ cas'[i].cert.key = cas'[i].key /\ ~cas'[i].pending
  BY CreateRootFacts
<1>3. KeysFitCerts'
  BY <1>1, <1>2, RowCertsNext DEF KeysFitCerts, Added, Kept, Pending
<1>4. CasSame
  <2>1. \A b \in Ids : cas[b].cert # cas'[i].cert
    BY <1>1, <1>2, RowCerts, RowCertsNext
  <2>2. QED
    BY <1>2, <2>1 DEF CasSame, CasEvolve, NewCasFit, OneCaCert, Added, Kept, Pending
<1>5. LinksKept /\ LockStep
  BY <1>1, <1>2 DEF LinksKept, LockStep, Added, CertIds
<1>6. QED
  BY <1>1, <1>3, <1>4, <1>5 DEF Effect

\* So has creating a child that is signed at once.
LEMMA CreateChildEffect ==
    ASSUME TypeOK, KeysFitCerts, NEW p, NEW type \in CaTypes, NEW s \in Subjects,
           CreateChild(p, type, s)
    PROVE  Effect
<1>1. TypeOK' /\ UNCHANGED certs /\ CertsSame /\ p \in Ids /\ ~Pending(p)
  BY CreateChildFacts, CertsUnchanged
<1>2. PICK i : /\ Added(i) /\ Kept(Ids \ {p}) /\ OnlyCounted(p)
               /\ cas'[i].parent = p
               /\ cas'[i].cert \in world' /\ cas'[i].cert \notin world
               /\ cas'[i].cert.key = cas'[i].key /\ ~cas'[i].pending
  BY CreateChildFacts
<1>3. \A j \in Ids : /\ cas'[j].type = cas[j].type /\ cas'[j].parent = cas[j].parent
                     /\ cas'[j].cert = cas[j].cert /\ cas'[j].key = cas[j].key
                     /\ cas'[j].pending = cas[j].pending /\ cas'[j].csr = cas[j].csr
  BY <1>1, <1>2 DEF Kept, OnlyCounted, TypeOK, CaRows
<1>4. KeysFitCerts'
  BY <1>1, <1>2, <1>3, RowCertsNext DEF KeysFitCerts, Added, Pending
<1>5. CasSame
  <2>1. \A b \in Ids : cas[b].cert # cas'[i].cert
    BY <1>1, <1>2, RowCerts, RowCertsNext
  <2>2. QED
    BY <1>1, <1>2, <1>3, <2>1 DEF CasSame, CasEvolve, NewCasFit, OneCaCert, Added, Pending
<1>6. LinksKept /\ LockStep
  BY <1>1, <1>2 DEF LinksKept, LockStep, Added, CertIds
<1>7. QED
  BY <1>1, <1>4, <1>5, <1>6 DEF Effect

\* So has creating a child that waits for its certificate.
LEMMA CreatePendingEffect ==
    ASSUME TypeOK, KeysFitCerts, NEW p, NEW type \in CaTypes, NEW s \in Subjects,
           CreatePending(p, type, s)
    PROVE  Effect
<1>1. /\ TypeOK' /\ UNCHANGED certs /\ CertsSame /\ p \in Ids /\ ~Pending(p)
      /\ lastKey' = lastKey + 1
  BY CreatePendingFacts, CertsUnchanged
<1>2. PICK i : /\ Added(i) /\ Kept(Ids) /\ cas'[i].parent = p
               /\ cas'[i].cert = NoCert /\ cas'[i].pending
               /\ cas'[i].key = lastKey + 1 /\ cas'[i].csr = lastKey + 1
  BY CreatePendingFacts
<1>3. lastKey + 1 # NoKey
  <2>1. lastKey + 1 \in 0 .. MaxKeys
    BY <1>1, PkiAssumption DEF TypeOK
  <2>2. QED
    BY <2>1, PkiAssumption
<1>4. KeysFitCerts'
  BY <1>1, <1>2, <1>3 DEF KeysFitCerts, Added, Kept, Pending
<1>5. CasSame
  BY <1>1, <1>2 DEF CasSame, CasEvolve, NewCasFit, OneCaCert, Added, Kept, Pending
<1>6. LinksKept /\ LockStep
  BY <1>1, <1>2 DEF LinksKept, LockStep, Added, CertIds
<1>7. QED
  BY <1>1, <1>4, <1>5, <1>6 DEF Effect

\* So has importing a CA.
LEMMA ImportCaEffect ==
    ASSUME TypeOK, KeysFitCerts, NEW x, NEW key \in OutsideKeys \cup {NoKey},
           NEW override \in CaTypes \cup {Null}, ImportCa(x, key, override)
    PROVE  Effect
<1>1. /\ TypeOK' /\ UNCHANGED certs /\ CertsSame /\ world' = world
      /\ x \in world /\ \A b \in Ids : cas[b].cert # x
  BY ImportCaFacts, CertsUnchanged
<1>2. PICK i : /\ Added(i) /\ Kept(Ids)
               /\ cas'[i].parent # Null =>
                     cas'[i].parent \in Ids /\ ~Pending(cas'[i].parent)
               /\ cas'[i].cert = x /\ ~cas'[i].pending
               /\ cas'[i].key \in {NoKey, x.key}
  BY ImportCaFacts
<1>3. KeysFitCerts'
  BY <1>1, <1>2, RowCerts DEF KeysFitCerts, Added, Kept, Pending
<1>4. CasSame
  BY <1>1, <1>2 DEF CasSame, CasEvolve, NewCasFit, OneCaCert, Added, Kept, Pending
<1>5. LinksKept /\ LockStep
  BY <1>1, <1>2 DEF LinksKept, LockStep, Added, CertIds
<1>6. QED
  BY <1>1, <1>3, <1>4, <1>5 DEF Effect

\* So has making a pending CA's key and CSR anew.
LEMMA RegenerateEffect ==
    ASSUME TypeOK, KeysFitCerts, NEW a, RegenerateCsr(a)
    PROVE  Effect
<1>1. /\ TypeOK' /\ UNCHANGED certs /\ CertsSame /\ lastKey' = lastKey + 1
      /\ a \in Ids /\ Pending(a) /\ Ids' = Ids /\ Kept(Ids \ {a})
      /\ cas'[a] = [cas[a] EXCEPT !.key = lastKey + 1, !.csr = lastKey + 1]
  BY RegenerateFacts, CertsUnchanged
<1>2. lastKey + 1 # NoKey
  <2>1. lastKey + 1 \in 0 .. MaxKeys
    BY <1>1, PkiAssumption DEF TypeOK
  <2>2. QED
    BY <2>1, PkiAssumption
<1>3. /\ cas'[a].cert = cas[a].cert /\ cas'[a].pending = cas[a].pending
      /\ cas'[a].parent = cas[a].parent
      /\ cas'[a].key = lastKey + 1 /\ cas'[a].csr = lastKey + 1
  BY <1>1 DEF TypeOK, CaRows
<1>4. KeysFitCerts'
  BY <1>1, <1>2, <1>3 DEF KeysFitCerts, Kept, Pending
<1>5. CasSame
  BY <1>1, <1>3 DEF CasSame, CasEvolve, NewCasFit, OneCaCert, Kept, Pending
<1>6. LinksKept /\ LockStep
  BY <1>1 DEF LinksKept, LockStep, CertIds
<1>7. QED
  BY <1>1, <1>4, <1>5, <1>6 DEF Effect

\* So has a signature made elsewhere.
LEMMA SignOfflineEffect ==
    ASSUME TypeOK, KeysFitCerts, NEW a, NEW ca \in Outside, NEW reply \in Replies,
           SignOffline(a, ca, reply)
    PROVE  Effect
<1>1. TypeOK' /\ UNCHANGED <<cas, certs>> /\ CertsSame /\ CasSame
  BY SignOfflineFacts, CertsUnchanged, CasUnchanged
<1>2. KeysFitCerts' /\ LinksKept /\ LockStep
  BY <1>1 DEF KeysFitCerts, LinksKept, LockStep, Ids, CertIds, Pending
<1>3. QED
  BY <1>1, <1>2 DEF Effect

\* So has completing a pending CA.
LEMMA CompleteEffect ==
    ASSUME TypeOK, KeysFitCerts, NEW a, NEW x, NEW allow, Complete(a, x, allow)
    PROVE  Effect
<1>1. /\ TypeOK' /\ UNCHANGED <<certs, world>> /\ CertsSame
      /\ a \in Ids /\ Pending(a) /\ Ids' = Ids /\ Kept(Ids \ {a})
      /\ x \in world /\ x.key = cas[a].key /\ \A b \in Ids \ {a} : cas[b].cert # x
  BY CompleteFacts, CertsUnchanged
<1>2. /\ cas'[a].cert = x /\ cas'[a].pending = FALSE /\ cas'[a].parent = cas[a].parent
      /\ cas'[a].key = cas[a].key
  <2>1. cas'[a] = [cas[a] EXCEPT !.cert = x, !.subject = x.subject,
                                 !.pending = FALSE, !.csr = NoKey]
    BY CompleteFacts
  <2>2. cas[a] \in CaRows
    BY <1>1 DEF TypeOK
  <2>3. QED
    BY <2>1, <2>2 DEF CaRows
<1>3. KeysFitCerts'
  BY <1>1, <1>2, RowCerts DEF KeysFitCerts, Kept, Pending
<1>4. CasSame
  BY <1>1, <1>2 DEF CasSame, CasEvolve, NewCasFit, OneCaCert, Kept, Pending
<1>5. LinksKept /\ LockStep
  BY <1>1 DEF LinksKept, LockStep, CertIds
<1>6. QED
  BY <1>1, <1>3, <1>4, <1>5 DEF Effect

\* Nothing hangs below a pending CA.
LEMMA DiscardEffect ==
    ASSUME TypeOK, KeysFitCerts, Lineage, NEW a, Discard(a)
    PROVE  Effect
<1>1. /\ TypeOK' /\ UNCHANGED <<certs, world>> /\ CertsSame
      /\ a \in Ids /\ Pending(a) /\ Ids' = Ids \ {a} /\ Kept(Ids \ {a})
  BY DiscardFacts, CertsUnchanged
<1>2. KeysFitCerts'
  BY <1>1 DEF KeysFitCerts, Kept, Pending
<1>3. CasSame
  BY <1>1 DEF CasSame, CasEvolve, NewCasFit, OneCaCert, Kept, Pending
<1>4. LinksKept
  <2>1. Null \notin Ids
    BY NullFacts
  <2>2. \A j \in Ids : cas[j].parent \in Ids => cas[j].parent # a
    BY <1>1, <2>1 DEF Lineage
  <2>3. \A c \in CertIds : certs[c].ca \in Ids => certs[c].ca # a
    BY <1>1, <2>1 DEF Lineage
  <2>4. QED
    BY <1>1, <2>2, <2>3 DEF LinksKept
<1>5. LockStep
  BY <1>1 DEF LockStep, CertIds
<1>6. QED
  BY <1>1, <1>2, <1>3, <1>4, <1>5 DEF Effect

\* So has deleting a CA with its subtree.
LEMMA DeleteCaEffect ==
    ASSUME TypeOK, KeysFitCerts, NEW a, NEW cascade, DeleteCa(a, cascade)
    PROVE  Effect
<1>1. /\ TypeOK'
      /\ a \in Ids /\ Ids' = Ids \ Subtree(a) /\ Kept(Ids \ Subtree(a))
      /\ CertIds' = CertIds \ CertsBelow(a) /\ \A c \in CertIds' : certs'[c] = certs[c]
      /\ \A b \in Subtree(a) : ~cas[b].locked
      /\ \A c \in CertsBelow(a) : ~certs[c].locked
  BY DeleteCaFacts
<1>2. KeysFitCerts'
  BY <1>1 DEF KeysFitCerts, Kept, Pending
<1>3. CasSame /\ CertsSame
  BY <1>1 DEF CasSame, CasEvolve, NewCasFit, OneCaCert, Kept, Pending,
              CertsSame, CertsEvolve, NewCertsFit, OneCert
<1>4. LinksKept
  <2>1. Closed(Subtree(a))
    BY <1>1, SubtreeClosed
  <2>2. QED
    BY <1>1, <2>1 DEF LinksKept, Closed, CertsBelow
<1>5. LockStep
  BY <1>1 DEF LockStep
<1>6. QED
  BY <1>1, <1>2, <1>3, <1>4, <1>5 DEF Effect

\* So has locking or unlocking a CA.
LEMMA LockCaEffect ==
    ASSUME TypeOK, KeysFitCerts, NEW a, NEW locked \in BOOLEAN, LockCa(a, locked)
    PROVE  Effect
<1>1. /\ TypeOK' /\ UNCHANGED <<certs, world>> /\ CertsSame
      /\ a \in Ids /\ Ids' = Ids /\ Kept(Ids \ {a})
      /\ cas'[a] = [cas[a] EXCEPT !.locked = locked]
  BY LockCaFacts, CertsUnchanged
<1>2. /\ cas'[a].cert = cas[a].cert /\ cas'[a].pending = cas[a].pending
      /\ cas'[a].parent = cas[a].parent /\ cas'[a].type = cas[a].type
      /\ cas'[a].key = cas[a].key /\ cas'[a].csr = cas[a].csr
  BY <1>1 DEF TypeOK, CaRows
<1>3. \A j \in Ids : /\ cas'[j].cert = cas[j].cert /\ cas'[j].key = cas[j].key
                     /\ cas'[j].pending = cas[j].pending /\ cas'[j].csr = cas[j].csr
  BY <1>1, <1>2 DEF Kept
<1>4. KeysFitCerts'
  BY <1>1, <1>3 DEF KeysFitCerts, Pending
<1>5. CasSame
  BY <1>1, <1>2 DEF CasSame, CasEvolve, NewCasFit, OneCaCert, Kept, Pending
<1>6. LinksKept /\ LockStep
  BY <1>1 DEF LinksKept, LockStep, CertIds
<1>7. QED
  BY <1>1, <1>4, <1>5, <1>6 DEF Effect

\* So has signing a device's CSR.
LEMMA SignCsrEffect ==
    ASSUME TypeOK, KeysFitCerts, NEW a, NEW s \in Subjects, SignCsr(a, s)
    PROVE  Effect
<1>1. /\ TypeOK' /\ Ids' = Ids /\ Kept(Ids \ {a}) /\ OnlyCounted(a)
      /\ a \in Ids /\ ~Pending(a) /\ cas[a].key # NoKey /\ cas[a].type # "root"
  BY SignCsrFacts
<1>2. PICK i : /\ AddedCert(i) /\ KeptCerts(CertIds)
               /\ certs'[i].ca = a /\ certs'[i].managed
               /\ certs'[i].x \in world' /\ certs'[i].x \notin world
               /\ certs'[i].x.issuer = cas[a].cert.subject
               /\ certs'[i].x.signer = cas[a].key
  BY SignCsrFacts
<1>3. \A j \in Ids : /\ cas'[j].type = cas[j].type /\ cas'[j].parent = cas[j].parent
                     /\ cas'[j].cert = cas[j].cert /\ cas'[j].key = cas[j].key
                     /\ cas'[j].pending = cas[j].pending /\ cas'[j].csr = cas[j].csr
  BY <1>1 DEF Kept, OnlyCounted, TypeOK, CaRows
<1>4. KeysFitCerts'
  BY <1>1, <1>3 DEF KeysFitCerts, Pending
<1>5. CasSame
  <2>1. OneCaCert
    BY <1>1, <1>3 DEF OneCaCert
  <2>2. QED
    BY <1>1, <1>3, <2>1 DEF CasSame, CasEvolve, NewCasFit, Pending
<1>6. CertsSame
  <2>1. \A d \in CertIds : certs[d].x # certs'[i].x
    BY <1>2, RowCerts
  <2>2. Signed(a, certs'[i].x)
    BY <1>1, <1>2 DEF Signed, KeysFitCerts, Pending
  <2>3. a # Null
    BY <1>1, NullFacts
  <2>4. QED
    BY <1>1, <1>2, <2>1, <2>2, <2>3
       DEF CertsSame, CertsEvolve, NewCertsFit, OneCert, AddedCert, KeptCerts
<1>7. LinksKept /\ LockStep
  BY <1>1, <1>2 DEF LinksKept, LockStep, AddedCert
<1>8. QED
  BY <1>1, <1>4, <1>5, <1>6, <1>7 DEF Effect

\* So has importing an observed certificate.
LEMMA ImportCertEffect ==
    ASSUME TypeOK, KeysFitCerts, NEW x, NEW chosen, ImportCert(x, chosen)
    PROVE  Effect
<1>1. /\ TypeOK' /\ UNCHANGED <<cas, world>> /\ CasSame
      /\ x \in world /\ \A c \in CertIds : certs[c].x # x
      /\ chosen # Null => chosen \in Ids /\ ~Pending(chosen) /\ Signed(chosen, x)
  BY ImportCertFacts, CasUnchanged
<1>2. PICK i : /\ AddedCert(i) /\ KeptCerts(CertIds)
               /\ certs'[i].ca = chosen /\ ~certs'[i].managed /\ certs'[i].x = x
  BY ImportCertFacts
<1>3. KeysFitCerts' /\ Ids' = Ids
  BY <1>1 DEF KeysFitCerts, Ids, Pending
<1>4. CertsSame
  BY <1>1, <1>2, <1>3
     DEF CertsSame, CertsEvolve, NewCertsFit, OneCert, AddedCert, KeptCerts
<1>5. LinksKept /\ LockStep
  BY <1>2, <1>3 DEF LinksKept, LockStep, AddedCert
<1>6. QED
  BY <1>1, <1>3, <1>4, <1>5 DEF Effect

\* So has deleting a certificate.
LEMMA DeleteCertEffect ==
    ASSUME TypeOK, KeysFitCerts, NEW c, DeleteCert(c)
    PROVE  Effect
<1>1. /\ TypeOK' /\ UNCHANGED cas /\ CasSame
      /\ c \in CertIds /\ ~certs[c].locked
      /\ CertIds' = CertIds \ {c} /\ KeptCerts(CertIds \ {c})
  BY DeleteCertFacts, CasUnchanged
<1>2. KeysFitCerts' /\ Ids' = Ids
  BY <1>1 DEF KeysFitCerts, Ids, Pending
<1>3. CertsSame
  BY <1>1 DEF CertsSame, CertsEvolve, NewCertsFit, OneCert, KeptCerts
<1>4. LinksKept /\ LockStep
  BY <1>1, <1>2 DEF LinksKept, LockStep
<1>5. QED
  BY <1>1, <1>2, <1>3, <1>4 DEF Effect

\* A step that changes neither what a certificate is nor where it hangs.
LEMMA CertMarkEffect ==
    ASSUME TypeOK', KeysFitCerts, UNCHANGED <<cas, world>>, NEW c \in CertIds,
           CertIds' = CertIds, KeptCerts(CertIds \ {c}),
           certs'[c].ca = certs[c].ca, certs'[c].x = certs[c].x,
           certs'[c].managed = certs[c].managed
    PROVE  Effect
<1>1. KeysFitCerts' /\ Ids' = Ids /\ CasSame
  BY CasUnchanged DEF KeysFitCerts, Ids, Pending
<1>2. CertsSame
  BY DEF CertsSame, CertsEvolve, NewCertsFit, OneCert, KeptCerts
<1>3. LinksKept /\ LockStep
  BY <1>1 DEF LinksKept, LockStep
<1>4. QED
  BY <1>1, <1>2, <1>3 DEF Effect

\* So has locking or unlocking a certificate.
LEMMA LockCertEffect ==
    ASSUME TypeOK, KeysFitCerts, NEW c, NEW locked \in BOOLEAN, LockCert(c, locked)
    PROVE  Effect
<1>1. /\ TypeOK' /\ UNCHANGED <<cas, world>> /\ c \in CertIds
      /\ CertIds' = CertIds /\ KeptCerts(CertIds \ {c})
      /\ certs'[c] = [certs[c] EXCEPT !.locked = locked]
  BY LockCertFacts
<1>2. /\ certs'[c].ca = certs[c].ca /\ certs'[c].x = certs[c].x
      /\ certs'[c].managed = certs[c].managed
  BY <1>1 DEF TypeOK, CertRows
<1>3. QED
  BY <1>1, <1>2, CertMarkEffect

\* So has superseding a certificate.
LEMMA ReplaceCertEffect ==
    ASSUME TypeOK, KeysFitCerts, NEW c, NEW by, ReplaceCert(c, by)
    PROVE  Effect
<1>1. /\ TypeOK' /\ UNCHANGED <<cas, world>> /\ c \in CertIds
      /\ CertIds' = CertIds /\ KeptCerts(CertIds \ {c})
      /\ certs'[c] = [certs[c] EXCEPT !.replacedBy = by]
  BY ReplaceCertFacts
<1>2. /\ certs'[c].ca = certs[c].ca /\ certs'[c].x = certs[c].x
      /\ certs'[c].managed = certs[c].managed
  BY <1>1 DEF TypeOK, CertRows
<1>3. QED
  BY <1>1, <1>2, CertMarkEffect

\* So has doing nothing.
LEMMA StutterEffect ==
    ASSUME TypeOK, KeysFitCerts, UNCHANGED vars
    PROVE  Effect
<1>1. UNCHANGED <<cas, certs, world, lastKey>>
  BY DEF vars
<1>2. Ids' = Ids /\ CertIds' = CertIds /\ CasSame /\ CertsSame
  BY <1>1, CertsUnchanged, CasUnchanged DEF Ids, CertIds
<1>3. CaRows' = CaRows /\ CertRows' = CertRows /\ X509(Keys)' = X509(Keys)
  BY <1>1, RowsSame
<1>4. TypeOK'
  BY <1>1, <1>2, <1>3 DEF TypeOK
<1>5. KeysFitCerts' /\ LinksKept /\ LockStep
  BY <1>1, <1>2 DEF KeysFitCerts, LinksKept, LockStep, Pending
<1>6. QED
  BY <1>2, <1>4, <1>5 DEF Effect

\* Every step has the effect.
LEMMA StepEffect ==
    ASSUME TypeOK, KeysFitCerts, Lineage, [Next]_vars
    PROVE  Effect
<1>1. CASE CaRequest
  <2>1. ASSUME NEW s \in Subjects, CreateRoot(s) PROVE Effect
    BY <2>1, CreateRootEffect
  <2>2. ASSUME NEW p \in Ids, NEW type \in AskedTypes, NEW s \in Subjects,
               CreateChild(p, type, s) \/ CreatePending(p, type, s)
        PROVE  Effect
    <3>1. type \in CaTypes
      BY PkiAssumption
    <3>2. QED
      BY <2>2, <3>1, CreateChildEffect, CreatePendingEffect
  <2>3. ASSUME NEW a \in Ids, RegenerateCsr(a) \/ Discard(a) PROVE Effect
    BY <2>3, RegenerateEffect, DiscardEffect
  <2>4. ASSUME NEW a \in Ids, NEW x \in world, NEW allow \in BOOLEAN, Complete(a, x, allow)
        PROVE  Effect
    BY <2>4, CompleteEffect
  <2>5. ASSUME NEW x \in world, NEW key \in OutsideKeys \cup {NoKey},
               NEW override \in AskedTypes \cup {Null}, ImportCa(x, key, override)
        PROVE  Effect
    <3>1. override \in CaTypes \cup {Null}
      BY PkiAssumption
    <3>2. QED
      BY <2>5, <3>1, ImportCaEffect
  <2>6. ASSUME NEW a \in Ids, NEW b \in BOOLEAN, DeleteCa(a, b) \/ LockCa(a, b) PROVE Effect
    BY <2>6, DeleteCaEffect, LockCaEffect
  <2>7. QED
    BY <1>1, <2>1, <2>2, <2>3, <2>4, <2>5, <2>6 DEF CaRequest
<1>2. CASE CertRequest
  <2>1. ASSUME NEW a \in Ids, NEW s \in Subjects, SignCsr(a, s) PROVE Effect
    BY <2>1, SignCsrEffect
  <2>2. ASSUME NEW x \in world, NEW a \in Ids \cup {Null}, ImportCert(x, a) PROVE Effect
    BY <2>2, ImportCertEffect
  <2>3. ASSUME NEW c \in CertIds, DeleteCert(c) PROVE Effect
    BY <2>3, DeleteCertEffect
  <2>4. ASSUME NEW c \in CertIds, NEW b \in BOOLEAN, LockCert(c, b) PROVE Effect
    BY <2>4, LockCertEffect
  <2>5. ASSUME NEW c \in CertIds, NEW by \in CertIds \cup {Null}, ReplaceCert(c, by)
        PROVE  Effect
    BY <2>5, ReplaceCertEffect
  <2>6. QED
    BY <1>2, <2>1, <2>2, <2>3, <2>4, <2>5 DEF CertRequest
<1>3. CASE OfflineSigner
  BY <1>3, SignOfflineEffect DEF OfflineSigner
<1>4. CASE UNCHANGED vars
  BY <1>4, StutterEffect
<1>5. QED
  BY <1>1, <1>2, <1>3, <1>4 DEF Next

-----------------------------------------------------------------------------
(* What any step does to the serial counters.                              *)

\* The serial of a new certificate is the one its CA was about to hand out.
Taken(p, x) == x.serial = cas[p].counter /\ cas'[p].counter = cas[p].counter + 1

\* At most one certificate is issued, with its issuer's next serial: the one of a
\* new child of a CA whose key is here, or that of a device.
IssuesOne ==
    \E x :
        /\ \A b \in Ids' \ Ids :
              cas'[b].parent \in Ids /\ cas'[b].counter < ImportBase
                    /\ cas[cas'[b].parent].key # NoKey
              => cas'[b].cert = x /\ Taken(cas'[b].parent, x)
        /\ \A c \in CertIds' \ CertIds :
              certs'[c].managed => certs'[c].x = x /\ Taken(certs'[c].ca, x)

\* Only a new child of a CA whose key is elsewhere starts to wait.
PendingStep ==
    \A j \in Ids' :
        cas'[j].pending =>
            \/ j \in Ids /\ cas[j].pending
            \/ cas'[j].parent \in Ids => cas[cas'[j].parent].key = NoKey

Counts ==
    /\ \A j \in Ids \cap Ids' : cas[j].counter <= cas'[j].counter
    /\ IssuesOne /\ PendingStep

\* A step that inserts no rows and leaves the counters alone issues nothing.
LEMMA QuietCounts ==
    ASSUME TypeOK, Ids' \subseteq Ids, CertIds' \subseteq CertIds,
           \A j \in Ids' : /\ cas'[j].counter = cas[j].counter
                           /\ cas'[j].pending => cas[j].pending
    PROVE  Counts
<1>1. \A j \in Ids : cas[j].counter \in Nat
  BY DEF TypeOK, CaRows
<1>2. IssuesOne /\ PendingStep
  BY DEF IssuesOne, PendingStep
<1>3. \A j \in Ids \cap Ids' : cas[j].counter <= cas'[j].counter
  BY <1>1
<1>4. QED
  BY <1>2, <1>3 DEF Counts

\* So does a step that leaves the CAs alone and makes no managed certificate.
LEMMA CertStepCounts ==
    ASSUME TypeOK, UNCHANGED cas,
           \A c \in CertIds' \ CertIds : ~certs'[c].managed
    PROVE  Counts
<1>1. \A j \in Ids : cas[j].counter \in Nat
  BY DEF TypeOK, CaRows
<1>2. Ids' = Ids /\ \A j \in Ids : cas'[j] = cas[j]
  BY DEF Ids
<1>3. IssuesOne /\ PendingStep
  BY <1>2 DEF IssuesOne, PendingStep
<1>4. \A j \in Ids \cap Ids' : cas[j].counter <= cas'[j].counter
  BY <1>1, <1>2
<1>5. QED
  BY <1>3, <1>4 DEF Counts

\* A root CA is nobody's child.
LEMMA CreateRootCounts ==
    ASSUME TypeOK, NEW s \in Subjects, CreateRoot(s)
    PROVE  Counts
<1>1. PICK i : Added(i) /\ Kept(Ids) /\ cas'[i].parent = Null /\ ~cas'[i].pending
  BY CreateRootFacts
<1>2. Null \notin Ids /\ CertIds' = CertIds
  BY NullFacts, CreateRootFacts DEF CertIds
<1>3. \A j \in Ids : cas[j].counter \in Nat
  BY DEF TypeOK, CaRows
<1>4. IssuesOne /\ PendingStep
  BY <1>1, <1>2 DEF IssuesOne, PendingStep, Added, Kept
<1>5. \A j \in Ids \cap Ids' : cas[j].counter <= cas'[j].counter
  BY <1>1, <1>3 DEF Kept
<1>6. QED
  BY <1>4, <1>5 DEF Counts

\* A child's certificate uses up a serial of its parent.
LEMMA CreateChildCounts ==
    ASSUME TypeOK, KeysFitCerts, NEW p, NEW type \in CaTypes, NEW s \in Subjects,
           CreateChild(p, type, s)
    PROVE  Counts
<1>1. p \in Ids /\ CertIds' = CertIds
  BY CreateChildFacts DEF CertIds
<1>2. PICK i : /\ Added(i) /\ Kept(Ids \ {p}) /\ OnlyCounted(p)
               /\ cas'[i].parent = p /\ ~cas'[i].pending
               /\ cas'[i].cert.serial = cas[p].counter
  BY CreateChildFacts
<1>3. \A j \in Ids : cas[j] \in CaRows /\ cas[j].counter \in Nat
  BY DEF TypeOK, CaRows
<1>4. /\ cas'[p].counter = cas[p].counter + 1 /\ cas'[p].pending = cas[p].pending
  BY <1>1, <1>2, <1>3 DEF OnlyCounted, CaRows
<1>5. IssuesOne
  <2>1. Taken(p, cas'[i].cert)
    BY <1>2, <1>4 DEF Taken
  <2>2. QED
    BY <1>1, <1>2, <2>1 DEF IssuesOne, Added
<1>6. PendingStep
  BY <1>1, <1>2, <1>4 DEF PendingStep, Added, Kept
<1>7. \A j \in Ids \cap Ids' : cas[j].counter <= cas'[j].counter
  BY <1>1, <1>2, <1>3, <1>4 DEF Kept
<1>8. QED
  BY <1>5, <1>6, <1>7 DEF Counts

\* A pending child's certificate will not be its parent's doing.
LEMMA CreatePendingCounts ==
    ASSUME TypeOK, NEW p, NEW type \in CaTypes, NEW s \in Subjects,
           CreatePending(p, type, s)
    PROVE  Counts
<1>1. p \in Ids /\ cas[p].key = NoKey /\ CertIds' = CertIds
  BY CreatePendingFacts DEF CertIds
<1>2. PICK i : Added(i) /\ Kept(Ids) /\ cas'[i].parent = p
  BY CreatePendingFacts
<1>3. \A j \in Ids : cas[j].counter \in Nat
  BY DEF TypeOK, CaRows
<1>4. IssuesOne /\ PendingStep
  BY <1>1, <1>2 DEF IssuesOne, PendingStep, Added, Kept
<1>5. \A j \in Ids \cap Ids' : cas[j].counter <= cas'[j].counter
  BY <1>2, <1>3 DEF Kept
<1>6. QED
  BY <1>4, <1>5 DEF Counts

\* An imported CA is recognised by its counter.
LEMMA ImportCaCounts ==
    ASSUME TypeOK, KeysFitCerts, NEW x, NEW key \in OutsideKeys \cup {NoKey},
           NEW override \in CaTypes \cup {Null}, ImportCa(x, key, override)
    PROVE  Counts
<1>1. PICK i : Added(i) /\ Kept(Ids) /\ ~cas'[i].pending /\ cas'[i].counter = ImportBase
  BY ImportCaFacts
<1>2. CertIds' = CertIds
  BY ImportCaFacts DEF CertIds
<1>3. \A j \in Ids : cas[j].counter \in Nat
  BY DEF TypeOK, CaRows
<1>4. ~(ImportBase < ImportBase)
  BY PkiAssumption
<1>5. IssuesOne /\ PendingStep
  BY <1>1, <1>2, <1>4 DEF IssuesOne, PendingStep, Added, Kept
<1>6. \A j \in Ids \cap Ids' : cas[j].counter <= cas'[j].counter
  BY <1>1, <1>3 DEF Kept
<1>7. QED
  BY <1>5, <1>6 DEF Counts

\* A device's certificate uses up a serial of its CA.
LEMMA SignCsrCounts ==
    ASSUME TypeOK, KeysFitCerts, NEW a, NEW s \in Subjects, SignCsr(a, s)
    PROVE  Counts
<1>1. a \in Ids /\ Ids' = Ids /\ Kept(Ids \ {a}) /\ OnlyCounted(a)
  BY SignCsrFacts
<1>2. PICK i : AddedCert(i) /\ certs'[i].ca = a /\ certs'[i].x.serial = cas[a].counter
  BY SignCsrFacts
<1>3. \A j \in Ids : cas[j] \in CaRows /\ cas[j].counter \in Nat
  BY DEF TypeOK, CaRows
<1>4. cas'[a].counter = cas[a].counter + 1 /\ cas'[a].pending = cas[a].pending
  BY <1>1, <1>3 DEF OnlyCounted, CaRows
<1>5. IssuesOne
  <2>1. Taken(a, certs'[i].x)
    BY <1>2, <1>4 DEF Taken
  <2>2. QED
    BY <1>1, <1>2, <2>1 DEF IssuesOne, AddedCert
<1>6. PendingStep
  BY <1>1, <1>4 DEF PendingStep, Kept
<1>7. \A j \in Ids \cap Ids' : cas[j].counter <= cas'[j].counter
  BY <1>1, <1>3, <1>4 DEF Kept
<1>8. QED
  BY <1>5, <1>6, <1>7 DEF Counts

\* The other CA operations issue nothing.
LEMMA QuietCaSteps ==
    ASSUME TypeOK, NEW a, NEW b \in BOOLEAN,
           RegenerateCsr(a) \/ Discard(a) \/ DeleteCa(a, b) \/ LockCa(a, b)
    PROVE  Counts
<1>1. \A j \in Ids : cas[j] \in CaRows
  BY DEF TypeOK
<1>2. CASE RegenerateCsr(a)
  <2>1. /\ a \in Ids /\ Ids' = Ids /\ CertIds' = CertIds /\ Kept(Ids \ {a})
        /\ cas'[a] = [cas[a] EXCEPT !.key = lastKey + 1, !.csr = lastKey + 1]
    BY <1>2, RegenerateFacts DEF CertIds
  <2>2. cas'[a].counter = cas[a].counter /\ cas'[a].pending = cas[a].pending
    BY <1>1, <2>1 DEF CaRows
  <2>3. QED
    BY <2>1, <2>2, QuietCounts DEF Kept
<1>3. CASE Discard(a)
  <2>1. Ids' = Ids \ {a} /\ CertIds' = CertIds /\ Kept(Ids \ {a})
    BY <1>3, DiscardFacts DEF CertIds
  <2>2. QED
    BY <2>1, QuietCounts DEF Kept
<1>4. CASE DeleteCa(a, b)
  <2>1. Ids' = Ids \ Subtree(a) /\ Kept(Ids \ Subtree(a)) /\ CertIds' = CertIds \ CertsBelow(a)
    BY <1>4, DeleteCaFacts
  <2>2. QED
    BY <2>1, QuietCounts DEF Kept
<1>5. CASE LockCa(a, b)
  <2>1. /\ a \in Ids /\ Ids' = Ids /\ CertIds' = CertIds /\ Kept(Ids \ {a})
        /\ cas'[a] = [cas[a] EXCEPT !.locked = b]
    BY <1>5, LockCaFacts DEF CertIds
  <2>2. cas'[a].counter = cas[a].counter /\ cas'[a].pending = cas[a].pending
    BY <1>1, <2>1 DEF CaRows
  <2>3. QED
    BY <2>1, <2>2, QuietCounts DEF Kept
<1>6. QED
  BY <1>2, <1>3, <1>4, <1>5

\* Nor does a completion: the certificate was made elsewhere.
LEMMA CompleteCounts ==
    ASSUME TypeOK, NEW a, NEW x, NEW allow, Complete(a, x, allow)
    PROVE  Counts
<1>1. /\ a \in Ids /\ Ids' = Ids /\ CertIds' = CertIds /\ Kept(Ids \ {a}) /\ cas[a] \in CaRows
      /\ cas'[a] = [cas[a] EXCEPT !.cert = x, !.subject = x.subject,
                                  !.pending = FALSE, !.csr = NoKey]
  BY CompleteFacts DEF CertIds, TypeOK
<1>2. cas'[a].counter = cas[a].counter /\ ~cas'[a].pending
  BY <1>1 DEF CaRows
<1>3. QED
  BY <1>1, <1>2, QuietCounts DEF Kept

\* Nor do the other certificate operations.
LEMMA QuietCertSteps ==
    ASSUME TypeOK, NEW c, NEW b \in BOOLEAN, NEW by,
           DeleteCert(c) \/ LockCert(c, b) \/ ReplaceCert(c, by)
    PROVE  Counts
<1>1. UNCHANGED cas /\ CertIds' \subseteq CertIds
  BY DeleteCertFacts, LockCertFacts, ReplaceCertFacts
<1>2. QED
  BY <1>1, CertStepCounts

\* Every step counts the certificates it issues.
LEMMA StepCounts ==
    ASSUME TypeOK, KeysFitCerts, [Next]_vars
    PROVE  Counts
<1>1. CASE CaRequest
  <2>1. ASSUME NEW s \in Subjects, CreateRoot(s) PROVE Counts
    BY <2>1, CreateRootCounts
  <2>2. ASSUME NEW p \in Ids, NEW type \in AskedTypes, NEW s \in Subjects,
               CreateChild(p, type, s) \/ CreatePending(p, type, s)
        PROVE  Counts
    <3>1. type \in CaTypes
      BY PkiAssumption
    <3>2. QED
      BY <2>2, <3>1, CreateChildCounts, CreatePendingCounts
  <2>3. ASSUME NEW a \in Ids, RegenerateCsr(a) \/ Discard(a) PROVE Counts
    BY <2>3, QuietCaSteps
  <2>4. ASSUME NEW a \in Ids, NEW x \in world, NEW allow \in BOOLEAN, Complete(a, x, allow)
        PROVE  Counts
    BY <2>4, CompleteCounts
  <2>5. ASSUME NEW x \in world, NEW key \in OutsideKeys \cup {NoKey},
               NEW override \in AskedTypes \cup {Null}, ImportCa(x, key, override)
        PROVE  Counts
    <3>1. override \in CaTypes \cup {Null}
      BY PkiAssumption
    <3>2. QED
      BY <2>5, <3>1, ImportCaCounts
  <2>6. ASSUME NEW a \in Ids, NEW b \in BOOLEAN, DeleteCa(a, b) \/ LockCa(a, b) PROVE Counts
    BY <2>6, QuietCaSteps
  <2>7. QED
    BY <1>1, <2>1, <2>2, <2>3, <2>4, <2>5, <2>6 DEF CaRequest
<1>2. CASE CertRequest
  <2>1. ASSUME NEW a \in Ids, NEW s \in Subjects, SignCsr(a, s) PROVE Counts
    BY <2>1, SignCsrCounts
  <2>2. ASSUME NEW x \in world, NEW a \in Ids \cup {Null}, ImportCert(x, a) PROVE Counts
    <3>1. PICK i : AddedCert(i) /\ ~certs'[i].managed
      BY <2>2, ImportCertFacts
    <3>2. UNCHANGED cas
      BY <2>2, ImportCertFacts
    <3>3. QED
      BY <3>1, <3>2, CertStepCounts DEF AddedCert
  <2>3. ASSUME NEW c \in CertIds, NEW b \in BOOLEAN, DeleteCert(c) \/ LockCert(c, b)
        PROVE  Counts
    BY <2>3, QuietCertSteps
  <2>4. ASSUME NEW c \in CertIds, NEW by \in CertIds \cup {Null}, ReplaceCert(c, by)
        PROVE  Counts
    BY <2>4, QuietCertSteps
  <2>5. QED
    BY <1>2, <2>1, <2>2, <2>3, <2>4 DEF CertRequest
<1>3. CASE OfflineSigner
  <2>1. PICK a \in Ids, ca \in Outside, reply \in Replies : SignOffline(a, ca, reply)
    BY <1>3 DEF OfflineSigner
  <2>2. UNCHANGED <<cas, certs>>
    BY <2>1 DEF SignOffline
  <2>3. QED
    BY <2>2, CertStepCounts DEF CertIds
<1>4. CASE UNCHANGED vars
  BY <1>4, CertStepCounts DEF vars, CertIds
<1>5. QED
  BY <1>1, <1>2, <1>3, <1>4 DEF Next

-----------------------------------------------------------------------------
(* The invariants.                                                         *)

\* A step keeps the forest.
LEMMA LineageStep ==
    ASSUME TypeOK, Lineage, Effect
    PROVE  Lineage'
<1>1. CasEvolve /\ NewCasFit /\ LinksKept /\ CertsEvolve /\ NewCertsFit /\ TypeOK'
  BY DEF Effect, CasSame, CertsSame
<1>2. Ids \subseteq Nat
  BY PkiAssumption DEF TypeOK
<1>3. ASSUME NEW j \in Ids', cas'[j].parent # Null
      PROVE  cas'[j].parent \in Ids' /\ cas'[j].parent < j /\ ~Pending(cas[j].parent)'
  <2>1. CASE j \in Ids
    <3>1. cas'[j].parent = cas[j].parent
      BY <1>1, <1>3, <2>1 DEF CasEvolve
    <3>2. cas[j].parent \in Ids /\ cas[j].parent < j /\ ~Pending(cas[j].parent)
      BY <1>3, <2>1, <3>1 DEF Lineage
    <3>3. cas[j].parent \in Ids'
      BY <1>1, <1>3, <2>1, <3>2 DEF LinksKept
    <3>4. ~cas'[cas[j].parent].pending
      BY <1>1, <3>2, <3>3 DEF CasEvolve
    <3>5. QED
      BY <3>1, <3>2, <3>3, <3>4 DEF Pending
  <2>2. CASE j \notin Ids
    <3>1. /\ cas'[j].parent \in Ids \cap Ids' /\ ~Pending(cas'[j].parent)
          /\ \A i \in Ids : i < j
      BY <1>1, <1>3, <2>2 DEF NewCasFit
    <3>2. ~cas'[cas'[j].parent].pending
      BY <1>1, <3>1 DEF CasEvolve
    <3>3. QED
      BY <3>1, <3>2 DEF Pending
  <2>3. QED
    BY <2>1, <2>2
<1>4. ASSUME NEW c \in CertIds', certs'[c].ca # Null
      PROVE  certs'[c].ca \in Ids' /\ ~Pending(certs[c].ca)'
  <2>1. CASE c \in CertIds
    <3>1. certs'[c].ca = certs[c].ca
      BY <1>1, <1>4, <2>1 DEF CertsEvolve
    <3>2. certs[c].ca \in Ids /\ ~Pending(certs[c].ca)
      BY <1>4, <2>1, <3>1 DEF Lineage
    <3>3. certs[c].ca \in Ids'
      BY <1>1, <1>4, <2>1, <3>2 DEF LinksKept
    <3>4. ~cas'[certs[c].ca].pending
      BY <1>1, <3>2, <3>3 DEF CasEvolve
    <3>5. QED
      BY <3>1, <3>3, <3>4 DEF Pending
  <2>2. CASE c \notin CertIds
    <3>1. certs'[c].ca \in Ids \cap Ids' /\ ~Pending(certs'[c].ca)
      BY <1>1, <1>4, <2>2 DEF NewCertsFit
    <3>2. ~cas'[certs'[c].ca].pending
      BY <1>1, <3>1 DEF CasEvolve
    <3>3. QED
      BY <3>1, <3>2 DEF Pending
  <2>3. QED
    BY <2>1, <2>2
<1>5. QED
  BY <1>3, <1>4 DEF Lineage

\* A step gives no certificate a second row.
LEMMA OneRowStep ==
    ASSUME OneRowPerCert, Effect
    PROVE  OneRowPerCert'
<1>1. ASSUME NEW a \in Ids', NEW b \in Ids', cas'[a].cert = cas'[b].cert, a # b
      PROVE  cas'[a].cert = NoCert
  <2>1. PICK i :
           /\ \A j \in Ids' \ {i} : j \in Ids /\ cas'[j].cert = cas[j].cert
           /\ i \in Ids' => \/ i \in Ids /\ cas'[i].cert = cas[i].cert
                            \/ cas'[i].cert = NoCert
                            \/ \A k \in Ids \ {i} : cas[k].cert # cas'[i].cert
    BY DEF Effect, CasSame, OneCaCert
  <2>2. CASE a # i /\ b # i
    BY <1>1, <2>1, <2>2 DEF OneRowPerCert
  <2>3. CASE a = i
    BY <1>1, <2>1, <2>3 DEF OneRowPerCert
  <2>4. CASE b = i
    BY <1>1, <2>1, <2>4 DEF OneRowPerCert
  <2>5. QED
    BY <2>2, <2>3, <2>4
<1>2. ASSUME NEW c \in CertIds', NEW d \in CertIds', certs'[c].x = certs'[d].x
      PROVE  c = d
  <2>1. PICK i :
           /\ \A e \in CertIds' \ {i} : e \in CertIds /\ certs'[e].x = certs[e].x
           /\ i \in CertIds' => \/ i \in CertIds /\ certs'[i].x = certs[i].x
                                \/ \A e \in CertIds \ {i} : certs[e].x # certs'[i].x
    BY DEF Effect, CertsSame, OneCert
  <2>2. CASE c # i /\ d # i
    BY <1>2, <2>1, <2>2 DEF OneRowPerCert
  <2>3. CASE c = i
    BY <1>2, <2>1, <2>3 DEF OneRowPerCert
  <2>4. CASE d = i
    BY <1>2, <2>1, <2>4 DEF OneRowPerCert
  <2>5. QED
    BY <2>2, <2>3, <2>4
<1>3. QED
  BY <1>1, <1>2 DEF OneRowPerCert

\* A CA that certificates are linked to keeps its certificate and its type.
LEMMA LeavesChainStep ==
    ASSUME Lineage, LeavesChain, Effect
    PROVE  LeavesChain'
<1> USE DEF Signed
<1>1. CasEvolve /\ LinksKept /\ CertsEvolve /\ NewCertsFit
  BY DEF Effect, CasSame, CertsSame
<1>2. ASSUME NEW c \in CertIds'
      PROVE  /\ certs'[c].ca # Null =>
                   /\ cas'[certs'[c].ca].cert # NoCert
                   /\ cas'[certs'[c].ca].cert.key = certs'[c].x.signer
             /\ certs'[c].managed =>
                   /\ certs'[c].ca # Null
                   /\ cas'[certs'[c].ca].cert.subject = certs'[c].x.issuer
                   /\ cas'[certs'[c].ca].type # "root"
  <2> DEFINE a == certs'[c].ca
  <2>1. /\ a # Null => a \in Ids \cap Ids' /\ ~Pending(a) /\ Signed(a, certs'[c].x)
        /\ certs'[c].managed => /\ a # Null /\ cas[a].type # "root"
                                /\ cas[a].cert.subject = certs'[c].x.issuer
    <3>1. CASE c \in CertIds
      <4>1. /\ certs'[c].ca = certs[c].ca /\ certs'[c].x = certs[c].x
            /\ certs'[c].managed = certs[c].managed
        BY <1>1, <1>2, <3>1 DEF CertsEvolve
      <4>2. certs[c].ca # Null => certs[c].ca \in Ids \cap Ids' /\ ~Pending(certs[c].ca)
        BY <1>1, <1>2, <3>1 DEF Lineage, LinksKept
      <4>3. /\ certs[c].ca # Null => Signed(certs[c].ca, certs[c].x)
            /\ certs[c].managed => /\ certs[c].ca # Null
                                   /\ cas[certs[c].ca].cert.subject = certs[c].x.issuer
                                   /\ cas[certs[c].ca].type # "root"
        BY <3>1 DEF LeavesChain
      <4>4. QED
        BY <4>1, <4>2, <4>3
    <3>2. CASE c \notin CertIds
      BY <1>1, <1>2, <3>2 DEF NewCertsFit
    <3>3. QED
      BY <3>1, <3>2
  <2>2. a # Null => cas'[a].cert = cas[a].cert /\ cas'[a].type = cas[a].type
    BY <1>1, <2>1 DEF CasEvolve
  <2> HIDE DEF a
  <2>3. /\ a # Null => cas'[a].cert # NoCert /\ cas'[a].cert.key = certs'[c].x.signer
        /\ certs'[c].managed => /\ a # Null
                                /\ cas'[a].cert.subject = certs'[c].x.issuer
                                /\ cas'[a].type # "root"
    BY <2>1, <2>2
  <2>4. QED
    BY <2>3 DEF a
<1>3. QED
  BY <1>2 DEF LeavesChain

\* A pending CA waits under one whose key is elsewhere: when its certificate
\* comes, no CA here has issued it.
PendingBelowKeyless ==
    \A b \in Ids : Pending(b) /\ cas[b].parent # Null => cas[cas[b].parent].key = NoKey

\* A step keeps the pending CAs below CAs without a key.
LEMMA PendingBelowStep ==
    ASSUME Lineage, PendingBelowKeyless, Effect, Counts
    PROVE  PendingBelowKeyless'
<1>1. CasEvolve /\ NewCasFit /\ LinksKept
  BY DEF Effect, CasSame
<1>2. ASSUME NEW j \in Ids', cas'[j].pending, cas'[j].parent # Null
      PROVE  cas'[cas'[j].parent].key = NoKey
  <2>1. PICK p : p = cas'[j].parent
    OBVIOUS
  <2>2. p \in Ids \cap Ids' /\ ~Pending(p)
    <3>1. CASE j \in Ids
      <4>1. cas[j].parent = p
        BY <1>1, <2>1, <3>1 DEF CasEvolve
      <4>2. p \in Ids /\ ~Pending(p)
        BY <1>2, <2>1, <3>1, <4>1 DEF Lineage
      <4>3. QED
        BY <1>1, <1>2, <3>1, <4>1, <4>2 DEF LinksKept
    <3>2. CASE j \notin Ids
      BY <1>1, <1>2, <2>1, <3>2 DEF NewCasFit
    <3>3. QED
      BY <3>1, <3>2
  <2>3. cas[p].key = NoKey
    <3>1. CASE j \in Ids /\ cas[j].pending
      <4>1. cas[j].parent = p
        BY <1>1, <1>2, <2>1, <3>1 DEF CasEvolve
      <4>2. QED
        BY <1>2, <2>1, <3>1, <4>1 DEF PendingBelowKeyless, Pending
    <3>2. CASE ~(j \in Ids /\ cas[j].pending)
      BY <1>2, <2>1, <2>2, <3>2 DEF Counts, PendingStep
    <3>3. QED
      BY <3>1, <3>2
  <2>4. cas'[p].key = cas[p].key
    BY <1>1, <2>2 DEF CasEvolve
  <2>5. QED
    BY <2>1, <2>3, <2>4
<1>3. QED
  BY <1>2 DEF PendingBelowKeyless, Pending

\* What a CA has issued are certificates, so they have serial numbers.
LEMMA IssuedFacts ==
    ASSUME TypeOK, KeysFitCerts, PendingBelowKeyless, NEW a \in Ids
    PROVE  IssuedBy(a) \subseteq world /\ \A x \in IssuedBy(a) : x.serial \in Nat
<1>1. a # Null
  BY NullFacts
<1>2. ASSUME NEW b \in Ids, cas[b].parent = a, cas[a].key # NoKey
      PROVE  cas[b].cert \in world
  <2>1. ~Pending(b)
    BY <1>1, <1>2 DEF PendingBelowKeyless
  <2>2. QED
    BY <2>1, RowCerts DEF KeysFitCerts
<1>3. IssuedBy(a) \subseteq world
  BY <1>2, RowCerts DEF IssuedBy
<1>4. \A x \in world : x.serial \in Nat
  BY DEF TypeOK, X509
<1>5. QED
  BY <1>3, <1>4

\* What a CA holds after a step it held before, or the step took its next serial
\* for it.
LEMMA IssuedStep ==
    ASSUME TypeOK, KeysFitCerts, Lineage, PendingBelowKeyless, Effect, Counts,
           NEW a \in Ids \cap Ids'
    PROVE  \E x : \A y \in IssuedBy(a)' : y \in IssuedBy(a) \/ (y = x /\ Taken(a, x))
<1>1. CasEvolve /\ CertsEvolve /\ NewCertsFit /\ TypeOK'
  BY DEF Effect, CasSame, CertsSame
<1>2. a # Null
  BY NullFacts
<1>3. PICK x :
        /\ \A b \in Ids' \ Ids :
              cas'[b].parent \in Ids /\ cas'[b].counter < ImportBase
                    /\ cas[cas'[b].parent].key # NoKey
              => cas'[b].cert = x /\ Taken(cas'[b].parent, x)
        /\ \A c \in CertIds' \ CertIds :
              certs'[c].managed => certs'[c].x = x /\ Taken(certs'[c].ca, x)
  BY DEF Counts, IssuesOne
<1>4. ASSUME NEW c \in CertIds', certs'[c].ca = a, certs'[c].managed
      PROVE  certs'[c].x \in IssuedBy(a) \/ (certs'[c].x = x /\ Taken(a, x))
  <2>1. CASE c \in CertIds
    <3>1. certs[c].ca = a /\ certs[c].managed /\ certs'[c].x = certs[c].x
      BY <1>1, <1>4, <2>1 DEF CertsEvolve
    <3>2. QED
      BY <2>1, <3>1 DEF IssuedBy
  <2>2. CASE c \notin CertIds
    BY <1>3, <1>4, <2>2
  <2>3. QED
    BY <2>1, <2>2
<1>5. ASSUME NEW b \in Ids', cas'[b].parent = a, cas'[b].counter < ImportBase,
             cas'[a].key # NoKey
      PROVE  cas'[b].cert \in IssuedBy(a) \/ (cas'[b].cert = x /\ Taken(a, x))
  <2>1. CASE b \in Ids
    <3>1. cas[b].parent = a
      BY <1>1, <1>5, <2>1 DEF CasEvolve
    <3>2. ~Pending(a)
      BY <1>2, <2>1, <3>1 DEF Lineage
    <3>3. cas[a].key # NoKey
      BY <1>1, <1>5, <3>2 DEF CasEvolve
    <3>4. ~Pending(b)
      BY <1>2, <2>1, <3>1, <3>3 DEF PendingBelowKeyless
    <3>5. cas'[b].cert = cas[b].cert
      BY <1>1, <2>1, <3>4 DEF CasEvolve
    <3>6. cas[b].counter < ImportBase
      <4>1. cas[b].counter \in Nat /\ cas'[b].counter \in Nat
        BY <1>1, <2>1 DEF TypeOK, CaRows
      <4>2. cas[b].counter <= cas'[b].counter
        BY <2>1 DEF Counts
      <4>3. QED
        BY <1>5, <4>1, <4>2, PkiAssumption
    <3>7. QED
      BY <2>1, <3>1, <3>3, <3>5, <3>6 DEF IssuedBy
  <2>2. CASE b \notin Ids
    <3>1. cas[a].key # NoKey
      <4>1. ~Pending(a)
        BY <1>2, <1>5, <2>2 DEF Effect, CasSame, NewCasFit
      <4>2. QED
        BY <1>1, <1>5, <4>1 DEF CasEvolve
    <3>2. QED
      BY <1>3, <1>5, <2>2, <3>1
  <2>3. QED
    BY <2>1, <2>2
<1>6. \A y \in IssuedBy(a)' : y \in IssuedBy(a) \/ (y = x /\ Taken(a, x))
  BY <1>4, <1>5 DEF IssuedBy
<1>7. QED
  BY <1>6

\* A CA with a new id has issued nothing yet.
LEMMA IssuedByNew ==
    ASSUME TypeOK, Lineage, Effect, NEW a \in Ids' \ Ids
    PROVE  IssuedBy(a)' = {}
<1>1. CasEvolve /\ NewCasFit /\ CertsEvolve /\ NewCertsFit /\ TypeOK'
  BY DEF Effect, CasSame, CertsSame
<1>2. a # Null
  <2>1. a \in 1 .. MaxCas
    BY <1>1 DEF TypeOK
  <2>2. QED
    BY <2>1, PkiAssumption
<1>3. \A c \in CertIds' : certs'[c].ca # a
  <2>1. \A c \in CertIds' \cap CertIds : certs'[c].ca # a
    BY <1>1, <1>2 DEF CertsEvolve, Lineage
  <2>2. \A c \in CertIds' \ CertIds : certs'[c].ca # a
    BY <1>1, <1>2 DEF NewCertsFit
  <2>3. QED
    BY <2>1, <2>2
<1>4. \A b \in Ids' : cas'[b].parent # a
  <2>1. \A b \in Ids' \cap Ids : cas'[b].parent # a
    BY <1>1, <1>2 DEF CasEvolve, Lineage
  <2>2. \A b \in Ids' \ Ids : cas'[b].parent # a
    BY <1>1, <1>2 DEF NewCasFit
  <2>3. QED
    BY <2>1, <2>2
<1>5. QED
  BY <1>3, <1>4 DEF IssuedBy

\* A step takes serials in order and none twice.
LEMMA SerialsStep ==
    ASSUME TypeOK, KeysFitCerts, Lineage, PendingBelowKeyless, SerialsFit, Effect, Counts
    PROVE  SerialsFit'
<1>1. ASSUME NEW a \in Ids', NEW y \in IssuedBy(a)', NEW z \in IssuedBy(a)'
      PROVE  y.serial < cas'[a].counter /\ (y.serial = z.serial => y = z)
  <2>1. CASE a \in Ids
    <3>1. PICK x : \A w \in IssuedBy(a)' : w \in IssuedBy(a) \/ (w = x /\ Taken(a, x))
      BY <2>1, IssuedStep
    <3>2. /\ cas[a].counter \in Nat /\ cas'[a].counter \in Nat
          /\ cas[a].counter <= cas'[a].counter
      BY <2>1 DEF TypeOK, CaRows, Effect, Counts
    <3>3. \A w \in IssuedBy(a) : w.serial \in Nat /\ w.serial < cas[a].counter
      BY <2>1, IssuedFacts DEF SerialsFit
    <3>4. \A v, w \in IssuedBy(a) : v.serial = w.serial => v = w
      BY <2>1 DEF SerialsFit
    <3>5. Taken(a, x) => x.serial = cas[a].counter /\ cas'[a].counter = cas[a].counter + 1
      BY DEF Taken
    <3>6. /\ y \in IssuedBy(a) \/ (y = x /\ Taken(a, x))
          /\ z \in IssuedBy(a) \/ (z = x /\ Taken(a, x))
      BY <1>1, <3>1
    <3>7. QED
      BY <3>2, <3>3, <3>4, <3>5, <3>6
  <2>2. CASE a \notin Ids
    BY <1>1, <2>2, IssuedByNew
  <2>3. QED
    BY <2>1, <2>2
<1>2. QED
  BY <1>1 DEF SerialsFit

\* The inductive invariant: each part needs the types and the lineage, and serials
\* that a pending CA has no certificate of its parent's to come.
Inv ==
    /\ TypeOK /\ KeysFitCerts /\ Lineage /\ OneRowPerCert /\ LeavesChain
    /\ PendingBelowKeyless /\ SerialsFit

\* The invariant holds of an empty database.
LEMMA InvInit == Init => Inv
<1> SUFFICES ASSUME Init PROVE Inv
  OBVIOUS
<1>1. TypeOK
  BY TypeInit
<1>2. Ids = {} /\ CertIds = {}
  BY DEF Init, Ids, CertIds
<1>3. /\ KeysFitCerts /\ Lineage /\ OneRowPerCert /\ LeavesChain
      /\ PendingBelowKeyless /\ SerialsFit
  BY <1>2 DEF KeysFitCerts, Lineage, OneRowPerCert, LeavesChain, PendingBelowKeyless, SerialsFit
<1>4. QED
  BY <1>1, <1>3 DEF Inv

\* Every step keeps the invariant.
LEMMA InvStep ==
    ASSUME Inv, [Next]_vars
    PROVE  Inv' /\ Effect
<1>1. Effect
  BY StepEffect DEF Inv
<1>2. Lineage' /\ OneRowPerCert' /\ LeavesChain'
  BY <1>1, LineageStep, OneRowStep, LeavesChainStep DEF Inv
<1>3. PendingBelowKeyless' /\ SerialsFit'
  BY <1>1, StepCounts, PendingBelowStep, SerialsStep DEF Inv
<1>4. QED
  BY <1>1, <1>2, <1>3 DEF Inv, Effect

\* What the CA and certificate tables satisfy in every reachable state.
THEOREM PkiInv == Spec => []Inv
<1>1. Inv /\ [Next]_vars => Inv'
  BY InvStep
<1>2. QED
  BY <1>1, InvInit, PTL DEF Spec

\* Rows are of their types; their certificates exist and their keys were made.
THEOREM PkiTypes == Spec => []TypeOK
<1>1. Inv => TypeOK
  BY DEF Inv
<1>2. QED
  BY <1>1, PkiInv, PTL

\* A usable CA's key is the one its certificate certifies; a pending CA's CSR
\* is for the key it holds.
THEOREM PkiKeysFitCerts == Spec => []KeysFitCerts
<1>1. Inv => KeysFitCerts
  BY DEF Inv
<1>2. QED
  BY <1>1, PkiInv, PTL

\* CAs are a forest of usable parents with older ids, and links of certificates
\* are to usable CAs that are present.
THEOREM PkiLineage == Spec => []Lineage
<1>1. Inv => Lineage
  BY DEF Inv
<1>2. QED
  BY <1>1, PkiInv, PTL

\* No certificate is in two CA rows or in two certificate rows.
THEOREM PkiOneRowPerCert == Spec => []OneRowPerCert
<1>1. Inv => OneRowPerCert
  BY DEF Inv
<1>2. QED
  BY <1>1, PkiInv, PTL

\* A linked certificate was signed by the CA it is linked to, and a managed one
\* by a CA that is no root and bears its issuer's name.
THEOREM PkiLeavesChain == Spec => []LeavesChain
<1>1. Inv => LeavesChain
  BY DEF Inv
<1>2. QED
  BY <1>1, PkiInv, PTL

\* No CA uses a serial twice among the certificates it holds, and its counter is
\* ahead of them all, whatever was deleted, imported or completed in between.
THEOREM PkiSerialsFit == Spec => []SerialsFit
<1>1. Inv => SerialsFit
  BY DEF Inv
<1>2. QED
  BY <1>1, PkiInv, PTL

\* Nothing locked is deleted, by name or by a cascade, but a pending CA.
THEOREM PkiLockedStays == Spec => LockedStays
<1>1. Inv /\ [Next]_vars =>
        [/\ \A a \in Ids : cas[a].locked /\ ~Pending(a) => a \in Ids'
         /\ \A c \in CertIds : certs[c].locked => c \in CertIds']_vars
  BY InvStep DEF Effect, LockStep
<1>2. QED
  BY <1>1, PkiInv, PTL DEF Spec, LockedStays

\* Certificate, key, type and parent of a usable CA never change.
THEOREM PkiUsableCaFixed == Spec => UsableCaFixed
<1>1. Inv /\ [Next]_vars =>
        [\A a \in Ids \cap Ids' :
            ~Pending(a) => /\ cas'[a].cert = cas[a].cert /\ cas'[a].key = cas[a].key
                           /\ cas'[a].parent = cas[a].parent /\ cas'[a].type = cas[a].type
                           /\ ~cas'[a].pending]_vars
  BY InvStep DEF Effect, CasSame, CasEvolve
<1>2. QED
  BY <1>1, PkiInv, PTL DEF Spec, UsableCaFixed

=============================================================================
