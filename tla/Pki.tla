-------------------------------- MODULE Pki --------------------------------
(***************************************************************************)
(* The certificate authorities and certificates of VCM (app/pki/ca.py and  *)
(* app/routers/pki.py).                                                    *)
(*                                                                         *)
(* One action per POST handler, for a request that succeeds: an error      *)
(* rolls the transaction back and changes nothing, so the checks of a      *)
(* handler are the guards of its action.  Handlers are atomic here; what   *)
(* concurrent requests do to each other is the subject of PkiRequests.tla. *)
(*                                                                         *)
(* Abstractions: an X.509 certificate is a record of the fields the code   *)
(* compares, a signature is the key that made it, a key pair is one value; *)
(* "n" stands for the validity times and signature bits that make two      *)
(* certificates differ, so equal records are equal fingerprints.  Names of *)
(* CAs are labels the code makes unique and are left out.                  *)
(***************************************************************************)
EXTENDS Integers, FiniteSets

CONSTANTS
    Subjects,     \* distinguished names
    OutsideKeys,  \* keys of CAs outside VCM
    DeviceKey,    \* the key behind the CSRs devices submit
    Outside,      \* certificates made outside VCM that exist from the start
    Replies,      \* what the offline signer makes of a CSR: a name, constraints
    AskedTypes,   \* CA types asked for in the forms (all three, or fewer to bound)
    ImportBase,   \* the serial counter of an imported CA
    MaxCas,       \* bound on the ids of CA rows (for model checking)
    MaxCerts,     \* bound on the ids of certificate rows
    MaxWorld,     \* bound on the number of certificates in existence
    MaxTwins,     \* bound on how many certificates look the same
    MaxKeys,      \* bound on the number of keys VCM generates
    NoKey, NoCert, Null

\* How a certificate states what it may sign: a CA, a CA with pathlen 0, CA:FALSE
\* or no BasicConstraints extension at all.
Constraints == {"ca", "ca0", "leaf", "absent"}
CaTypes == {"root", "intermediate", "issuing"}

X509(keys) ==
    [subject : Subjects, issuer : Subjects, key : keys, signer : keys,
     serial : Nat, bc : Constraints, n : 0 .. MaxTwins]

ASSUME PkiAssumption ==
    /\ Outside \subseteq X509(OutsideKeys \cup {DeviceKey})
    /\ Replies \subseteq Subjects \X Constraints
    /\ AskedTypes \subseteq CaTypes
    /\ ImportBase \in Nat \ {0} /\ MaxCas \in Nat /\ MaxCerts \in Nat
    /\ MaxWorld \in Nat /\ MaxTwins \in Nat /\ MaxKeys \in Nat
    /\ NoKey \notin OutsideKeys \cup {DeviceKey} /\ DeviceKey \notin OutsideKeys
    /\ (OutsideKeys \cup {DeviceKey, NoKey}) \cap (0 .. MaxKeys) = {}
    /\ NoCert \notin X509(OutsideKeys \cup {DeviceKey} \cup (1 .. MaxKeys))
    /\ Null \notin (0 .. MaxCas) \cup (0 .. MaxCerts)

VARIABLES
    cas,      \* the cert_authorities table: a function from ids to rows
    certs,    \* the certificates table: a function from ids to rows
    world,    \* every certificate ever made, wherever its copies are
    lastKey   \* how many keys VCM has generated

vars == <<cas, certs, world, lastKey>>
-----------------------------------------------------------------------------
Ids == DOMAIN cas
CertIds == DOMAIN certs

Pending(a) == cas[a].pending
Least(S) == CHOOSE i \in S : \A j \in S : i <= j

\* Mistake: as many as there are rows, which may be none.
NextIdByCount(S) == Cardinality(S)

\* SQLite hands out the largest id in use plus one.
NextId(S) == IF S = {} THEN 1 ELSE 1 + CHOOSE i \in S : \A j \in S : j <= i

Put(f, i, row) == [j \in DOMAIN f \cup {i} |-> IF j = i THEN row ELSE f[j]]
Without(f, S) == [j \in DOMAIN f \ S |-> f[j]]

SelfSigned(x) == x.subject = x.issuer
IsCaCert(x) == x.bc \in {"ca", "ca0"}
CaConstraint(type) == IF type = "issuing" THEN "ca0" ELSE "ca"

Unsigned(subject, issuer, key, signer, serial, bc) ==
    [subject |-> subject, issuer |-> issuer, key |-> key, signer |-> signer,
     serial |-> serial, bc |-> bc, n |-> 0]

\* What tells a new certificate apart from those that look like it.
FreshMarks(x) == {n \in 0 .. MaxTwins : [x EXCEPT !.n = n] \notin world}
Issue(x) == [x EXCEPT !.n = Least(FreshMarks(x))]

\* A certificate nobody has seen before joins the world.
Made(x) ==
    /\ FreshMarks(x) # {} /\ Cardinality(world) < MaxWorld
    /\ world' = world \cup {Issue(x)}

\* A row as CertAuthority's defaults leave it: locked, counter 1.
CaRow(type, parent, subject, cert, key, counter) ==
    [type |-> type, parent |-> parent, subject |-> subject, cert |-> cert, key |-> key,
     counter |-> counter, locked |-> TRUE, pending |-> cert = NoCert,
     csr |-> IF cert = NoCert THEN key ELSE NoKey]

AddCa(row) ==
    /\ NextId(Ids) <= MaxCas
    /\ cas' = Put(cas, NextId(Ids), row)

FreshKey == lastKey + 1
GenerateKey == lastKey < MaxKeys /\ lastKey' = FreshKey

CanSign(a) == cas[a].key # NoKey /\ cas[a].cert # NoCert
-----------------------------------------------------------------------------
(* Creating, completing and discarding CAs.                                *)

CreateRoot(s) ==
    /\ GenerateKey
    /\ LET x == Unsigned(s, s, FreshKey, FreshKey, 1, "ca") IN
       /\ Made(x)
       /\ AddCa(CaRow("root", Null, s, Issue(x), FreshKey, 1))
    /\ UNCHANGED certs

\* Mistake: the serial follows from what the CA has issued and still holds.
SerialByCount(a) ==
    1 + Cardinality({c \in CertIds : certs[c].ca = a} \cup {b \in Ids : cas[b].parent = a})

Serial(a) == cas[a].counter

\* The row of a CA that has used up a serial.
Counted(a) == [cas[a] EXCEPT !.counter = Serial(a) + 1]

\* A child of a CA whose key is here: signed at once.
CreateChild(p, type, s) ==
    /\ p \in Ids /\ ~Pending(p) /\ cas[p].key # NoKey
    /\ type # "root"
    /\ GenerateKey
    /\ NextId(Ids) <= MaxCas
    /\ LET x == Unsigned(s, cas[p].cert.subject, FreshKey, cas[p].key, Serial(p),
                         CaConstraint(type)) IN
       /\ Made(x)
       /\ cas' = Put(Put(cas, p, Counted(p)), NextId(Ids),
                     CaRow(type, p, s, Issue(x), FreshKey, 1))
    /\ UNCHANGED certs

\* A child of a CA whose key is elsewhere: a key and a CSR, no certificate.
CreatePending(p, type, s) ==
    /\ p \in Ids /\ ~Pending(p) /\ cas[p].key = NoKey
    /\ type # "root"
    /\ GenerateKey
    /\ AddCa(CaRow(type, p, s, NoCert, FreshKey, 1))
    /\ UNCHANGED <<certs, world>>

\* Mistake: any CA may be given a new key.
MayRegenerateAny(a) == TRUE

MayRegenerate(a) == Pending(a)

RegenerateCsr(a) ==
    /\ a \in Ids /\ MayRegenerate(a)
    /\ GenerateKey
    /\ cas' = [cas EXCEPT ![a].key = FreshKey, ![a].csr = FreshKey]
    /\ UNCHANGED <<certs, world>>

\* Outside VCM, whoever holds an offline CA's key signs a CSR that was
\* downloaded, as asked or not quite: with any name and any constraints.
SignOffline(a, ca, reply) ==
    /\ a \in Ids /\ Pending(a)
    /\ ca \in Outside
    /\ Made(Unsigned(reply[1], ca.subject, cas[a].csr, ca.key, 0, reply[2]))
    /\ UNCHANGED <<cas, certs, lastKey>>

\* Mistake: a certificate for an earlier CSR of the same CA will do.
CertifiesAny(x, a) == TRUE

Certifies(x, a) == x.key = cas[a].key

Complete(a, x, allowNonCa) ==
    /\ a \in Ids /\ Pending(a)
    /\ x \in world
    /\ Certifies(x, a)
    /\ IsCaCert(x) \/ allowNonCa
    /\ cas[a].parent # Null => x.issuer = cas[cas[a].parent].cert.subject
    /\ \A b \in Ids \ {a} : cas[b].cert # x
    /\ cas' = [cas EXCEPT ![a] = [@ EXCEPT !.cert = x, !.subject = x.subject,
                                           !.pending = FALSE, !.csr = NoKey]]
    /\ UNCHANGED <<certs, world, lastKey>>

Discard(a) ==
    /\ a \in Ids /\ Pending(a)
    /\ cas' = Without(cas, {a})
    /\ UNCHANGED <<certs, world, lastKey>>
-----------------------------------------------------------------------------
(* Importing CAs.                                                          *)

\* Mistake: the fingerprint is not looked up.
NewCaCertUnchecked(x) == TRUE

NewCaCert(x) == \A b \in Ids : cas[b].cert # x

ImportedType(x, override) ==
    IF override # Null THEN override
    ELSE IF SelfSigned(x) THEN "root"
    ELSE IF x.bc = "ca0" THEN "issuing"
    ELSE "intermediate"

NamedAsIssuer(x) == {b \in Ids : cas[b].cert # NoCert /\ cas[b].cert.subject = x.issuer}

\* The search for the parent parses one CA certificate after the other and fails
\* at the empty one of a pending CA.
ParentSearchWorks(x) ==
    \/ SelfSigned(x)
    \/ \A b \in Ids : Pending(b) =>
          NamedAsIssuer(x) # {} /\ Least(NamedAsIssuer(x)) < b

ImportedParent(x) ==
    IF SelfSigned(x) \/ NamedAsIssuer(x) = {} THEN Null ELSE Least(NamedAsIssuer(x))

ImportCa(x, key, override) ==
    /\ x \in world
    /\ NewCaCert(x)
    /\ x.bc # "leaf"
    /\ key \in {NoKey, x.key}
    /\ ParentSearchWorks(x)
    /\ AddCa(CaRow(ImportedType(x, override), ImportedParent(x), x.subject, x, key, ImportBase))
    /\ UNCHANGED <<certs, world, lastKey>>
-----------------------------------------------------------------------------
(* Deleting and locking CAs.                                               *)

\* Mistake: the CA and its children, without theirs.
SubtreeOfTwo(a) == {b \in Ids : b = a \/ cas[b].parent = a}

\* The subtree below a CA: the least set with it and the children of its members.
Closed(S) == \A b \in Ids : cas[b].parent \in S => b \in S
Subtree(a) == {b \in Ids : \A S \in SUBSET Ids : a \in S /\ Closed(S) => b \in S}

Descendants(a) == Subtree(a) \ {a}
CertsBelow(a) == {c \in CertIds : certs[c].ca \in Subtree(a)}

\* Mistake: a lock protects a CA only from being named itself.
LockBelowIgnored(a) == FALSE

LockBelow(a) ==
    \/ \E b \in Descendants(a) : cas[b].locked
    \/ \E c \in CertsBelow(a) : certs[c].locked

DeleteCa(a, cascade) ==
    /\ a \in Ids /\ ~cas[a].locked
    /\ cascade \/ (Descendants(a) = {} /\ CertsBelow(a) = {})
    /\ ~LockBelow(a)
    /\ cas' = Without(cas, Subtree(a))
    /\ certs' = Without(certs, CertsBelow(a))
    /\ UNCHANGED <<world, lastKey>>

LockCa(a, locked) ==
    /\ a \in Ids
    /\ cas' = [cas EXCEPT ![a].locked = locked]
    /\ UNCHANGED <<certs, world, lastKey>>
-----------------------------------------------------------------------------
(* Certificates of devices.                                                *)

CertRow(ca, managed, x) ==
    [ca |-> ca, managed |-> managed, x |-> x, replacedBy |-> Null, locked |-> FALSE]

AddCert(row) ==
    /\ NextId(CertIds) <= MaxCerts
    /\ certs' = Put(certs, NextId(CertIds), row)

\* Mistake: any CA with a key and a certificate issues leaves.
MayIssueAny(a) == CanSign(a)

MayIssue(a) == CanSign(a) /\ cas[a].type # "root"

SignCsr(a, s) ==
    /\ a \in Ids /\ MayIssue(a)
    /\ LET x == Unsigned(s, cas[a].cert.subject, DeviceKey, cas[a].key, Serial(a), "leaf") IN
       /\ Made(x)
       /\ AddCert(CertRow(a, TRUE, Issue(x)))
    /\ cas' = [cas EXCEPT ![a] = Counted(a)]
    /\ UNCHANGED lastKey

Signed(a, x) == cas[a].cert # NoCert /\ cas[a].cert.key = x.signer

\* The CAs that are known to have signed a certificate.
Issuers(x) == {a \in NamedAsIssuer(x) : ~Pending(a) /\ Signed(a, x)}

\* With no such CA the operator is asked and may pick one that fits, or none.
ImportCert(x, chosen) ==
    /\ x \in world
    /\ ~IsCaCert(x)
    /\ \A c \in CertIds : certs[c].x # x
    /\ IF Issuers(x) # {} THEN chosen = Least(Issuers(x))
       ELSE chosen = Null \/ (chosen \in Ids /\ Signed(chosen, x))
    /\ AddCert(CertRow(chosen, FALSE, x))
    /\ UNCHANGED <<cas, world, lastKey>>

DeleteCert(c) ==
    /\ c \in CertIds /\ ~certs[c].locked
    /\ certs' = Without(certs, {c})
    /\ UNCHANGED <<cas, world, lastKey>>

LockCert(c, locked) ==
    /\ c \in CertIds
    /\ certs' = [certs EXCEPT ![c].locked = locked]
    /\ UNCHANGED <<cas, world, lastKey>>

\* An observed certificate is superseded by a managed one, or no longer.
ReplaceCert(c, by) ==
    /\ c \in CertIds /\ ~certs[c].managed
    /\ by = Null \/ (by \in CertIds /\ certs[by].managed)
    /\ certs' = [certs EXCEPT ![c].replacedBy = by]
    /\ UNCHANGED <<cas, world, lastKey>>
-----------------------------------------------------------------------------
Init ==
    /\ cas = [i \in {} |-> Null]
    /\ certs = [i \in {} |-> Null]
    /\ world = Outside
    /\ lastKey = 0

CaRequest ==
    \/ \E s \in Subjects : CreateRoot(s)
    \/ \E p \in Ids, type \in AskedTypes, s \in Subjects :
          CreateChild(p, type, s) \/ CreatePending(p, type, s)
    \/ \E a \in Ids : RegenerateCsr(a) \/ Discard(a)
    \/ \E a \in Ids, x \in world, allow \in BOOLEAN : Complete(a, x, allow)
    \/ \E x \in world, key \in OutsideKeys \cup {NoKey}, override \in AskedTypes \cup {Null} :
          ImportCa(x, key, override)
    \/ \E a \in Ids, b \in BOOLEAN : DeleteCa(a, b) \/ LockCa(a, b)

CertRequest ==
    \/ \E a \in Ids, s \in Subjects : SignCsr(a, s)
    \/ \E x \in world, a \in Ids \cup {Null} : ImportCert(x, a)
    \/ \E c \in CertIds : DeleteCert(c)
    \/ \E c \in CertIds, b \in BOOLEAN : LockCert(c, b)
    \/ \E c \in CertIds, by \in CertIds \cup {Null} : ReplaceCert(c, by)

OfflineSigner ==
    \E a \in Ids, ca \in {x \in Outside : IsCaCert(x)}, reply \in Replies :
        SignOffline(a, ca, reply)

Next == CaRequest \/ CertRequest \/ OfflineSigner

Spec == Init /\ [][Next]_vars
-----------------------------------------------------------------------------
Keys == OutsideKeys \cup {DeviceKey} \cup (1 .. lastKey)

CaRows ==
    [type : CaTypes, parent : (1 .. MaxCas) \cup {Null}, subject : Subjects,
     cert : world \cup {NoCert}, key : Keys \cup {NoKey}, counter : Nat \ {0},
     locked : BOOLEAN, pending : BOOLEAN, csr : Keys \cup {NoKey}]

CertRows ==
    [ca : (1 .. MaxCas) \cup {Null}, managed : BOOLEAN, x : world,
     replacedBy : (1 .. MaxCerts) \cup {Null}, locked : BOOLEAN]

\* Types; every certificate in a row exists and every key has been generated.
TypeOK ==
    /\ Ids \subseteq 1 .. MaxCas /\ cas \in [Ids -> CaRows]
    /\ CertIds \subseteq 1 .. MaxCerts /\ certs \in [CertIds -> CertRows]
    /\ world \subseteq X509(Keys)
    /\ lastKey \in 0 .. MaxKeys

\* Creations, imports, cascades and discards in any order, with ids used again,
\* leave a forest: a parent is present, older than its children and usable, and
\* a certificate is linked to no CA or to one that is present and usable.  So
\* walks along parent_id end (chain_pem, build_hierarchy) and discard, which
\* looks for no dependents, has none.
Lineage ==
    /\ \A a \in Ids : cas[a].parent # Null =>
          cas[a].parent \in Ids /\ cas[a].parent < a /\ ~Pending(cas[a].parent)
    /\ \A c \in CertIds : certs[c].ca # Null =>
          certs[c].ca \in Ids /\ ~Pending(certs[c].ca)

\* A CA without a certificate waits with a CSR for the key it holds; one that
\* has a key and a certificate holds the key its certificate certifies, however
\* often its CSR was made anew while an old one was being signed.
KeysFitCerts ==
    \A a \in Ids :
        /\ Pending(a) <=> cas[a].cert = NoCert
        /\ Pending(a) => cas[a].key # NoKey /\ cas[a].csr = cas[a].key
        /\ ~Pending(a) /\ cas[a].key # NoKey => cas[a].cert.key = cas[a].key

\* A certificate is in one CA row and in one certificate row at most, whether
\* it was issued, imported or uploaded for a pending CA.
OneRowPerCert ==
    /\ \A a, b \in Ids : cas[a].cert = cas[b].cert /\ a # b => cas[a].cert = NoCert
    /\ \A c, d \in CertIds : certs[c].x = certs[d].x => c = d

\* The CA a certificate is linked to is the one that signed it; a managed one
\* is linked, under its issuer's name, and never to a root CA.
LeavesChain ==
    \A c \in CertIds :
        /\ certs[c].ca # Null => Signed(certs[c].ca, certs[c].x)
        /\ certs[c].managed => /\ certs[c].ca # Null
                               /\ cas[certs[c].ca].cert.subject = certs[c].x.issuer
                               /\ cas[certs[c].ca].type # "root"

\* What a CA row has issued here and still holds.
IssuedBy(a) ==
    {certs[c].x : c \in {d \in CertIds : certs[d].ca = a /\ certs[d].managed}}
        \cup {cas[b].cert : b \in {d \in Ids : cas[d].parent = a /\ cas[d].counter < ImportBase
                                                 /\ cas[a].key # NoKey}}

\* A CA never uses a serial twice among what it holds, and none it has yet to
\* hand out is taken, whatever was deleted in between.
SerialsFit ==
    \A a \in Ids : \A x, y \in IssuedBy(a) :
        /\ x.serial < cas[a].counter
        /\ x.serial = y.serial => x = y

\* Locks hold against deletion by name and against cascades from above: a row
\* that is locked is there after the step, a pending CA excepted, which may be
\* discarded.
LockedStays ==
    [][/\ \A a \in Ids : cas[a].locked /\ ~Pending(a) => a \in Ids'
       /\ \A c \in CertIds : certs[c].locked => c \in CertIds']_vars

\* Once a CA has its certificate, certificate, key and place in the tree stay
\* as they are until the CA is deleted.
UsableCaFixed ==
    [][\A a \in Ids \cap Ids' :
          ~Pending(a) => /\ cas'[a].cert = cas[a].cert /\ cas'[a].key = cas[a].key
                         /\ cas'[a].parent = cas[a].parent /\ cas'[a].type = cas[a].type
                         /\ ~cas'[a].pending]_vars
============================================================================
