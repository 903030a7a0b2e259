--------------------------- MODULE AuditLog_proofs ---------------------------
(***************************************************************************)
(* Proofs about the audit log, for every set of concurrent requests, both  *)
(* databases and logs of any length; and about a log that is tampered      *)
(* with, on SQLite.                                                        *)
(***************************************************************************)
EXTENDS AuditTamper, Sequences, WellFoundedInduction, TLAPS

-----------------------------------------------------------------------------
(* Hashes and newest rows.                                                 *)

\* The genesis seed, NULL and a hash are three different things.
LEMMA HashFacts ==
    /\ Genesis # Null
    /\ \A p, c : EntryHash(p, c) # Null /\ EntryHash(p, c) # Genesis
<1>1. Genesis # Null
  BY DEF Genesis, Null
<1>2. ASSUME NEW p, NEW c PROVE EntryHash(p, c) # Null /\ EntryHash(p, c) # Genesis
  <2> DEFINE x == IF p = Null THEN Genesis ELSE p
  <2> HIDE DEF x
  <2>1. Len(<<x, c>>) = 2 /\ Len(<<"null">>) = 1 /\ Len(<<>>) = 0
    OBVIOUS
  <2> QED
    BY <2>1 DEF EntryHash, Null, Genesis, x
<1>3. QED
  BY <1>1, <1>2

\* A nonempty set of natural numbers has a least element.
LEMMA MinExists ==
    ASSUME NEW T, T \subseteq Nat, T # {}
    PROVE  \E m \in T : \A k \in T : m <= k
<1> DEFINE R == OpToRel(<, Nat)
<1>1. IsWellFoundedOn(R, Nat)
  BY NatLessThanWellFounded
<1>2. \A x, y \in Nat : x < y => <<x, y>> \in R
  BY DEF OpToRel
<1> HIDE DEF R
<1>3. PICK m \in T : \A y \in T : ~(<<y, m>> \in R)
  BY <1>1, WFMin
<1>4. \A k \in T : m \in Nat /\ k \in Nat /\ ~(k < m)
  BY <1>2, <1>3
<1>5. \A k \in T : m <= k
  BY <1>4
<1>6. QED
  BY <1>5

\* A nonempty set of natural numbers up to n has a greatest element.
LEMMA MaxExists ==
    ASSUME NEW n \in Nat, NEW S, S \subseteq 0..n, S # {}
    PROVE  \E m \in S : \A k \in S : k <= m
<1> DEFINE T == {n - k : k \in S}
<1>1. T # {}
  OBVIOUS
<1>2. T \subseteq Nat
  <2>1. \A k \in 0..n : n - k \in Nat
    OBVIOUS
  <2>2. QED
    BY <2>1
<1>3. PICK t \in T : \A k \in T : t <= k
  BY <1>1, <1>2, MinExists
<1>4. PICK m \in S : t = n - m
  OBVIOUS
<1>5. ASSUME NEW k \in S PROVE k <= m
  <2>1. t <= n - k
    BY <1>3
  <2>2. QED
    BY <2>1, <1>4
<1>6. QED
  BY <1>5

\* Newest picks a row with the greatest id, when ids are bounded.
LEMMA NewestFacts ==
    ASSUME NEW n \in Nat, NEW S, S # {}, \A r \in S : r.id \in 1..n
    PROVE  Newest(S) \in S /\ \A q \in S : q.id <= Newest(S).id
<1> DEFINE I == {r.id : r \in S}
<1>1. I \subseteq 0..n /\ I # {}
  OBVIOUS
<1>2. PICK m \in I : \A k \in I : k <= m
  BY <1>1, MaxExists
<1>3. PICK r \in S : r.id = m
  OBVIOUS
<1>4. \A q \in S : q.id <= r.id
  BY <1>2, <1>3
<1>5. QED
  BY <1>4 DEF Newest
-----------------------------------------------------------------------------
(* Who may hold what: idle requests hold nothing, on SQLite only the owner *)
(* of the write lock has inserted rows, and nobody is served at startup.   *)

LockInv ==
    /\ ~SingleWriter => writer = NoOne
    /\ \A w \in Workers : pc[w] = "idle" => own[w] = {} /\ staged[w] = {} /\ writer # w
    /\ SingleWriter => \A w \in Workers : own[w] # {} => writer = w
    /\ server = "starting" => \A w \in Workers : pc[w] = "idle"
    /\ server = "serving" => work = {}

BaseInv == TypeOK /\ LockInv

\* A new row's id is larger than every id its transaction can see.
LEMMA NewIdFacts ==
    ASSUME TypeOK, NEW w \in Workers
    PROVE  /\ NewId(w) \in Nat \ {0}
           /\ \A r \in Visible(w) : r.id < NewId(w)
<1>1. \A r \in Visible(w) : r.id \in 1..lastId
  BY DEF TypeOK, IsRow, Visible
<1>2. lastId \in Nat
  BY DEF TypeOK
<1>3. CASE ~SingleWriter
  BY <1>1, <1>2, <1>3 DEF NewId
<1>4. CASE SingleWriter /\ Visible(w) = {}
  BY <1>4 DEF NewId, TopId
<1>5. CASE SingleWriter /\ Visible(w) # {}
  <2>1. /\ Newest(Visible(w)) \in Visible(w)
        /\ \A q \in Visible(w) : q.id <= Newest(Visible(w)).id
    BY <1>1, <1>2, <1>5, NewestFacts
  <2>2. NewId(w) = Newest(Visible(w)).id + 1
    BY <1>5 DEF NewId, TopId
  <2>3. QED
    BY <1>1, <2>1, <2>2
<1>6. QED
  BY <1>3, <1>4, <1>5

\* What a flush does: nothing, or it takes the lock, or it inserts the staged
\* row as well.
LEMMA FlushFacts ==
    ASSUME TypeOK, NEW w \in Workers, Flush(w)
    PROVE  /\ \/ writer' = writer
              \/ SingleWriter /\ writer \in {NoOne, w} /\ writer' = w
           /\ dirty' \in [Workers -> BOOLEAN]
           /\ \/ own' = own /\ staged' = staged /\ lastId' = lastId
              \/ /\ own' = [own EXCEPT ![w] =
                        own[w] \cup {Inserted(s, NewId(w)) : s \in staged[w]}]
                 /\ staged' = [staged EXCEPT ![w] = {}]
                 /\ lastId' \in Nat /\ lastId <= lastId' /\ NewId(w) <= lastId'
                 /\ SingleWriter => writer' = w /\ writer \in {NoOne, w}
<1>1. NewId(w) \in Nat /\ lastId \in Nat /\ dirty \in [Workers -> BOOLEAN]
  BY NewIdFacts DEF TypeOK
<1>2. CASE ~Pending(w)
  BY <1>1, <1>2 DEF Flush
<1>3. CASE Pending(w)
  <2>1. /\ SingleWriter => writer \in {NoOne, w}
        /\ writer' = IF SingleWriter THEN w ELSE writer
        /\ dirty' = [dirty EXCEPT ![w] = FALSE]
    BY <1>3 DEF Flush, TakeLock
  <2>2. CASE staged[w] = {}
    <3>1. own' = own /\ staged' = staged /\ lastId' = lastId
      BY <1>3, <2>2 DEF Flush
    <3>2. QED
      BY <1>1, <2>1, <3>1
  <2>3. CASE staged[w] # {}
    <3>1. /\ own' = [own EXCEPT ![w] =
                        own[w] \cup {Inserted(s, NewId(w)) : s \in staged[w]}]
          /\ staged' = [staged EXCEPT ![w] = {}]
          /\ lastId' = IF NewId(w) > lastId THEN NewId(w) ELSE lastId
      BY <1>3, <2>3 DEF Flush, IdsAfter
    <3>2. QED
      BY <1>1, <2>1, <3>1
  <2>4. QED
    BY <2>2, <2>3
<1>4. QED
  BY <1>2, <1>3
-----------------------------------------------------------------------------
(* Types and the lock.                                                     *)

\* The types and the row hashes hold at the start.
LEMMA BaseInit == Init => BaseInv
<1> SUFFICES ASSUME Init PROVE BaseInv
  OBVIOUS
<1> USE AuditAssumption DEF Init
<1>1. PICK c \in [1..LegacyRows -> Contents] : rows = LegacyLog(c)
  OBVIOUS
<1>2. \A r \in rows : IsRow(r)
  BY <1>1 DEF LegacyLog, IsRow, Origins
<1>3. TypeOK
  BY <1>2 DEF TypeOK
<1>4. LockInv
  BY DEF LockInv
<1>5. QED
  BY <1>3, <1>4 DEF BaseInv

\* Rows keep their type as ids are handed out.
LEMMA RowsKeepType ==
    ASSUME TypeOK, lastId' \in Nat, lastId <= lastId'
    PROVE  \A r : IsRow(r) => IsRow(r)'
BY DEF IsRow, TypeOK

\* A flush keeps the types and the row hashes.
LEMMA FlushKeepsBase ==
    ASSUME BaseInv, NEW w \in Workers, Flush(w), pc[w] = "handling",
           pc' = [pc EXCEPT ![w] = "flushed"] \/ pc' = [pc EXCEPT ![w] = "committing"],
           UNCHANGED <<rows, server, work>>
    PROVE  BaseInv'
<1> USE DEF BaseInv
<1> DEFINE new == {Inserted(s, NewId(w)) : s \in staged[w]}
<1>1. lastId' \in Nat /\ lastId <= lastId'
  BY FlushFacts DEF TypeOK
<1>2. \A r : IsRow(r) => IsRow(r)'
  BY <1>1, RowsKeepType
<1>3. \/ own' = own /\ staged' = staged
      \/ /\ own' = [own EXCEPT ![w] = own[w] \cup new]
         /\ staged' = [staged EXCEPT ![w] = {}]
         /\ NewId(w) <= lastId'
         /\ SingleWriter => writer' = w /\ writer \in {NoOne, w}
  BY FlushFacts
<1>4. NewId(w) <= lastId' => \A r \in new : IsRow(r)'
  <2>1. NewId(w) \in Nat \ {0}
    BY NewIdFacts
  <2>2. \A s \in staged[w] : IsStaged(s)
    BY DEF TypeOK
  <2>3. QED
    BY <1>1, <2>1, <2>2 DEF IsRow, IsStaged, Inserted, Origins
<1>5. TypeOK'
  <2>1. writer' \in Workers \cup {NoOne} /\ dirty' \in [Workers -> BOOLEAN]
    BY FlushFacts DEF TypeOK
  <2>2. pc' \in [Workers -> {"idle", "handling", "flushed", "committing"}]
    BY DEF TypeOK
  <2>3. /\ own' = [v \in Workers |-> own'[v]]
        /\ staged' = [v \in Workers |-> staged'[v]]
    BY <1>3 DEF TypeOK
  <2>4. ASSUME NEW v \in Workers, NEW r \in own'[v] PROVE IsRow(r)'
    <3>1. r \in own[v] \/ (r \in new /\ NewId(w) <= lastId')
      BY <1>3, <2>4 DEF TypeOK
    <3>2. QED
      BY <1>2, <1>4, <3>1 DEF TypeOK
  <2>5. ASSUME NEW v \in Workers, NEW s \in staged'[v] PROVE IsStaged(s)'
    <3>1. s \in staged[v]
      BY <1>3, <2>5 DEF TypeOK
    <3>2. QED
      BY <3>1 DEF TypeOK, IsStaged
  <2>6. (\A r \in rows' : IsRow(r)') /\ (\A r \in work' : IsRow(r)')
    BY <1>2 DEF TypeOK
  <2>7. QED
    BY <1>1, <2>1, <2>2, <2>3, <2>4, <2>5, <2>6 DEF TypeOK
<1>6. LockInv'
  <2>1. \/ writer' = writer
        \/ SingleWriter /\ writer \in {NoOne, w} /\ writer' = w
    BY FlushFacts
  <2>2. NoOne \notin Workers
    BY AuditAssumption
  <2>3. pc' \in [Workers -> {"idle", "handling", "flushed", "committing"}] /\ pc'[w] # "idle"
    BY DEF TypeOK
  <2>4. \A v \in Workers : v # w => pc'[v] = pc[v]
    BY DEF TypeOK
  <2>5. \A v \in Workers : v # w => own'[v] = own[v] /\ staged'[v] = staged[v]
    BY <1>3 DEF TypeOK
  <2>6. server = "serving" /\ server' = "serving"
    BY DEF LockInv, TypeOK
  <2>7. SingleWriter => \A v \in Workers : own'[v] # {} => writer' = v
    <3> SUFFICES ASSUME SingleWriter, NEW v \in Workers, own'[v] # {}
                 PROVE  writer' = v
      OBVIOUS
    <3>1. CASE v = w /\ own' = own
      BY <2>1, <3>1 DEF LockInv
    <3>2. CASE v = w /\ own' # own
      BY <1>3, <3>2
    <3>3. CASE v # w
      BY <2>1, <2>2, <2>5, <3>3 DEF LockInv
    <3>4. QED
      BY <3>1, <3>2, <3>3
  <2>8. \A v \in Workers : pc'[v] = "idle" => own'[v] = {} /\ staged'[v] = {} /\ writer' # v
    BY <2>1, <2>3, <2>4, <2>5 DEF LockInv
  <2>9. ~SingleWriter => writer' = NoOne
    BY <2>1 DEF LockInv
  <2>10. QED
    BY <2>6, <2>7, <2>8, <2>9 DEF LockInv
<1>7. QED
  BY <1>5, <1>6

\* Every step keeps the types and the row hashes.
LEMMA BaseStep == BaseInv /\ [Next]_vars => BaseInv'
<1> SUFFICES ASSUME BaseInv, [Next]_vars PROVE BaseInv'
  OBVIOUS
<1> USE AuditAssumption DEF BaseInv
<1>1. ASSUME NEW w \in Workers, Start(w) PROVE BaseInv'
  <2>1. TypeOK'
    BY <1>1 DEF Start, TypeOK, IsRow, IsStaged
  <2>2. LockInv'
    BY <1>1 DEF Start, TypeOK, LockInv
  <2>3. QED
    BY <2>1, <2>2
<1>2. ASSUME NEW w \in Workers, Change(w) PROVE BaseInv'
  <2>1. TypeOK'
    BY <1>2 DEF Change, TypeOK, IsRow, IsStaged
  <2>2. LockInv'
    BY <1>2 DEF Change, TypeOK, LockInv
  <2>3. QED
    BY <2>1, <2>2
<1>3. ASSUME NEW w \in Workers, AuditFlush(w) PROVE BaseInv'
  BY <1>3, FlushKeepsBase DEF AuditFlush
<1>4. ASSUME NEW w \in Workers, AuditStage(w) PROVE BaseInv'
  <2> DEFINE p == HeadRead(w)
             o == IF writer = w THEN "guarded" ELSE "bare"
  <2>1. PICK c \in Contents :
            staged' = [staged EXCEPT ![w] =
                {[content |-> c, prev |-> p, hash |-> EntryHash(p, c), origin |-> o]}]
    BY <1>4 DEF AuditStage
  <2>2. o \in {"guarded", "bare"}
    OBVIOUS
  <2> HIDE DEF p, o
  <2>3. ASSUME NEW v \in Workers, NEW s \in staged'[v] PROVE IsStaged(s)'
    <3>1. \/ s \in staged[v]
          \/ s = [content |-> c, prev |-> p, hash |-> EntryHash(p, c), origin |-> o]
      BY <2>1, <2>3 DEF TypeOK
    <3>2. QED
      BY <2>2, <3>1 DEF TypeOK, IsStaged
  <2>4. staged' = [v \in Workers |-> staged'[v]]
    BY <2>1 DEF TypeOK
  <2>5. TypeOK'
    BY <1>4, <2>3, <2>4 DEF AuditStage, TypeOK, IsRow
  <2>6. LockInv'
    BY <1>4, <2>1 DEF AuditStage, TypeOK, LockInv
  <2>7. QED
    BY <2>5, <2>6
<1>5. ASSUME NEW w \in Workers, CommitFlush(w) PROVE BaseInv'
  BY <1>5, FlushKeepsBase DEF CommitFlush
<1>6. ASSUME NEW w \in Workers, Ended(w), UNCHANGED <<lastId, server, work>>,
             pc[w] # "idle", rows' = rows \/ rows' = rows \cup own[w]
      PROVE  BaseInv'
  <2>1. \A r \in rows' : IsRow(r)'
    BY <1>6 DEF TypeOK, IsRow
  <2>2. TypeOK'
    BY <1>6, <2>1 DEF Ended, TypeOK, IsRow, IsStaged
  <2>3. LockInv'
    BY <1>6 DEF Ended, TypeOK, LockInv
  <2>4. QED
    BY <2>2, <2>3
<1>7. ASSUME Crash PROVE BaseInv'
  <2>1. TypeOK'
    BY <1>7 DEF Crash, TypeOK, IsRow, IsStaged
  <2>2. LockInv'
    BY <1>7 DEF Crash, TypeOK, LockInv
  <2>3. QED
    BY <2>1, <2>2
<1>8. ASSUME BackfillRow PROVE BaseInv'
  <2> DEFINE new(r) == Chained(r, StoredBefore(r, work))
  <2>1. PICK r \in work : work' = (work \ {r}) \cup {new(r)}
    BY <1>8 DEF BackfillRow
  <2>2. UNCHANGED <<rows, lastId, writer, server, requestVars>> /\ server = "starting"
    BY <1>8 DEF BackfillRow
  <2>3. IsRow(new(r))
    BY DEF TypeOK, IsRow, Chained
  <2>4. TypeOK'
    BY <2>1, <2>2, <2>3 DEF TypeOK, IsRow, IsStaged, requestVars
  <2>5. LockInv'
    BY <2>2 DEF TypeOK, LockInv, requestVars
  <2>6. QED
    BY <2>4, <2>5
<1>9. ASSUME BackfillCommit \/ BackfillFails PROVE BaseInv'
  <2>1. TypeOK'
    BY <1>9 DEF BackfillCommit, BackfillFails, TypeOK, IsRow, IsStaged, requestVars
  <2>2. LockInv'
    BY <1>9 DEF BackfillCommit, BackfillFails, TypeOK, LockInv, requestVars
  <2>3. QED
    BY <2>1, <2>2
<1>10. CASE UNCHANGED vars
  BY <1>10 DEF vars, TypeOK, LockInv, IsRow, IsStaged
<1>11. QED
  BY <1>1, <1>2, <1>3, <1>4, <1>5, <1>6, <1>7, <1>8, <1>9, <1>10
     DEF Next, Request, Commit, Rollback

\* The type invariant of the audit log holds in every reachable state.
THEOREM AuditTypes == Spec => []TypeOK
<1>1. BaseInv => TypeOK
  BY DEF BaseInv
<1>2. QED
  BY <1>1, BaseInit, BaseStep, PTL DEF Spec
-----------------------------------------------------------------------------
(* Hashes recompute and links point back, on either database.              *)

Sound(r) ==
    \/ r.prev = Null /\ r.hash = Null
    \/ r.prev # Null /\ HashOk(r)

\* The seed, or the hash of some row of S in front of the id.
PointsBack(prev, i, S) == prev = Genesis \/ \E q \in S : q.id < i /\ q.hash = prev

LinkInv ==
    /\ \A r \in rows : Sound(r) /\ (~NullRow(r) => PointsBack(r.prev, r.id, rows))
    /\ \A r \in work : Sound(r) /\ (~NullRow(r) => PointsBack(r.prev, r.id, work))
    /\ \A w \in Workers : \A r \in own[w] :
          r.prev # Null /\ HashOk(r) /\ PointsBack(r.prev, r.id, Visible(w))
    /\ \A w \in Workers : \A s \in staged[w] :
          /\ s.prev # Null /\ HashOk(s)
          /\ s.prev = Genesis \/ \E q \in Visible(w) : q.hash = s.prev

\* Every link is sound at the start.
LEMMA LinkInit == Init => LinkInv
<1> SUFFICES ASSUME Init PROVE LinkInv
  OBVIOUS
<1>1. PICK c \in [1..LegacyRows -> Contents] : rows = LegacyLog(c)
  BY DEF Init
<1>2. \A r \in rows : r.prev = Null /\ r.hash = Null
  BY <1>1 DEF LegacyLog
<1>3. QED
  BY <1>2 DEF Init, LinkInv, Sound, NullRow

\* A row that carries a hash has no NULL column.
LEMMA SoundFacts ==
    ASSUME NEW r, Sound(r)
    PROVE  /\ NullRow(r) => r.prev = Null /\ r.hash = Null
           /\ ~NullRow(r) => r.prev # Null /\ r.hash # Null /\ HashOk(r)
BY HashFacts DEF Sound, NullRow, HashOk

\* The chain head is the seed or the hash of a visible row, and never NULL.
LEMMA HeadFacts ==
    ASSUME NEW n \in Nat, NEW S, \A r \in S : r.id \in 1..n
    PROVE  /\ ChainHead(S) # Null
           /\ ChainHead(S) = Genesis \/ \E q \in S : q.hash = ChainHead(S)
<1>1. CASE S = {}
  BY <1>1, HashFacts DEF ChainHead
<1>2. CASE S # {}
  <2>1. Newest(S) \in S
    BY <1>2, NewestFacts
  <2>2. QED
    BY <1>2, <2>1, HashFacts DEF ChainHead
<1>3. QED
  BY <1>1, <1>2

\* A flush keeps every link sound.
LEMMA FlushKeepsLinks ==
    ASSUME BaseInv, LinkInv, NEW w \in Workers, Flush(w), UNCHANGED <<rows, work>>
    PROVE  LinkInv'
<1> USE DEF BaseInv
<1> DEFINE i == NewId(w)
           new == {Inserted(s, i) : s \in staged[w]}
<1>1. \/ own' = own /\ staged' = staged
      \/ own' = [own EXCEPT ![w] = own[w] \cup new] /\ staged' = [staged EXCEPT ![w] = {}]
  BY FlushFacts
<1>2. \A r \in Visible(w) : r.id < i
  BY NewIdFacts
<1> HIDE DEF i
<1>3. ASSUME NEW r \in new
      PROVE  r.prev # Null /\ HashOk(r) /\ PointsBack(r.prev, r.id, Visible(w))
  <2>1. PICK s \in staged[w] : r = Inserted(s, i)
    OBVIOUS
  <2>2. r.id = i /\ r.prev = s.prev /\ r.hash = s.hash /\ r.content = s.content
    BY <2>1 DEF Inserted
  <2>3. QED
    BY <1>2, <2>2 DEF LinkInv, HashOk, PointsBack
<1>4. CASE own' = own /\ staged' = staged
  BY <1>4 DEF LinkInv, PointsBack, Sound, Visible, HashOk, NullRow
<1>5. CASE /\ own' = [own EXCEPT ![w] = own[w] \cup new]
           /\ staged' = [staged EXCEPT ![w] = {}]
  <2> HIDE DEF new
  <2>1. \A v \in Workers : Visible(v) \subseteq Visible(v)'
    BY <1>5 DEF Visible, TypeOK
  <2>2. ASSUME NEW v \in Workers, NEW r \in own'[v]
        PROVE  (r.prev # Null /\ HashOk(r) /\ PointsBack(r.prev, r.id, Visible(v)))'
    <3>1. r \in own[v] \/ (v = w /\ r \in new)
      BY <1>5 DEF TypeOK
    <3>2. r.prev # Null /\ HashOk(r) /\ PointsBack(r.prev, r.id, Visible(v))
      BY <1>3, <3>1 DEF LinkInv
    <3>3. QED
      BY <2>1, <3>2 DEF PointsBack, HashOk
  <2>3. ASSUME NEW v \in Workers, NEW s \in staged'[v]
        PROVE  /\ s.prev # Null /\ HashOk(s)
               /\ s.prev = Genesis \/ \E q \in Visible(v)' : q.hash = s.prev
    <3>1. s \in staged[v]
      BY <1>5 DEF TypeOK
    <3>2. QED
      BY <2>1, <3>1 DEF LinkInv
  <2>4. QED
    BY <2>2, <2>3 DEF LinkInv, PointsBack, Sound, HashOk, NullRow
<1>6. QED
  BY <1>1, <1>4, <1>5

\* Every step keeps every link sound.
LEMMA LinkStep == BaseInv /\ LinkInv /\ [Next]_vars => LinkInv'
<1> SUFFICES ASSUME BaseInv, LinkInv, [Next]_vars PROVE LinkInv'
  OBVIOUS
<1> USE DEF BaseInv
<1>1. ASSUME UNCHANGED <<rows, work, own, staged>> PROVE LinkInv'
  BY <1>1 DEF LinkInv, PointsBack, Sound, Visible, HashOk, NullRow
<1>2. ASSUME NEW w \in Workers, Start(w) \/ Change(w) PROVE LinkInv'
  BY <1>1, <1>2 DEF Start, Change
<1>3. ASSUME NEW w \in Workers, AuditFlush(w) \/ CommitFlush(w) PROVE LinkInv'
  BY <1>3, FlushKeepsLinks DEF AuditFlush, CommitFlush
<1>4. ASSUME NEW w \in Workers, AuditStage(w) PROVE LinkInv'
  <2> DEFINE p == HeadRead(w)
             o == IF writer = w THEN "guarded" ELSE "bare"
  <2>1. PICK c \in Contents :
            staged' = [staged EXCEPT ![w] =
                {[content |-> c, prev |-> p, hash |-> EntryHash(p, c), origin |-> o]}]
    BY <1>4 DEF AuditStage
  <2>2. p # Null /\ (p = Genesis \/ \E q \in Visible(w) : q.hash = p)
    BY HeadFacts DEF TypeOK, IsRow, Visible, HeadRead
  <2> HIDE DEF p, o
  <2>3. UNCHANGED <<rows, work, own>>
    BY <1>4 DEF AuditStage
  <2>4. ASSUME NEW v \in Workers, NEW s \in staged'[v]
        PROVE  /\ s.prev # Null /\ HashOk(s)
               /\ s.prev = Genesis \/ \E q \in Visible(v) : q.hash = s.prev
    <3>1. \/ s \in staged[v]
          \/ v = w /\ s = [content |-> c, prev |-> p, hash |-> EntryHash(p, c), origin |-> o]
      BY <2>1, <2>4 DEF TypeOK
    <3>2. QED
      BY <2>2, <3>1 DEF LinkInv, HashOk
  <2>5. QED
    BY <2>3, <2>4 DEF LinkInv, PointsBack, Sound, Visible, HashOk, NullRow
<1>5. ASSUME NEW w \in Workers, Commit(w) PROVE LinkInv'
  <2>1. rows' = Visible(w) /\ work' = work /\ Ended(w)
    BY <1>5 DEF Commit, Visible
  <2>2. ASSUME NEW v \in Workers
        PROVE  own'[v] \in {own[v], {}} /\ staged'[v] \in {staged[v], {}}
    BY <2>1 DEF Ended, TypeOK
  <2>3. \A r \in rows' : Sound(r) /\ (~NullRow(r) => PointsBack(r.prev, r.id, rows'))
    BY <2>1 DEF LinkInv, PointsBack, Sound, Visible
  <2>4. rows \subseteq rows'
    BY <2>1 DEF Visible
  <2>5. ASSUME NEW v \in Workers, NEW r \in own'[v]
        PROVE  r.prev # Null /\ HashOk(r) /\ PointsBack(r.prev, r.id, rows' \cup own'[v])
    BY <2>2, <2>4 DEF LinkInv, PointsBack, Visible
  <2>6. ASSUME NEW v \in Workers, NEW s \in staged'[v], own'[v] = own[v]
        PROVE  /\ s.prev # Null /\ HashOk(s)
               /\ s.prev = Genesis \/ \E q \in rows' \cup own'[v] : q.hash = s.prev
    BY <2>2, <2>4, <2>6 DEF LinkInv, Visible
  <2>7. \A v \in Workers : staged'[v] # {} => own'[v] = own[v]
    BY <2>1 DEF Ended, TypeOK
  <2>8. QED
    BY <2>1, <2>3, <2>5, <2>6, <2>7 DEF LinkInv, PointsBack, Sound, Visible, HashOk, NullRow
<1>6. ASSUME NEW w \in Workers, Rollback(w) PROVE LinkInv'
  <2>1. rows' = rows /\ work' = work
    BY <1>6 DEF Rollback
  <2>2. \A v \in Workers : \/ own'[v] = own[v] /\ staged'[v] = staged[v]
                           \/ own'[v] = {} /\ staged'[v] = {}
    BY <1>6 DEF Rollback, Ended, TypeOK
  <2>3. QED
    BY <2>1, <2>2 DEF LinkInv, PointsBack, Sound, Visible, HashOk, NullRow
<1>7. ASSUME Crash PROVE LinkInv'
  BY <1>7 DEF Crash, LinkInv, PointsBack, Sound, Visible, HashOk, NullRow
<1>8. ASSUME BackfillRow PROVE LinkInv'
  <2>1. PICK r \in work :
            /\ NullRow(r)
            /\ \A q \in Before(r, work) : ~NullRow(q)
            /\ work' = (work \ {r}) \cup {Chained(r, StoredBefore(r, work))}
    BY <1>8 DEF BackfillRow, ToChain
  <2> DEFINE p == StoredBefore(r, work)
             new == Chained(r, p)
  <2>2. p # Null /\ PointsBack(p, r.id, work)
    <3>1. CASE Before(r, work) = {}
      BY <3>1, HashFacts DEF StoredBefore, PointsBack
    <3>2. CASE Before(r, work) # {}
      <4>1. Newest(Before(r, work)) \in Before(r, work)
        BY <3>2, NewestFacts DEF TypeOK, IsRow, Before
      <4>2. QED
        BY <2>1, <3>2, <4>1, SoundFacts DEF StoredBefore, PointsBack, LinkInv, Before
    <3>3. QED
      BY <3>1, <3>2
  <2> HIDE DEF p
  <2>3. new.id = r.id /\ new.prev = p /\ new.hash = EntryHash(p, new.content)
    BY DEF Chained
  <2>4. r.hash = Null
    BY <2>1, SoundFacts DEF LinkInv
  <2>5. work' = (work \ {r}) \cup {new}
    BY <2>1 DEF p
  <2> HIDE DEF new
  <2>6. ASSUME NEW x \in work', ~NullRow(x)
        PROVE  PointsBack(x.prev, x.id, work')
    <3>1. x.prev # Null
      BY <2>6 DEF NullRow
    <3>2. PointsBack(x.prev, x.id, work)
      BY <2>2, <2>3, <2>5, <2>6 DEF LinkInv
    <3>3. QED
      BY <2>4, <2>5, <3>1, <3>2 DEF PointsBack
  <2>7. \A x \in work' : Sound(x)
    BY <2>2, <2>3, <2>5 DEF LinkInv, Sound, HashOk
  <2>8. UNCHANGED <<rows, own, staged>>
    BY <1>8 DEF BackfillRow, requestVars
  <2>9. QED
    BY <2>6, <2>7, <2>8 DEF LinkInv, PointsBack, Sound, Visible, HashOk, NullRow
<1>9. ASSUME BackfillCommit PROVE LinkInv'
  <2>1. \A w \in Workers : own[w] = {} /\ staged[w] = {}
    BY <1>9 DEF BackfillCommit, LockInv
  <2>2. QED
    BY <1>9, <2>1 DEF BackfillCommit, requestVars, LinkInv, PointsBack, Sound, Visible, HashOk,
                      NullRow
<1>10. ASSUME BackfillFails PROVE LinkInv'
  BY <1>10 DEF BackfillFails, requestVars, LinkInv, PointsBack, Sound, Visible, HashOk, NullRow
<1>11. CASE UNCHANGED vars
  BY <1>1, <1>11 DEF vars
<1>12. QED
  BY <1>2, <1>3, <1>4, <1>5, <1>6, <1>7, <1>8, <1>9, <1>10, <1>11 DEF Next, Request

\* In every reachable state the links are sound.
LEMMA LinkCorrect == Spec => [](BaseInv /\ LinkInv)
BY BaseInit, BaseStep, LinkInit, LinkStep, PTL DEF Spec

\* An untouched row always carries the hash of its own content: no interleaving,
\* rollback, crash or backfill makes the audit page report a modified row.
THEOREM AuditHashesRecompute == Spec => []HashesRecompute
<1>1. LinkInv => HashesRecompute
  BY SoundFacts DEF LinkInv, HashesRecompute, Sound
<1>2. QED
  BY <1>1, LinkCorrect, PTL

\* On SQLite and PostgreSQL alike the log is a tree rooted in the genesis seed:
\* no committed row is chained to a row that was rolled back or comes later.
THEOREM AuditPrevIsEarlier == Spec => []PrevIsEarlier
<1>1. LinkInv => PrevIsEarlier
  BY DEF LinkInv, PrevIsEarlier, PointsBack
<1>2. QED
  BY <1>1, LinkCorrect, PTL
-----------------------------------------------------------------------------
(* On SQLite a transaction's rows come after every committed row, and the  *)
(* backfill's session holds the committed rows with some more hashes.      *)

OwnAfter ==
    SingleWriter => \A w \in Workers : \A r \in own[w] : \A q \in rows : q.id < r.id

Same(r, q) == q.id = r.id /\ q.content = r.content /\ (~NullRow(r) => q = r)

WorkMatches ==
    server = "starting" =>
        /\ \A r \in rows : \E q \in work : Same(r, q)
        /\ \A q \in work : \E r \in rows : Same(r, q)

OrderInv == OwnAfter /\ WorkMatches

\* While one transaction holds inserted rows, no other one inserts or commits.
LEMMA OthersOwnNothing ==
    ASSUME BaseInv, SingleWriter, NEW w \in Workers, own[w] # {}
    PROVE  writer = w /\ \A v \in Workers : v # w => own[v] = {}
BY DEF BaseInv, LockInv

\* One writer at a time, at the start.
LEMMA OrderInit == Init => OrderInv
BY DEF Init, OrderInv, OwnAfter, WorkMatches, Same

\* A flush leaves one writer at a time.
LEMMA FlushKeepsOrder ==
    ASSUME BaseInv, OrderInv, NEW w \in Workers, Flush(w), UNCHANGED <<rows, server, work>>
    PROVE  OrderInv'
<1> DEFINE i == NewId(w)
<1>1. \A q \in rows : q.id < i
  BY NewIdFacts DEF Visible, BaseInv
<1>2. \/ own' = own
      \/ own' = [own EXCEPT ![w] = own[w] \cup {Inserted(s, i) : s \in staged[w]}]
  BY FlushFacts DEF BaseInv
<1> HIDE DEF i
<1>3. ASSUME SingleWriter, NEW v \in Workers, NEW r \in own'[v], NEW q \in rows
      PROVE  q.id < r.id
  <2>1. r \in own[v] \/ \E s \in staged[w] : r = Inserted(s, i)
    BY <1>2, <1>3 DEF BaseInv, TypeOK
  <2>2. CASE r \in own[v]
    BY <1>3, <2>2 DEF OrderInv, OwnAfter
  <2>3. CASE \E s \in staged[w] : r = Inserted(s, i)
    BY <1>1, <2>3 DEF Inserted
  <2>4. QED
    BY <2>1, <2>2, <2>3
<1>4. OwnAfter'
  BY <1>3 DEF OwnAfter
<1>5. WorkMatches'
  BY DEF OrderInv, WorkMatches, Same, NullRow
<1>6. QED
  BY <1>4, <1>5 DEF OrderInv

\* Every step leaves one writer at a time.
LEMMA OrderStep == BaseInv /\ OrderInv /\ [Next]_vars => OrderInv'
<1> SUFFICES ASSUME BaseInv, OrderInv, [Next]_vars PROVE OrderInv'
  OBVIOUS
<1>1. ASSUME UNCHANGED <<rows, work, own, server>> PROVE OrderInv'
  BY <1>1 DEF OrderInv, OwnAfter, WorkMatches, Same, NullRow
<1>2. ASSUME NEW w \in Workers, Start(w) \/ Change(w) \/ AuditStage(w) PROVE OrderInv'
  BY <1>1, <1>2 DEF Start, Change, AuditStage
<1>3. ASSUME NEW w \in Workers, AuditFlush(w) \/ CommitFlush(w) PROVE OrderInv'
  BY <1>3, FlushKeepsOrder DEF AuditFlush, CommitFlush
<1>4. ASSUME NEW w \in Workers, Commit(w) PROVE OrderInv'
  <2>1. rows' = rows \cup own[w] /\ Ended(w) /\ UNCHANGED <<server, work>>
    BY <1>4 DEF Commit
  <2>2. \A v \in Workers : own'[v] = IF v = w THEN {} ELSE own[v]
    BY <2>1 DEF Ended, BaseInv, TypeOK
  <2>3. OwnAfter'
    <3>1. CASE own[w] = {}
      BY <2>1, <2>2, <3>1 DEF OrderInv, OwnAfter
    <3>2. CASE own[w] # {}
      BY <2>2, <3>2, OthersOwnNothing DEF OwnAfter
    <3>3. QED
      BY <3>1, <3>2
  <2>4. server' # "starting"
    BY <1>4 DEF Commit, BaseInv, LockInv, TypeOK
  <2>5. QED
    BY <2>3, <2>4 DEF OrderInv, WorkMatches
<1>5. ASSUME NEW w \in Workers, Rollback(w) PROVE OrderInv'
  <2>1. UNCHANGED <<rows, server, work>>
    BY <1>5 DEF Rollback
  <2>2. \A v \in Workers : own'[v] \in {own[v], {}}
    BY <1>5 DEF Rollback, Ended, BaseInv, TypeOK
  <2>3. QED
    BY <2>1, <2>2 DEF OrderInv, OwnAfter, WorkMatches, Same, NullRow
<1>6. ASSUME Crash PROVE OrderInv'
  BY <1>6 DEF Crash, OrderInv, OwnAfter, WorkMatches, Same
<1>7. ASSUME BackfillRow PROVE OrderInv'
  <2> DEFINE new(r) == Chained(r, StoredBefore(r, work))
  <2>1. PICK r \in work : NullRow(r) /\ work' = (work \ {r}) \cup {new(r)}
    BY <1>7 DEF BackfillRow, ToChain
  <2>2. new(r).id = r.id /\ new(r).content = r.content
    BY DEF Chained
  <2>3. UNCHANGED <<rows, own, server>> /\ server = "starting"
    BY <1>7 DEF BackfillRow, requestVars
  <2>4. \A x : Same(x, r) => Same(x, new(r))
    BY <2>1, <2>2 DEF Same
  <2> HIDE DEF new
  <2>5. \A x \in rows : \E q \in work' : Same(x, q)
    <3>1. TAKE x \in rows
    <3>2. PICK q \in work : Same(x, q)
      BY <2>3 DEF OrderInv, WorkMatches
    <3>3. QED
      BY <2>1, <2>4, <3>2
  <2>6. \A q \in work' : \E x \in rows : Same(x, q)
    <3>1. TAKE q \in work'
    <3>2. q \in work \/ q = new(r)
      BY <2>1
    <3>3. QED
      BY <2>3, <2>4, <3>2 DEF OrderInv, WorkMatches
  <2>7. WorkMatches'
    BY <2>3, <2>5, <2>6 DEF WorkMatches, Same, NullRow
  <2>8. QED
    BY <2>3, <2>7 DEF OrderInv, OwnAfter
<1>8. ASSUME BackfillCommit PROVE OrderInv'
  <2>1. \A w \in Workers : own'[w] = {}
    BY <1>8 DEF BackfillCommit, requestVars, BaseInv, LockInv
  <2>2. QED
    BY <1>8, <2>1 DEF BackfillCommit, OrderInv, OwnAfter, WorkMatches
<1>9. ASSUME BackfillFails PROVE OrderInv'
  BY <1>9 DEF BackfillFails, requestVars, OrderInv, OwnAfter, WorkMatches
<1>10. CASE UNCHANGED vars
  BY <1>1, <1>10 DEF vars
<1>11. QED
  BY <1>2, <1>3, <1>4, <1>5, <1>6, <1>7, <1>8, <1>9, <1>10 DEF Next, Request

\* A step only appends, or fills in the columns of the chain.
LEMMA AppendStep ==
    ASSUME BaseInv, OrderInv, [Next]_vars
    PROVE  /\ \A r \in rows : \E q \in rows' : Same(r, q)
           /\ SingleWriter => \A q \in rows' :
                 (\A r \in rows : r.id < q.id) \/ \E r \in rows : Same(r, q)
<1>1. CASE rows' = rows
  BY <1>1 DEF Same
<1>2. ASSUME NEW w \in Workers, Commit(w)
      PROVE  /\ \A r \in rows : \E q \in rows' : Same(r, q)
             /\ SingleWriter => \A q \in rows' :
                   (\A r \in rows : r.id < q.id) \/ \E r \in rows : Same(r, q)
  <2>1. rows' = rows \cup own[w]
    BY <1>2 DEF Commit
  <2>2. QED
    BY <2>1 DEF Same, OrderInv, OwnAfter
<1>3. CASE BackfillCommit
  BY <1>3 DEF BackfillCommit, OrderInv, WorkMatches
<1>4. CASE UNCHANGED vars
  BY <1>1, <1>4 DEF vars
<1>5. QED
  BY <1>1, <1>2, <1>3, <1>4
     DEF Next, Request, Start, Change, AuditFlush, AuditStage, CommitFlush, Rollback, Crash,
         BackfillRow, BackfillFails

\* Committed rows are never changed or removed, the backfill only fills empty
\* hashes in, and on SQLite commits only append.
THEOREM AuditAppendOnly == Spec => AppendOnly
<1> DEFINE Grows == /\ \A r \in rows : \E q \in rows' :
                         /\ q.id = r.id /\ q.content = r.content
                         /\ ~NullRow(r) => q = r
                    /\ SingleWriter => \A q \in rows' :
                         \/ \A r \in rows : r.id < q.id
                         \/ \E r \in rows : r.id = q.id /\ (~NullRow(r) => q = r)
<1>1. BaseInv /\ OrderInv /\ [Next]_vars => Grows
  BY AppendStep DEF Same
<1>2. BaseInv /\ OrderInv /\ [Next]_vars => [Grows]_vars
  BY <1>1
<1>3. QED
  BY <1>2, BaseInit, BaseStep, OrderInit, OrderStep, PTL DEF Spec, AppendOnly
-----------------------------------------------------------------------------
(* On SQLite no two rows that are seen together have the same id.          *)

UniqueIds(S) == \A r \in S, q \in S : r.id = q.id => r = q

UniqueInv ==
    SingleWriter =>
        /\ UniqueIds(rows) /\ UniqueIds(work)
        /\ \A w \in Workers : UniqueIds(Visible(w))
        /\ \A w \in Workers : \A s \in staged[w], t \in staged[w] : s = t

\* Ids are unique at the start.
LEMMA UniqueInit == Init => UniqueInv
<1> SUFFICES ASSUME Init PROVE UniqueInv
  OBVIOUS
<1>1. PICK c \in [1..LegacyRows -> Contents] : rows = LegacyLog(c)
  BY DEF Init
<1>2. UniqueIds(rows)
  BY <1>1 DEF LegacyLog, UniqueIds
<1>3. QED
  BY <1>2 DEF Init, UniqueInv, Visible, UniqueIds

\* Every step keeps ids unique.
LEMMA UniqueStep ==
    ASSUME BaseInv, UniqueInv, [Next]_vars
    PROVE  UniqueInv'
<1> SUFFICES ASSUME SingleWriter PROVE UniqueInv'
  BY DEF UniqueInv
<1>1. ASSUME UNCHANGED <<rows, work, own, staged>> PROVE UniqueInv'
  BY <1>1 DEF UniqueInv, UniqueIds, Visible
<1>2. ASSUME NEW w \in Workers, Start(w) \/ Change(w) PROVE UniqueInv'
  BY <1>1, <1>2 DEF Start, Change
<1>3. ASSUME NEW w \in Workers, AuditFlush(w) \/ CommitFlush(w) PROVE UniqueInv'
  <2> DEFINE i == NewId(w)
             new == {Inserted(s, i) : s \in staged[w]}
  <2>1. UNCHANGED <<rows, work>>
    BY <1>3 DEF AuditFlush, CommitFlush
  <2>2. \/ own' = own /\ staged' = staged
        \/ own' = [own EXCEPT ![w] = own[w] \cup new] /\ staged' = [staged EXCEPT ![w] = {}]
    BY <1>3, FlushFacts DEF AuditFlush, CommitFlush, BaseInv
  <2>3. \A r \in Visible(w) : r.id < i /\ r.id \in Nat
    BY NewIdFacts DEF BaseInv, TypeOK, IsRow, Visible
  <2>4. i \in Nat
    BY NewIdFacts DEF BaseInv
  <2>5. \A r \in new : r.id = i
    BY DEF Inserted
  <2>6. \A r \in new, q \in new : r = q
    BY DEF UniqueInv
  <2> HIDE DEF i, new
  <2>7. CASE own' = own /\ staged' = staged
    BY <1>1, <2>1, <2>7
  <2>8. CASE /\ own' = [own EXCEPT ![w] = own[w] \cup new]
             /\ staged' = [staged EXCEPT ![w] = {}]
    <3>1. Visible(w)' = Visible(w) \cup new
      BY <2>1, <2>8 DEF Visible, BaseInv, TypeOK
    <3>2. \A r \in Visible(w), q \in new : r.id # q.id
      BY <2>3, <2>4, <2>5
    <3>3. UniqueIds(Visible(w)')
      BY <2>6, <3>1, <3>2 DEF UniqueInv, UniqueIds
    <3>4. \A v \in Workers : v # w => Visible(v)' = Visible(v) /\ staged'[v] = staged[v]
      BY <2>1, <2>8 DEF Visible, BaseInv, TypeOK
    <3>5. staged'[w] = {}
      BY <2>8 DEF BaseInv, TypeOK
    <3>6. ASSUME NEW v \in Workers PROVE UniqueIds(Visible(v)')
      BY <3>3, <3>4 DEF UniqueInv
    <3>7. ASSUME NEW v \in Workers, NEW s \in staged'[v], NEW t \in staged'[v] PROVE s = t
      BY <3>4, <3>5 DEF UniqueInv
    <3>8. UniqueIds(rows') /\ UniqueIds(work')
      BY <2>1 DEF UniqueInv
    <3>9. QED
      BY <3>6, <3>7, <3>8 DEF UniqueInv, UniqueIds
  <2>9. QED
    BY <2>2, <2>7, <2>8
<1>4. ASSUME NEW w \in Workers, AuditStage(w) PROVE UniqueInv'
  <2> DEFINE o == IF writer = w THEN "guarded" ELSE "bare"
  <2>1. UNCHANGED <<rows, own, work>>
    BY <1>4 DEF AuditStage
  <2>2. PICK c \in Contents :
            staged' = [staged EXCEPT ![w] =
                {[content |-> c, prev |-> HeadRead(w), hash |-> EntryHash(HeadRead(w), c),
                  origin |-> o]}]
    BY <1>4 DEF AuditStage
  <2>3. \A v \in Workers : \A s \in staged'[v], t \in staged'[v] : s = t
    BY <2>2 DEF UniqueInv, BaseInv, TypeOK
  <2>4. QED
    BY <2>1, <2>3 DEF UniqueInv, UniqueIds, Visible
<1>5. ASSUME NEW w \in Workers, Commit(w) PROVE UniqueInv'
  <2>1. rows' = Visible(w) /\ Ended(w) /\ work' = work
    BY <1>5 DEF Commit, Visible
  <2>2. \A v \in Workers : /\ own'[v] = IF v = w THEN {} ELSE own[v]
                           /\ staged'[v] = IF v = w THEN {} ELSE staged[v]
    BY <2>1 DEF Ended, BaseInv, TypeOK
  <2>3. ASSUME NEW v \in Workers PROVE Visible(v)' = Visible(v) \/ Visible(v)' = Visible(w)
    <3>1. CASE v = w \/ own[v] = {}
      BY <2>1, <2>2, <3>1 DEF Visible
    <3>2. CASE v # w /\ own[v] # {}
      <4>1. own[w] = {}
        BY <3>2, OthersOwnNothing
      <4>2. QED
        BY <2>1, <2>2, <3>2, <4>1 DEF Visible
    <3>3. QED
      BY <3>1, <3>2
  <2>4. ASSUME NEW v \in Workers PROVE UniqueIds(Visible(v)')
    BY <2>3 DEF UniqueInv
  <2>5. UniqueIds(rows') /\ UniqueIds(work')
    BY <2>1 DEF UniqueInv
  <2>6. QED
    BY <2>2, <2>4, <2>5 DEF UniqueInv, UniqueIds
<1>6. ASSUME NEW w \in Workers, Rollback(w) PROVE UniqueInv'
  <2>1. UNCHANGED <<rows, work>>
    BY <1>6 DEF Rollback
  <2>2. \A v \in Workers : own'[v] \in {own[v], {}} /\ staged'[v] \in {staged[v], {}}
    BY <1>6 DEF Rollback, Ended, BaseInv, TypeOK
  <2>3. QED
    BY <2>1, <2>2 DEF UniqueInv, UniqueIds, Visible
<1>7. ASSUME Crash PROVE UniqueInv'
  BY <1>7 DEF Crash, UniqueInv, UniqueIds, Visible
<1>8. ASSUME BackfillRow PROVE UniqueInv'
  <2>0. PICK r \in work : work' = (work \ {r}) \cup {Chained(r, StoredBefore(r, work))}
    BY <1>8 DEF BackfillRow
  <2> DEFINE new == Chained(r, StoredBefore(r, work))
  <2>1. new.id = r.id /\ work' = (work \ {r}) \cup {new}
    BY <2>0 DEF Chained
  <2> HIDE DEF new
  <2>2. UniqueIds(work')
    BY <2>1 DEF UniqueInv, UniqueIds
  <2>3. UNCHANGED <<rows, own, staged>>
    BY <1>8 DEF BackfillRow, requestVars
  <2>4. QED
    BY <2>2, <2>3 DEF UniqueInv, UniqueIds, Visible
<1>9. ASSUME BackfillCommit PROVE UniqueInv'
  <2>1. \A w \in Workers : own'[w] = {} /\ staged'[w] = {}
    BY <1>9 DEF BackfillCommit, requestVars, BaseInv, LockInv
  <2>2. rows' = work /\ work' = {}
    BY <1>9 DEF BackfillCommit
  <2>3. QED
    BY <2>1, <2>2 DEF UniqueInv, UniqueIds, Visible
<1>10. ASSUME BackfillFails PROVE UniqueInv'
  <2>1. work' = {} /\ UNCHANGED <<rows, own, staged>>
    BY <1>10 DEF BackfillFails, requestVars
  <2>2. QED
    BY <2>1 DEF UniqueInv, UniqueIds, Visible
<1>11. CASE UNCHANGED vars
  BY <1>1, <1>11 DEF vars
<1>12. QED
  BY <1>2, <1>3, <1>4, <1>5, <1>6, <1>7, <1>8, <1>9, <1>10, <1>11 DEF Next, Request
-----------------------------------------------------------------------------
(* Which links break on SQLite.  A request that holds the write lock reads *)
(* the head of a log nobody else can extend, so its staged row fits when   *)
(* inserted; only rows from before the chain can be without a hash.        *)

Linked(r, S) == ~NullRow(r) /\ r.origin # "bare" => LinkOk(r, S) \/ OnUnhashed(r, S)

Fits(r, S) == Linked(r, S) /\ (NullRow(r) => r.origin = "legacy")

ChainInv ==
    SingleWriter =>
        /\ \A r \in rows : Fits(r, rows)
        /\ \A r \in work : Fits(r, work)
        /\ \A w \in Workers : \A r \in own[w] : Fits(r, Visible(w))
        /\ \A w \in Workers : \A s \in staged[w] :
              s.origin = "guarded" => writer = w /\ s.prev = ChainHead(Visible(w))

\* Whether a row fits depends on the rows in front of it only.
LEMMA FitsLocal ==
    ASSUME NEW r, NEW S, NEW T, Fits(r, S),
           \A q : q.id < r.id => (q \in S <=> q \in T)
    PROVE  Fits(r, T)
<1>1. Before(r, S) = Before(r, T)
  BY DEF Before
<1>2. QED
  BY <1>1 DEF Fits, Linked, LinkOk, OnUnhashed, StoredBefore

\* A row chained to the head of what is in front of it fits.
LEMMA HeadFits ==
    ASSUME NEW n \in Nat,
           NEW S, \A q \in S : q.id \in 1..n /\ (NullRow(q) => q.origin = "legacy"),
           NEW r, r.prev = ChainHead(S),
           NEW T, \A q : q \in S <=> q \in T /\ q.id < r.id
    PROVE  LinkOk(r, T) \/ OnUnhashed(r, T)
<1>1. Before(r, T) = S
  BY DEF Before
<1>2. CASE S = {}
  BY <1>1, <1>2 DEF ChainHead, StoredBefore, LinkOk
<1>3. CASE S # {}
  <2>1. Newest(S) \in S
    BY <1>3, NewestFacts
  <2>2. CASE Newest(S).hash = Null
    <3>1. Newest(S).origin = "legacy"
      BY <2>1, <2>2 DEF NullRow
    <3>2. QED
      BY <1>1, <1>3, <2>2, <3>1 DEF ChainHead, OnUnhashed
  <2>3. CASE Newest(S).hash # Null
    BY <1>1, <1>3, <2>3 DEF ChainHead, StoredBefore, LinkOk
  <2>4. QED
    BY <2>2, <2>3
<1>4. QED
  BY <1>2, <1>3

\* When a row is filled in, it is the newest one if it was that before, and
\* otherwise the newest one is another as before.
LEMMA NewestSwap ==
    ASSUME NEW n \in Nat, NEW S, \A q \in S : q.id \in 1..n, UniqueIds(S),
           NEW r \in S, NEW new, new.id = r.id,
           NEW T, T = (S \ {r}) \cup {new}
    PROVE  Newest(T) = IF Newest(S) = r THEN new ELSE Newest(S)
<1>1. Newest(S) \in S /\ \A q \in S : q.id <= Newest(S).id
  BY NewestFacts
<1>2. \A q \in T : q.id \in 1..n
  OBVIOUS
<1>3. Newest(T) \in T /\ \A q \in T : q.id <= Newest(T).id
  BY <1>2, NewestFacts
<1>4. Newest(T).id <= Newest(S).id /\ Newest(S).id <= Newest(T).id
  BY <1>1, <1>3
<1>5. Newest(T).id = Newest(S).id
  <2>1. Newest(T).id \in Nat /\ Newest(S).id \in Nat
    BY <1>1, <1>2, <1>3
  <2>2. QED
    BY <1>4, <2>1
<1>6. UniqueIds(T)
  BY DEF UniqueIds
<1>7. QED
  BY <1>1, <1>3, <1>5, <1>6 DEF UniqueIds

\* All rows fit at the start.
LEMMA ChainInit == Init => ChainInv
<1> SUFFICES ASSUME Init PROVE ChainInv
  OBVIOUS
<1>1. PICK c \in [1..LegacyRows -> Contents] : rows = LegacyLog(c)
  BY DEF Init
<1>2. \A r \in rows : NullRow(r) /\ r.origin = "legacy"
  BY <1>1 DEF LegacyLog, NullRow
<1>3. QED
  BY <1>2 DEF Init, ChainInv, Fits, Linked

\* A flush inserts rows that fit.
LEMMA FlushKeepsChain ==
    ASSUME BaseInv, LinkInv, OrderInv, ChainInv, NEW w \in Workers, Flush(w),
           UNCHANGED <<rows, work>>
    PROVE  ChainInv'
<1> SUFFICES ASSUME SingleWriter PROVE ChainInv'
  BY DEF ChainInv
<1> DEFINE i == NewId(w)
           new == {Inserted(s, i) : s \in staged[w]}
<1>1. \A q \in Visible(w) : q.id < i
  BY NewIdFacts DEF BaseInv
<1>2. i \in Nat
  BY NewIdFacts DEF BaseInv
<1>3. \/ own' = own /\ staged' = staged
      \/ /\ own' = [own EXCEPT ![w] = own[w] \cup new]
         /\ staged' = [staged EXCEPT ![w] = {}]
         /\ writer \in {NoOne, w}
  BY FlushFacts DEF BaseInv
<1>4. writer' = writer \/ (writer \in {NoOne, w} /\ writer' = w)
  BY FlushFacts DEF BaseInv
<1> HIDE DEF i
<1>5. \A v \in Workers : \A r \in Visible(v) :
          r.id \in 1..lastId /\ (NullRow(r) => r.origin = "legacy")
  BY DEF BaseInv, TypeOK, IsRow, Visible, ChainInv, Fits
<1>6. ASSUME NEW v \in Workers, NEW r \in own'[v] PROVE Fits(r, Visible(v)')
  <2>1. CASE r \in own[v]
    <3>1. Fits(r, Visible(v))
      BY <2>1 DEF ChainInv
    <3>2. r.id \in 1..lastId /\ lastId \in Nat
      BY <1>5, <2>1 DEF Visible, BaseInv, TypeOK
    <3>3. \A q : q.id < r.id => (q \in Visible(v) <=> q \in Visible(v)')
      <4>1. \A q \in new : q.id = i
        BY DEF Inserted
      <4>2. v = w => r.id < i
        BY <1>1, <2>1 DEF Visible
      <4>3. \A q \in new : v = w => ~(q.id < r.id)
        BY <1>2, <3>2, <4>1, <4>2
      <4> HIDE DEF new
      <4>4. CASE v = w /\ own' = [own EXCEPT ![w] = own[w] \cup new]
        BY <4>3, <4>4 DEF Visible, BaseInv, TypeOK
      <4>5. CASE own'[v] = own[v]
        BY <4>5 DEF Visible
      <4>6. QED
        BY <1>3, <4>4, <4>5 DEF BaseInv, TypeOK
    <3>4. QED
      BY <3>1, <3>3, FitsLocal
  <2>2. CASE r \notin own[v]
    <3>1. v = w /\ own'[w] = own[w] \cup new /\ r \in new
      BY <1>3, <1>6, <2>2 DEF BaseInv, TypeOK
    <3>2. PICK s \in staged[w] : r = Inserted(s, i)
      BY <3>1
    <3>3. r.id = i /\ r.prev = s.prev /\ r.hash = s.hash /\ r.content = s.content /\ r.origin = s.origin
      BY <3>2 DEF Inserted
    <3>4. s.origin \in {"guarded", "bare"}
      BY DEF BaseInv, TypeOK, IsStaged
    <3>5. ~NullRow(r)
      BY <3>3, HashFacts DEF LinkInv, HashOk, NullRow
    <3>6. SUFFICES ASSUME s.origin = "guarded"
                   PROVE  LinkOk(r, Visible(w)') \/ OnUnhashed(r, Visible(w)')
      BY <3>1, <3>3, <3>4, <3>5 DEF Fits, Linked
    <3>7. r.prev = ChainHead(Visible(w))
      BY <3>3, <3>6 DEF ChainInv
    <3>8. Visible(w)' = Visible(w) \cup new
      BY <3>1 DEF Visible
    <3>9. \A q \in new : ~(q.id < r.id)
      BY <1>2, <3>3 DEF Inserted
    <3> HIDE DEF new
    <3>10. \A q : q \in Visible(w) <=> q \in Visible(w)' /\ q.id < r.id
      BY <1>1, <3>3, <3>8, <3>9
    <3>11. lastId \in Nat
      BY DEF BaseInv, TypeOK
    <3>12. QED
      BY <1>5, <3>7, <3>10, <3>11, HeadFits
  <2>3. QED
    BY <2>1, <2>2
<1>7. ASSUME NEW v \in Workers, NEW s \in staged'[v], s.origin = "guarded"
      PROVE  writer' = v /\ s.prev = ChainHead(Visible(v)')
  <2>1. s \in staged[v] /\ own'[v] = own[v]
    BY <1>3, <1>7 DEF BaseInv, TypeOK
  <2>2. writer = v /\ s.prev = ChainHead(Visible(v))
    BY <1>7, <2>1 DEF ChainInv
  <2>3. v # NoOne
    BY AuditAssumption
  <2>4. writer' = v
    BY <1>4, <2>2, <2>3
  <2>5. QED
    BY <2>1, <2>2, <2>4 DEF Visible
<1>8. (\A r \in rows' : Fits(r, rows')) /\ (\A r \in work' : Fits(r, work'))
  BY DEF ChainInv
<1> HIDE DEF new
<1>9. QED
  BY <1>6, <1>7, <1>8 DEF ChainInv, Fits, Linked, LinkOk, OnUnhashed, StoredBefore, Before, NullRow

\* Filling in the next row leaves all others where they fit.
LEMMA BackfillKeepsChain ==
    ASSUME BaseInv, LinkInv, UniqueInv, ChainInv, SingleWriter, BackfillRow
    PROVE  \A x \in work' : Fits(x, work')
<1>1. PICK r \in work :
          /\ NullRow(r)
          /\ work' = (work \ {r}) \cup {Chained(r, StoredBefore(r, work))}
  BY DEF BackfillRow, ToChain
<1>2. PICK new : new = Chained(r, StoredBefore(r, work))
  OBVIOUS
<1>3. new.id = r.id /\ new.prev = StoredBefore(r, work) /\ new.origin = r.origin
  BY <1>2 DEF Chained
<1>4. r.origin = "legacy" /\ r.hash = Null
  BY <1>1, SoundFacts DEF ChainInv, Fits, LinkInv
<1>5. \A x \in work : x.id \in 1..lastId /\ lastId \in Nat
  BY DEF BaseInv, TypeOK, IsRow
<1>6. Before(new, work') = Before(r, work)
  <2>1. ~(r.id < r.id)
    BY <1>5
  <2>2. QED
    BY <1>1, <1>2, <1>3, <2>1 DEF Before
<1>7. Fits(new, work')
  BY <1>3, <1>4, <1>6 DEF Fits, Linked, LinkOk, StoredBefore
<1>8. ASSUME NEW x \in work, x # r PROVE Fits(x, work')
  <2>1. Fits(x, work) /\ x.id \in Nat /\ r.id \in Nat
    BY <1>5 DEF ChainInv
  <2>2. CASE ~(r.id < x.id)
    <3>1. \A q : q.id < x.id => (q \in work <=> q \in work')
      BY <1>1, <1>2, <1>3, <2>2
    <3>2. QED
      BY <2>1, <3>1, FitsLocal
  <2>3. CASE r.id < x.id
    <3> DEFINE B == Before(x, work)
    <3>1. /\ r \in B /\ \A q \in B : q.id \in 1..lastId
          /\ Before(x, work') = (B \ {r}) \cup {new}
          /\ UniqueIds(B) /\ lastId \in Nat
      BY <1>1, <1>2, <1>3, <1>5, <2>3 DEF Before, UniqueInv, UniqueIds
    <3>2. Newest(Before(x, work')) = IF Newest(B) = r THEN new ELSE Newest(B)
      BY <1>3, <3>1, NewestSwap
    <3>3. SUFFICES ASSUME ~NullRow(x), x.origin # "bare"
                   PROVE  LinkOk(x, work') \/ OnUnhashed(x, work')
      BY <2>1 DEF Fits, Linked
    <3>4. Before(x, work') # {} /\ B # {}
      BY <3>1
    <3> HIDE DEF B
    <3>5. CASE LinkOk(x, work)
      <4>1. x.prev = Newest(B).hash
        BY <3>4, <3>5 DEF LinkOk, StoredBefore, B
      <4>2. Newest(B) # r
        BY <1>4, <3>3, <4>1 DEF NullRow
      <4>3. QED
        BY <3>2, <3>4, <4>1, <4>2 DEF LinkOk, StoredBefore
    <3>6. CASE OnUnhashed(x, work)
      BY <1>3, <3>2, <3>4, <3>6 DEF OnUnhashed, B
    <3>7. QED
      BY <2>1, <3>3, <3>5, <3>6 DEF Fits, Linked
  <2>4. QED
    BY <2>2, <2>3
<1>9. QED
  BY <1>1, <1>2, <1>7, <1>8

\* Every step leaves rows that fit.
LEMMA ChainStep ==
    ASSUME BaseInv, LinkInv, OrderInv, UniqueInv, ChainInv, [Next]_vars
    PROVE  ChainInv'
<1> SUFFICES ASSUME SingleWriter PROVE ChainInv'
  BY DEF ChainInv
<1> USE DEF Fits
<1>1. ASSUME UNCHANGED <<rows, work, own, staged, writer>> PROVE ChainInv'
  BY <1>1 DEF ChainInv, Linked, LinkOk, OnUnhashed, StoredBefore, Before, NullRow, Visible
<1>2. ASSUME NEW w \in Workers, Start(w) \/ Change(w) PROVE ChainInv'
  BY <1>1, <1>2 DEF Start, Change
<1>3. ASSUME NEW w \in Workers, AuditFlush(w) \/ CommitFlush(w) PROVE ChainInv'
  <2>1. Flush(w) /\ UNCHANGED <<rows, work>>
    BY <1>3 DEF AuditFlush, CommitFlush
  <2>2. QED
    BY <2>1, FlushKeepsChain
<1>4. ASSUME NEW w \in Workers, AuditStage(w) PROVE ChainInv'
  <2> DEFINE o == IF writer = w THEN "guarded" ELSE "bare"
  <2>1. PICK c \in Contents :
            staged' = [staged EXCEPT ![w] =
                {[content |-> c, prev |-> HeadRead(w), hash |-> EntryHash(HeadRead(w), c),
                  origin |-> o]}]
    BY <1>4 DEF AuditStage
  <2>2. UNCHANGED <<rows, own, writer, work>>
    BY <1>4 DEF AuditStage
  <2>3. ASSUME NEW v \in Workers, NEW s \in staged'[v], s.origin = "guarded"
        PROVE  writer' = v /\ s.prev = ChainHead(Visible(v)')
    <3>1. CASE s \in staged[v]
      BY <2>2, <2>3, <3>1 DEF ChainInv, Visible
    <3>2. CASE s \notin staged[v]
      <4>1. v = w /\ s.prev = HeadRead(w) /\ s.origin = o
        BY <2>1, <2>3, <3>2 DEF BaseInv, TypeOK
      <4>2. QED
        BY <2>2, <2>3, <4>1 DEF HeadRead, Visible
    <3>3. QED
      BY <3>1, <3>2
  <2>4. QED
    BY <2>2, <2>3 DEF ChainInv, Linked, LinkOk, OnUnhashed, StoredBefore, Before, NullRow, Visible
<1>5. ASSUME NEW w \in Workers, Commit(w) PROVE ChainInv'
  <2>1. rows' = Visible(w) /\ Ended(w) /\ UNCHANGED work
    BY <1>5 DEF Commit, Visible
  <2>2. \A v \in Workers : /\ own'[v] = IF v = w THEN {} ELSE own[v]
                           /\ staged'[v] = IF v = w THEN {} ELSE staged[v]
    BY <2>1 DEF Ended, BaseInv, TypeOK
  <2>3. \A r \in rows' : Fits(r, rows')
    <3>1. \A r \in own[w] : Fits(r, Visible(w))
      BY DEF ChainInv
    <3>2. ASSUME NEW r \in rows PROVE Fits(r, Visible(w))
      <4>1. Fits(r, rows)
        BY DEF ChainInv
      <4>2. r.id \in 1..lastId /\ lastId \in Nat
        BY DEF BaseInv, TypeOK, IsRow
      <4>3. \A q \in own[w] : r.id < q.id /\ q.id \in 1..lastId
        BY DEF OrderInv, OwnAfter, BaseInv, TypeOK, IsRow
      <4>4. \A q \in own[w] : ~(q.id < r.id)
        BY <4>2, <4>3
      <4>5. \A q : q.id < r.id => (q \in rows <=> q \in Visible(w))
        BY <4>4 DEF Visible
      <4>6. QED
        BY <4>1, <4>5, FitsLocal
    <3>3. \A r \in Visible(w) : Fits(r, Visible(w))
      BY <3>1, <3>2 DEF Visible
    <3>4. QED
      BY <2>1, <3>3
  <2>4. ASSUME NEW v \in Workers, v # w, own[v] # {} \/ writer = v PROVE Visible(v)' = Visible(v)
    <3>1. own[w] = {}
      BY <2>4, OthersOwnNothing DEF BaseInv, LockInv
    <3>2. QED
      BY <2>1, <2>2, <2>4, <3>1 DEF Visible
  <2>5. ASSUME NEW v \in Workers, NEW r \in own'[v] PROVE Fits(r, Visible(v)')
    <3>1. v # w /\ r \in own[v]
      BY <2>2, <2>5
    <3>2. Visible(v)' = Visible(v)
      BY <2>4, <3>1
    <3>3. QED
      BY <3>1, <3>2 DEF ChainInv
  <2>6. ASSUME NEW v \in Workers, NEW s \in staged'[v], s.origin = "guarded"
        PROVE  writer' = v /\ s.prev = ChainHead(Visible(v)')
    <3>1. v # w /\ s \in staged[v]
      BY <2>2, <2>6
    <3>2. writer = v /\ s.prev = ChainHead(Visible(v))
      BY <2>6, <3>1 DEF ChainInv
    <3>3. writer' = v
      BY <2>1, <3>1, <3>2 DEF Ended
    <3>4. QED
      BY <2>4, <3>1, <3>2, <3>3
  <2>7. \A r \in work' : Fits(r, work')
    BY <2>1 DEF ChainInv
  <2>8. QED
    BY <2>3, <2>5, <2>6, <2>7
       DEF ChainInv, Linked, LinkOk, OnUnhashed, StoredBefore, Before, NullRow
<1>6. ASSUME NEW w \in Workers, Rollback(w) PROVE ChainInv'
  <2>1. UNCHANGED <<rows, work>> /\ Ended(w)
    BY <1>6 DEF Rollback
  <2>2. \A v \in Workers : \/ v = w /\ own'[v] = {} /\ staged'[v] = {}
                           \/ v # w /\ own'[v] = own[v] /\ staged'[v] = staged[v]
    BY <2>1 DEF Ended, BaseInv, TypeOK
  <2>3. \A v \in Workers : v # w /\ writer = v => writer' = v
    BY <2>1 DEF Ended
  <2>4. \A v \in Workers : v # w => Visible(v)' = Visible(v)
    BY <2>1, <2>2 DEF Visible
  <2>5. ASSUME NEW v \in Workers, NEW r \in own'[v] PROVE Fits(r, Visible(v)')
    BY <2>2, <2>4, <2>5 DEF ChainInv
  <2>6. ASSUME NEW v \in Workers, NEW s \in staged'[v], s.origin = "guarded"
        PROVE  writer' = v /\ s.prev = ChainHead(Visible(v)')
    BY <2>2, <2>3, <2>4, <2>6 DEF ChainInv
  <2>7. QED
    BY <2>1, <2>5, <2>6
       DEF ChainInv, Linked, LinkOk, OnUnhashed, StoredBefore, Before, NullRow
<1>7. ASSUME Crash PROVE ChainInv'
  <2>1. /\ rows' = rows /\ work' = rows
        /\ \A w \in Workers : own'[w] = {} /\ staged'[w] = {}
    BY <1>7 DEF Crash
  <2>2. QED
    BY <2>1 DEF ChainInv, Linked, LinkOk, OnUnhashed, StoredBefore, Before, NullRow
<1>8. ASSUME BackfillRow PROVE ChainInv'
  <2>1. \A x \in work' : Fits(x, work')
    BY <1>8, BackfillKeepsChain
  <2>2. UNCHANGED <<rows, own, staged, writer>>
    BY <1>8 DEF BackfillRow, requestVars
  <2>3. QED
    BY <2>1, <2>2
       DEF ChainInv, Linked, LinkOk, OnUnhashed, StoredBefore, Before, NullRow, Visible
<1>9. ASSUME BackfillCommit PROVE ChainInv'
  <2>1. rows' = work /\ work' = {}
    BY <1>9 DEF BackfillCommit
  <2>2. \A w \in Workers : own'[w] = {} /\ staged'[w] = {}
    BY <1>9 DEF BackfillCommit, requestVars, BaseInv, LockInv
  <2>3. QED
    BY <2>1, <2>2 DEF ChainInv, Linked, LinkOk, OnUnhashed, StoredBefore, Before, NullRow
<1>10. ASSUME BackfillFails PROVE ChainInv'
  <2>1. work' = {} /\ UNCHANGED <<rows, own, staged, writer>>
    BY <1>10 DEF BackfillFails, requestVars
  <2>2. QED
    BY <2>1 DEF ChainInv, Linked, LinkOk, OnUnhashed, StoredBefore, Before, NullRow, Visible
<1>11. CASE UNCHANGED vars
  BY <1>1, <1>11 DEF vars
<1>12. QED
  BY <1>2, <1>3, <1>4, <1>5, <1>6, <1>7, <1>8, <1>9, <1>10, <1>11 DEF Next, Request

\* On SQLite verify() can only name a row without a hash, one that was written
\* on top of such rows, or one of a request that had changed nothing before it
\* called audit(): the links of all other rows survive every interleaving,
\* rollback, crash and backfill.
THEOREM AuditOnlyBareRowsBreak == Spec => []OnlyBareRowsBreak
<1>1. LinkInv /\ ChainInv => OnlyBareRowsBreak
  BY SoundFacts DEF LinkInv, ChainInv, Fits, Linked, BrokenRows, OnlyBareRowsBreak
<1>2. QED
  BY <1>1, BaseInit, BaseStep, LinkInit, LinkStep, OrderInit, OrderStep, UniqueInit, UniqueStep,
     ChainInit, ChainStep, PTL DEF Spec
-----------------------------------------------------------------------------
(* Tampering, on SQLite.  In a log that verifies no two rows are chained   *)
(* to the same hash, so a row that ends up behind another one than before  *)
(* no longer fits; rows written later come after it and change nothing in  *)
(* front of it, and there is nothing left for a backfill to fill in.       *)

\* No column of the chain is empty in what requests insert.
Whole ==
    \A w \in Workers : /\ \A r \in own[w] : ~NullRow(r)
                       /\ \A s \in staged[w] : ~NullRow(s)

\* The first row that does not fit has the id that was tampered with.
FirstIs(i, S) ==
    /\ \E r \in BrokenRows(S) : r.id = i
    /\ \A q \in BrokenRows(S) : i <= q.id

Marked == culprit # 0 => (\A r \in rows \cup work : ~NullRow(r)) /\ FirstIs(culprit, rows)

TamperInv == BaseInv /\ OrderInv /\ UniqueInv /\ Whole /\ Marked

\* Whether a row is broken depends on the rows in front of it only.
LEMMA BrokenLocal ==
    ASSUME NEW r, NEW S, NEW T, r \in T,
           \A q : q.id < r.id => (q \in S <=> q \in T)
    PROVE  r \in BrokenRows(T) <=> ~(LinkOk(r, S) /\ HashOk(r))
<1>1. Before(r, S) = Before(r, T)
  BY DEF Before
<1>2. QED
  BY <1>1 DEF BrokenRows, LinkOk, StoredBefore

\* Rows of a log that verifies are linked, hashed, and have no empty column.
LEMMA VerifiedFacts ==
    ASSUME TypeOK, Verifies(rows), NEW r \in rows
    PROVE  /\ LinkOk(r, rows) /\ r.hash = EntryHash(r.prev, r.content) /\ ~NullRow(r)
           /\ r.hash = <<r.prev, r.content>>
<1>1. \A q \in rows : LinkOk(q, rows) /\ q.hash = EntryHash(q.prev, q.content)
  BY DEF Verifies, BrokenRows, HashOk
<1>2. \A q \in rows : q.hash # Null
  BY <1>1, HashFacts
<1>3. r.prev # Null
  <2>1. CASE Before(r, rows) = {}
    BY <1>1, <2>1, HashFacts DEF LinkOk, StoredBefore
  <2>2. CASE Before(r, rows) # {}
    <3>1. Newest(Before(r, rows)) \in rows
      <4>1. \A q \in Before(r, rows) : q \in rows /\ q.id \in 1..lastId
        BY DEF Before, TypeOK, IsRow
      <4>2. QED
        BY <2>2, <4>1, NewestFacts DEF TypeOK
    <3>2. QED
      BY <1>1, <1>2, <2>2, <3>1 DEF LinkOk, StoredBefore
  <2>3. QED
    BY <2>1, <2>2
<1>4. QED
  BY <1>1, <1>2, <1>3 DEF NullRow, EntryHash

\* What the link of a verified row says of the row in front of it.
LEMMA LinkedTo ==
    ASSUME TypeOK, Verifies(rows), NEW r \in rows
    PROVE  \/ Before(r, rows) = {} /\ r.prev = Genesis
           \/ \E q \in Before(r, rows) :
                 r.prev = <<q.prev, q.content>> /\ \A x \in Before(r, rows) : x.id <= q.id
<1>1. r.prev = StoredBefore(r, rows)
  BY VerifiedFacts DEF LinkOk
<1>2. CASE Before(r, rows) = {}
  BY <1>1, <1>2 DEF StoredBefore
<1>3. CASE Before(r, rows) # {}
  <2>1. \A q \in Before(r, rows) : q \in rows /\ q.id \in 1..lastId
    BY DEF Before, TypeOK, IsRow
  <2> DEFINE n == Newest(Before(r, rows))
  <2>2. n \in Before(r, rows) /\ \A x \in Before(r, rows) : x.id <= n.id
    BY <1>3, <2>1, NewestFacts DEF TypeOK
  <2>3. n.hash = <<n.prev, n.content>>
    BY <2>1, <2>2, VerifiedFacts
  <2>4. r.prev = n.hash
    BY <1>1, <1>3 DEF StoredBefore
  <2>5. QED
    BY <2>2, <2>3, <2>4
<1>4. QED
  BY <1>2, <1>3

\* In a log that verifies no two rows are chained to the same hash: else the
\* rows in front of them would be too, and there is a first row.
LEMMA PrevsDiffer ==
    ASSUME TypeOK, Verifies(rows)
    PROVE  \A r, q \in rows : r.id < q.id => r.prev # q.prev
<1> DEFINE T == {r.id : r \in {x \in rows : \E q \in rows : x.id < q.id /\ x.prev = q.prev}}
<1> SUFFICES ASSUME T # {} PROVE FALSE
  OBVIOUS
<1>1. T \subseteq Nat
  BY DEF TypeOK, IsRow
<1>2. PICK m \in T : \A k \in T : m <= k
  BY <1>1, MinExists
<1>3. PICK r \in rows, q \in rows : r.id = m /\ r.id < q.id /\ r.prev = q.prev
  OBVIOUS
<1>4. r \in Before(q, rows)
  BY <1>3 DEF Before
<1>5. PICK p \in Before(q, rows) :
         q.prev = <<p.prev, p.content>> /\ \A x \in Before(q, rows) : x.id <= p.id
  BY <1>4, LinkedTo
<1>6. r.prev # Genesis
  <2>1. Len(<<p.prev, p.content>>) = 2 /\ Len(<<>>) = 0
    OBVIOUS
  <2>2. QED
    BY <1>3, <1>5, <2>1 DEF Genesis
<1>7. PICK t \in Before(r, rows) : r.prev = <<t.prev, t.content>>
  BY <1>6, LinkedTo
<1>8. t.prev = p.prev
  BY <1>3, <1>5, <1>7
<1>9. t \in rows /\ p \in rows /\ t.id < r.id /\ r.id <= p.id
  BY <1>4, <1>5, <1>7 DEF Before
<1>10. t.id \in Nat /\ r.id \in Nat /\ p.id \in Nat
  BY <1>9 DEF TypeOK, IsRow
<1>11. t.id \in T /\ t.id < m
  BY <1>3, <1>8, <1>9, <1>10
<1>12. QED
  BY <1>1, <1>2, <1>11

\* Requests insert whole rows.
LEMMA WholeStep ==
    ASSUME BaseInv, Whole, [Next]_vars
    PROVE  Whole'
<1>1. ASSUME \A v \in Workers : own'[v] \in {own[v], {}} /\ staged'[v] \in {staged[v], {}}
      PROVE  Whole'
  BY <1>1 DEF Whole, NullRow
<1>2. ASSUME NEW w \in Workers, Start(w) \/ Change(w) PROVE Whole'
  BY <1>1, <1>2 DEF Start, Change
<1>3. ASSUME NEW w \in Workers, AuditFlush(w) \/ CommitFlush(w) PROVE Whole'
  <2> DEFINE new == {Inserted(s, NewId(w)) : s \in staged[w]}
  <2>1. \/ own' = own /\ staged' = staged
        \/ own' = [own EXCEPT ![w] = own[w] \cup new] /\ staged' = [staged EXCEPT ![w] = {}]
    BY <1>3, FlushFacts DEF AuditFlush, CommitFlush, BaseInv
  <2>2. \A r \in new : ~NullRow(r)
    BY DEF Inserted, Whole, NullRow
  <2> HIDE DEF new
  <2>3. \A v \in Workers : own'[v] \subseteq own[v] \cup new /\ staged'[v] \subseteq staged[v]
    BY <2>1 DEF BaseInv, TypeOK
  <2>4. QED
    BY <2>2, <2>3 DEF Whole, NullRow
<1>4. ASSUME NEW w \in Workers, AuditStage(w) PROVE Whole'
  <2> DEFINE p == HeadRead(w)
             o == IF writer = w THEN "guarded" ELSE "bare"
  <2>1. own' = own
    BY <1>4 DEF AuditStage
  <2>2. PICK c \in Contents :
            staged' = [staged EXCEPT ![w] =
                {[content |-> c, prev |-> p, hash |-> EntryHash(p, c), origin |-> o]}]
    BY <1>4 DEF AuditStage
  <2>3. p # Null
    BY HeadFacts DEF HeadRead, Visible, BaseInv, TypeOK, IsRow
  <2> HIDE DEF p, o
  <2>4. ~NullRow([content |-> c, prev |-> p, hash |-> EntryHash(p, c), origin |-> o])
    BY <2>3, HashFacts DEF NullRow
  <2>5. \A v \in Workers : \A s \in staged'[v] :
           s \in staged[v] \/ s = [content |-> c, prev |-> p, hash |-> EntryHash(p, c), origin |-> o]
    BY <2>2 DEF BaseInv, TypeOK
  <2>6. QED
    BY <2>1, <2>4, <2>5 DEF Whole, NullRow
<1>5. ASSUME NEW w \in Workers, Commit(w) \/ Rollback(w) PROVE Whole'
  <2>1. \A v \in Workers : own'[v] \in {own[v], {}} /\ staged'[v] \in {staged[v], {}}
    BY <1>5 DEF Commit, Rollback, Ended, BaseInv, TypeOK
  <2>2. QED
    BY <1>1, <2>1
<1>6. CASE Crash
  BY <1>1, <1>6 DEF Crash
<1>7. CASE BackfillRow \/ BackfillCommit \/ BackfillFails
  BY <1>1, <1>7 DEF BackfillRow, BackfillCommit, BackfillFails, requestVars
<1>8. CASE UNCHANGED vars
  BY <1>1, <1>8 DEF vars
<1>9. QED
  BY <1>2, <1>3, <1>4, <1>5, <1>6, <1>7, <1>8 DEF Next, Request

\* Rows that come after all the others leave the first broken one where it is.
LEMMA FirstStays ==
    ASSUME NEW n \in Nat, NEW S, \A r \in S : r.id \in 1..n,
           NEW N, \A r \in N : r.id \in Nat /\ \A q \in S : q.id < r.id,
           NEW i, FirstIs(i, S)
    PROVE  FirstIs(i, S \cup N)
<1>1. \A r \in S : \A q : q.id < r.id => (q \in S <=> q \in S \cup N)
  OBVIOUS
<1>2. \A r \in S : r \in BrokenRows(S \cup N) <=> r \in BrokenRows(S)
  <2> SUFFICES ASSUME NEW r \in S
               PROVE  r \in BrokenRows(S \cup N) <=> r \in BrokenRows(S)
    OBVIOUS
  <2>1. PICK T : T = S \cup N
    OBVIOUS
  <2>2. r \in T /\ \A q : q.id < r.id => (q \in S <=> q \in T)
    BY <1>1, <2>1
  <2>3. r \in BrokenRows(T) <=> ~(LinkOk(r, S) /\ HashOk(r))
    BY <2>2, BrokenLocal
  <2>4. QED
    BY <2>1, <2>3 DEF BrokenRows
<1>3. PICK b \in BrokenRows(S) : b.id = i
  BY DEF FirstIs
<1>4. b \in S /\ i \in Nat
  BY <1>3 DEF BrokenRows
<1>5. \A q \in BrokenRows(S \cup N) : i <= q.id
  <2> SUFFICES ASSUME NEW q \in BrokenRows(S \cup N) PROVE i <= q.id
    OBVIOUS
  <2>1. q \in S \cup N
    BY DEF BrokenRows
  <2>2. CASE q \in S
    BY <1>2, <2>2 DEF FirstIs
  <2>3. CASE q \in N
    BY <1>3, <1>4, <2>3
  <2>4. QED
    BY <2>1, <2>2, <2>3
<1>6. QED
  BY <1>2, <1>3, <1>4, <1>5 DEF FirstIs

\* What the application does to a log that was tampered with.
LEMMA MarkedStep ==
    ASSUME SingleWriter, TamperInv, [Next]_vars, culprit' = culprit
    PROVE  Marked'
<1> SUFFICES ASSUME culprit # 0
             PROVE  (\A r \in rows' \cup work' : ~NullRow(r)) /\ FirstIs(culprit, rows')
  BY DEF Marked, NullRow
<1>1. (\A r \in rows \cup work : ~NullRow(r)) /\ FirstIs(culprit, rows)
  BY DEF TamperInv, Marked
<1>2. ASSUME rows' = rows, work' \subseteq rows \cup work
      PROVE  (\A r \in rows' \cup work' : ~NullRow(r)) /\ FirstIs(culprit, rows')
  BY <1>1, <1>2
<1>3. ASSUME NEW w \in Workers, Commit(w)
      PROVE  (\A r \in rows' \cup work' : ~NullRow(r)) /\ FirstIs(culprit, rows')
  <2>1. rows' = rows \cup own[w] /\ work' = work
    BY <1>3 DEF Commit
  <2>2. \A r \in own[w] : r.id \in Nat /\ \A q \in rows : q.id < r.id
    BY DEF TamperInv, OrderInv, OwnAfter, BaseInv, TypeOK, IsRow
  <2>3. lastId \in Nat /\ \A r \in rows : r.id \in 1..lastId
    BY DEF TamperInv, BaseInv, TypeOK, IsRow
  <2>4. FirstIs(culprit, rows \cup own[w])
    BY <1>1, <2>2, <2>3, FirstStays
  <2>5. \A r \in own[w] : ~NullRow(r)
    BY DEF TamperInv, Whole
  <2>6. QED
    BY <1>1, <2>1, <2>4, <2>5
<1>4. CASE BackfillRow
  BY <1>1, <1>4 DEF BackfillRow, ToChain
<1>5. CASE BackfillCommit
  <2>1. server = "starting" /\ rows' = work /\ work' = {}
    BY <1>5 DEF BackfillCommit
  <2>2. /\ \A r \in rows : \E q \in work : Same(r, q)
        /\ \A q \in work : \E r \in rows : Same(r, q)
    BY <2>1 DEF TamperInv, OrderInv, WorkMatches
  <2>3. work = rows
    BY <1>1, <2>2 DEF Same
  <2>4. QED
    BY <1>2, <2>1, <2>3
<1>6. CASE BackfillFails \/ Crash
  BY <1>2, <1>6 DEF BackfillFails, Crash
<1>7. ASSUME NEW w \in Workers, Request(w), ~Commit(w)
      PROVE  (\A r \in rows' \cup work' : ~NullRow(r)) /\ FirstIs(culprit, rows')
  BY <1>2, <1>7 DEF Request, Start, Change, AuditFlush, AuditStage, CommitFlush, Rollback
<1>8. CASE UNCHANGED vars
  BY <1>2, <1>8 DEF vars
<1>9. QED
  BY <1>3, <1>4, <1>5, <1>6, <1>7, <1>8 DEF Next

\* The rows may change behind the application's back while no request has
\* inserted any.
LEMMA OthersKept ==
    ASSUME SingleWriter, TamperInv, CanTamper, UNCHANGED Others,
           \A r \in rows' : IsRow(r), UniqueIds(rows'), \A r \in rows' : ~NullRow(r),
           culprit' # 0 => FirstIs(culprit', rows')
    PROVE  TamperInv'
<1>1. UNCHANGED <<lastId, writer, pc, dirty, own, staged, server, work>>
  BY DEF Others
<1>2. server = "serving" /\ work = {} /\ \A w \in Workers : own[w] = {}
  BY AuditAssumption DEF CanTamper, TamperInv, BaseInv, LockInv
<1>3. BaseInv'
  BY <1>1 DEF TamperInv, BaseInv, TypeOK, LockInv, IsRow, IsStaged
<1>4. OrderInv'
  BY <1>1, <1>2 DEF OrderInv, OwnAfter, WorkMatches
<1>5. UniqueInv'
  <2>1. \A w \in Workers : Visible(w)' = rows'
    BY <1>1, <1>2 DEF Visible
  <2>2. UniqueIds(rows)' /\ UniqueIds(work)' /\ \A w \in Workers : UniqueIds(Visible(w))'
    BY <1>1, <1>2, <2>1 DEF UniqueIds
  <2>3. QED
    BY <1>1, <2>2 DEF TamperInv, UniqueInv
<1>6. Whole'
  BY <1>1 DEF TamperInv, Whole, NullRow
<1>7. Marked'
  BY <1>1, <1>2 DEF Marked, NullRow
<1>8. QED
  BY <1>3, <1>4, <1>5, <1>6, <1>7 DEF TamperInv

\* Of a log that verifies everything fits but what is said to have changed.
LEMMA FirstBrokenIs ==
    ASSUME TypeOK, Verifies(rows), NEW T, NEW b \in T, b \in BrokenRows(T), b.id \in Nat,
           \A q \in T : q.id \in Nat,
           \A q : q.id < b.id => (q \in rows <=> q \in T)
    PROVE  FirstIs(b.id, T)
<1> SUFFICES ASSUME NEW q \in BrokenRows(T), q.id < b.id PROVE FALSE
  BY DEF FirstIs, BrokenRows
<1>1. q \in T /\ q.id \in Nat
  BY DEF BrokenRows
<1>2. q \in rows
  BY <1>1
<1>3. \A x : x.id < q.id => x.id < b.id \/ x \notin rows
  BY <1>1 DEF TypeOK, IsRow
<1>4. \A x : x.id < q.id => x.id < b.id \/ x \notin T
  BY <1>1
<1>5. \A x : x.id < q.id => (x \in rows <=> x \in T)
  BY <1>3, <1>4
<1>6. LinkOk(q, rows) /\ HashOk(q)
  BY <1>2, VerifiedFacts DEF HashOk
<1>7. QED
  BY <1>1, <1>5, <1>6, BrokenLocal

LEMMA EditStep ==
    ASSUME SingleWriter, TamperInv, EditRows
    PROVE  TamperInv'
<1>1. PICK edited \in (SUBSET rows) \ {{}}, c \in [{r.id : r \in rows} -> Contents] :
         /\ \A r \in edited : c[r.id] # r.content
         /\ rows' = (rows \ edited) \cup {[r EXCEPT !.content = c[r.id]] : r \in edited}
         /\ culprit' = CHOOSE i \in {r.id : r \in edited} : \A r \in edited : i <= r.id
  BY DEF EditRows
<1>2. CanTamper /\ UNCHANGED Others /\ TypeOK /\ Verifies(rows) /\ UniqueIds(rows)
  BY DEF EditRows, CanTamper, TamperInv, BaseInv, UniqueInv
<1> DEFINE new(r) == [r EXCEPT !.content = c[r.id]]
<1>3. \A r \in edited : /\ IsRow(new(r)) /\ new(r).id = r.id /\ new(r).prev = r.prev
                      /\ new(r).hash = r.hash /\ new(r).content = c[r.id]
  BY <1>1, <1>2 DEF TypeOK, IsRow
<1> HIDE DEF new
<1>4. rows' = (rows \ edited) \cup {new(r) : r \in edited}
  BY <1>1 DEF new
<1>5. \A q \in rows' : \E r \in rows : q.id = r.id /\ q.prev = r.prev /\ q.hash = r.hash
  BY <1>3, <1>4
<1>6. \A q \in rows' : IsRow(q)
  BY <1>2, <1>3, <1>4 DEF TypeOK
<1>7. UniqueIds(rows')
  <2> SUFFICES ASSUME NEW q \in rows', NEW x \in rows', q.id = x.id PROVE q = x
    BY DEF UniqueIds
  <2>1. q \in rows \ edited \/ \E r \in edited : q = new(r)
    BY <1>4
  <2>2. x \in rows \ edited \/ \E r \in edited : x = new(r)
    BY <1>4
  <2>3. QED
    BY <1>1, <1>2, <1>3, <2>1, <2>2 DEF UniqueIds
<1>8. \A q \in rows' : ~NullRow(q)
  BY <1>2, <1>5, VerifiedFacts DEF NullRow
<1>9. PICK r \in edited : culprit' = r.id /\ \A q \in edited : r.id <= q.id
  <2> DEFINE I == {q.id : q \in edited}
  <2>a. \A q \in edited : q.id \in Nat
    BY <1>2 DEF TypeOK, IsRow
  <2>b. edited # {}
    BY <1>1
  <2>1. I \subseteq Nat /\ I # {}
    BY <2>a, <2>b
  <2>2. PICK m \in I : \A k \in I : m <= k
    BY <2>1, MinExists
  <2>3. m \in I /\ \A q \in edited : m <= q.id
    BY <2>2
  <2>4. culprit' \in I /\ \A q \in edited : culprit' <= q.id
    BY <1>1, <2>3
  <2>5. QED
    BY <2>4
<1>10. r \in rows /\ new(r) \in rows' /\ r.id \in Nat /\ new(r).id = r.id
  BY <1>2, <1>3, <1>4 DEF TypeOK, IsRow
<1>11. new(r) \in BrokenRows(rows')
  <2>1. r.hash = <<r.prev, r.content>> /\ r.prev # Null
    BY <1>2, <1>10, VerifiedFacts DEF NullRow
  <2>2. EntryHash(r.prev, c[r.id]) = <<r.prev, c[r.id]>>
    BY <2>1 DEF EntryHash
  <2>3. c[r.id] # r.content
    BY <1>1
  <2>4. ~HashOk(new(r))
    BY <1>3, <2>1, <2>2, <2>3 DEF HashOk
  <2>5. QED
    BY <1>10, <2>4 DEF BrokenRows
<1>12. \A q : q.id < r.id => (q \in rows <=> q \in rows')
  <2> SUFFICES ASSUME NEW q, q.id < r.id PROVE q \in rows <=> q \in rows'
    OBVIOUS
  <2>1. q \in rows => q \notin edited
    BY <1>2, <1>9, <1>10 DEF TypeOK, IsRow
  <2>2. q \in rows' => q \in rows
    <3>1. \A x \in edited : q # new(x)
      BY <1>2, <1>3, <1>9, <1>10 DEF TypeOK, IsRow
    <3>2. QED
      BY <1>4, <3>1
  <2>3. QED
    BY <1>4, <2>1, <2>2
<1>13. FirstIs(culprit', rows')
  <2>1. \A q \in rows' : q.id \in Nat
    BY <1>6 DEF IsRow
  <2>2. FirstIs(new(r).id, rows')
    BY <1>2, <1>10, <1>11, <1>12, <2>1, FirstBrokenIs
  <2>3. QED
    BY <1>9, <1>10, <2>2
<1>14. QED
  BY <1>2, <1>6, <1>7, <1>8, <1>13, OthersKept

LEMMA DeleteStep ==
    ASSUME SingleWriter, TamperInv, DeleteRow
    PROVE  TamperInv'
<1>1. PICK r \in rows, next \in rows :
         /\ r.id < next.id
         /\ \A q \in rows : r.id < q.id => next.id <= q.id
         /\ rows' = rows \ {r}
         /\ culprit' = next.id
  BY DEF DeleteRow
<1>2. CanTamper /\ UNCHANGED Others /\ TypeOK /\ Verifies(rows) /\ UniqueIds(rows)
  BY DEF DeleteRow, CanTamper, TamperInv, BaseInv, UniqueInv
<1>3. \A q \in rows : q.id \in Nat
  BY <1>2 DEF TypeOK, IsRow
<1>a. \A q \in rows' : IsRow(q)
  BY <1>1, <1>2 DEF TypeOK
<1>b. UniqueIds(rows')
  BY <1>1, <1>2 DEF UniqueIds
<1>c. \A q \in rows' : ~NullRow(q)
  BY <1>1, <1>2, VerifiedFacts
<1>5. next \in rows' /\ next.id \in Nat
  BY <1>1, <1>3
<1>6. Before(next, rows') = Before(r, rows)
  <2>1. \A q \in rows : q # r => (q.id < next.id <=> q.id < r.id)
    BY <1>1, <1>2, <1>3 DEF UniqueIds
  <2>2. QED
    BY <1>1, <1>3, <2>1 DEF Before
<1>7. LinkOk(next, rows') => next.prev = r.prev
  BY <1>2, <1>6, VerifiedFacts DEF LinkOk, StoredBefore
<1>8. next \in BrokenRows(rows')
  BY <1>1, <1>2, <1>5, <1>7, PrevsDiffer DEF BrokenRows
<1>9. FirstIs(next.id, rows')
  <2> SUFFICES ASSUME NEW q \in BrokenRows(rows'), q.id < next.id PROVE FALSE
    BY <1>3, <1>5, <1>8, <1>1 DEF FirstIs, BrokenRows
  <2>1. q \in rows /\ q \in rows' /\ q.id < r.id
    BY <1>1, <1>2, <1>3 DEF BrokenRows, UniqueIds
  <2>2. \A x : x.id < q.id => (x \in rows <=> x \in rows')
    BY <1>1, <1>3, <2>1
  <2>3. LinkOk(q, rows) /\ HashOk(q)
    BY <1>2, <2>1, VerifiedFacts DEF HashOk
  <2>4. QED
    BY <2>1, <2>2, <2>3, BrokenLocal
<1>10. FirstIs(culprit', rows')
  BY <1>1, <1>9
<1>11. QED
  BY <1>2, <1>a, <1>b, <1>c, <1>10, OthersKept

LEMMA ReorderStep ==
    ASSUME SingleWriter, TamperInv, ReorderRows
    PROVE  TamperInv'
<1>1. PICK r \in rows, q \in rows :
         /\ r.id < q.id
         /\ rows' = (rows \ {r, q}) \cup {[r EXCEPT !.id = q.id], [q EXCEPT !.id = r.id]}
         /\ culprit' = r.id
  BY DEF ReorderRows
<1>2. CanTamper /\ UNCHANGED Others /\ TypeOK /\ Verifies(rows) /\ UniqueIds(rows)
  BY DEF ReorderRows, CanTamper, TamperInv, BaseInv, UniqueInv
<1>3. \A x \in rows : x.id \in Nat
  BY <1>2 DEF TypeOK, IsRow
<1> DEFINE up == [r EXCEPT !.id = q.id]
           down == [q EXCEPT !.id = r.id]
<1>4. /\ IsRow(up) /\ up.id = q.id /\ up.prev = r.prev /\ up.hash = r.hash
      /\ IsRow(down) /\ down.id = r.id /\ down.prev = q.prev /\ down.hash = q.hash
  BY <1>2 DEF TypeOK, IsRow
<1>5. rows' = (rows \ {r, q}) \cup {up, down}
  BY <1>1
<1> HIDE DEF up, down
<1>6. \A x \in rows' : IsRow(x)
  BY <1>2, <1>4, <1>5 DEF TypeOK
<1>7. UniqueIds(rows')
  BY <1>1, <1>2, <1>3, <1>4, <1>5 DEF UniqueIds
<1>8. \A x \in rows' : ~NullRow(x)
  <2>1. \A x \in rows : ~NullRow(x)
    BY <1>2, VerifiedFacts
  <2>2. QED
    BY <1>4, <1>5, <2>1 DEF NullRow
<1>9. down \in rows' /\ down.id \in Nat /\ up.id \in Nat /\ r.id < up.id
  BY <1>1, <1>3, <1>4, <1>5
<1>10. \A x : x.id < r.id => (x \in rows <=> x \in rows')
  BY <1>1, <1>3, <1>4, <1>5, <1>9
<1>11. down \in BrokenRows(rows')
  <2>1. Before(down, rows') = Before(r, rows)
    BY <1>4, <1>10 DEF Before
  <2>2. LinkOk(down, rows') => down.prev = r.prev
    BY <1>2, <2>1, VerifiedFacts DEF LinkOk, StoredBefore
  <2>3. q.prev # r.prev
    BY <1>1, <1>2, PrevsDiffer
  <2>4. QED
    BY <1>4, <1>9, <2>2, <2>3 DEF BrokenRows
<1>12. FirstIs(culprit', rows')
  <2>1. \A x \in rows' : x.id \in Nat
    BY <1>6 DEF IsRow
  <2>2. \A x : x.id < down.id => (x \in rows <=> x \in rows')
    BY <1>4, <1>10
  <2>3. FirstIs(down.id, rows')
    BY <1>2, <1>9, <1>11, <2>1, <2>2, FirstBrokenIs
  <2>4. QED
    BY <1>1, <1>4, <2>3
<1>13. QED
  BY <1>2, <1>6, <1>7, <1>8, <1>12, OthersKept

\* On SQLite, whatever is written, rolled back, restarted or backfilled after
\* it, a change to a log that verified stays visible, and verify() names the
\* first row edited or moved, or the one after the row that is gone.
THEOREM AuditTamperPinpointed == SingleWriter => (TamperSpec => []TamperPinpointed)
<1> SUFFICES ASSUME SingleWriter PROVE TamperSpec => []TamperPinpointed
  OBVIOUS
<1>1. TamperInit => TamperInv
  <2>1. Init => Whole
    BY DEF Init, Whole
  <2>2. QED
    BY <2>1, BaseInit, OrderInit, UniqueInit DEF TamperInit, TamperInv, Marked
<1>2. TamperInv /\ [TamperNext]_tamperVars => TamperInv'
  <2> SUFFICES ASSUME TamperInv, [TamperNext]_tamperVars PROVE TamperInv'
    OBVIOUS
  <2>1. ASSUME [Next]_vars, culprit' = culprit PROVE TamperInv'
    BY <2>1, BaseStep, OrderStep, UniqueStep, WholeStep, MarkedStep DEF TamperInv
  <2>2. QED
    BY <2>1, EditStep, DeleteStep, ReorderStep DEF TamperNext, tamperVars
<1>3. TamperInv => TamperPinpointed
  <2> SUFFICES ASSUME TamperInv, culprit # 0
               PROVE  ~Verifies(rows) /\ FirstBroken(rows).id = culprit
    BY DEF TamperPinpointed
  <2>1. FirstIs(culprit, rows) /\ \A r \in rows : r.id \in Nat
    BY DEF TamperInv, Marked, BaseInv, TypeOK, IsRow
  <2>2. PICK b \in BrokenRows(rows) : b.id = culprit /\ \A q \in BrokenRows(rows) : b.id <= q.id
    BY <2>1 DEF FirstIs
  <2>3. FirstBroken(rows) \in BrokenRows(rows) /\ \A q \in BrokenRows(rows) : FirstBroken(rows).id <= q.id
    BY <2>2 DEF FirstBroken
  <2>4. FirstBroken(rows).id = b.id
    BY <2>1, <2>2, <2>3 DEF BrokenRows
  <2>5. QED
    BY <2>2, <2>4 DEF Verifies
<1>4. QED
  BY <1>1, <1>2, <1>3, PTL DEF TamperSpec
=============================================================================
