------------------------------ MODULE AuditLog ------------------------------
(***************************************************************************)
(* The hash-chained audit log of VCM.                                      *)
(*                                                                         *)
(* Every handler runs in a request transaction (app/db.py, get_db) and     *)
(* calls audit() (app/security/deps.py) any number of times: audit()       *)
(* flushes the session, reads the hash of the newest visible row and       *)
(* stages a row chained to it, which the next flush inserts.  Requests run *)
(* concurrently, so flush, read, insert and commit are separate steps.     *)
(*                                                                         *)
(* SingleWriter tells the two supported databases apart.  On SQLite a      *)
(* transaction takes the one write lock with its first INSERT or UPDATE    *)
(* and holds it until it ends; on PostgreSQL writers do not exclude each   *)
(* other, ids come from a sequence and rows show when they are committed.  *)
(*                                                                         *)
(* Abstractions: a row's timestamp, username, action, detail and address   *)
(* are one element of Contents; SHA-256 is the pair it is applied to, so   *)
(* two inputs never collide.                                               *)
(***************************************************************************)
EXTENDS Integers, FiniteSets

CONSTANTS
    Workers,          \* requests that can be in flight at once
    Contents,         \* what an audit row says
    LegacyRows,       \* how many rows were written before the chain existed
    MaxId,            \* bound on the ids of the rows (for model checking)
    SingleWriter,     \* TRUE on SQLite, FALSE on PostgreSQL
    NoOne             \* nobody holds the write lock

ASSUME AuditAssumption ==
    /\ Contents # {}
    /\ LegacyRows \in Nat
    /\ MaxId \in Nat
    /\ SingleWriter \in BOOLEAN
    /\ NoOne \notin Workers

VARIABLES
    rows,      \* the committed rows of the audit_log table
    lastId,    \* the largest id handed out so far
    writer,    \* who holds SQLite's write lock
    pc,        \* what each request is doing
    dirty,     \* whether its session holds unflushed changes of other tables
    own,       \* the rows it has inserted and not yet committed
    staged,    \* the row added to its session and not yet inserted
    server,    \* "starting" (init_db) or "serving"
    work       \* the session of the startup backfill

vars == <<rows, lastId, writer, pc, dirty, own, staged, server, work>>
requestVars == <<pc, dirty, own, staged>>
-----------------------------------------------------------------------------
(* Hashes.  The genesis seed is no pair, and a NULL column is neither.     *)

Genesis == <<>>
Null == <<"null">>
EntryHash(prev, content) ==
    <<IF prev = Null THEN Genesis ELSE prev, content>>

NullRow(r) == r.prev = Null \/ r.hash = Null

\* The newest row of a nonempty set of rows.
Newest(S) == CHOOSE r \in S : \A q \in S : q.id <= r.id

TopId(S) == IF S = {} THEN 0 ELSE Newest(S).id

\* What the next row of a log is chained to.
ChainHead(S) ==
    IF S = {} \/ Newest(S).hash = Null THEN Genesis ELSE Newest(S).hash

Before(r, S) == {q \in S : q.id < r.id}

\* The stored hash that precedes a row: where the walk over the log stands.
StoredBefore(r, S) ==
    IF Before(r, S) = {} THEN Genesis ELSE Newest(Before(r, S)).hash

LinkOk(r, S) == r.prev = StoredBefore(r, S)
HashOk(r) == r.hash = EntryHash(r.prev, r.content)

\* The rows the audit page marks, and the one verify() names: the first.
BrokenRows(S) == {r \in S : ~(LinkOk(r, S) /\ HashOk(r))}
Verifies(S) == BrokenRows(S) = {}
FirstBroken(S) ==
    CHOOSE r \in BrokenRows(S) : \A q \in BrokenRows(S) : r.id <= q.id
-----------------------------------------------------------------------------
(* A request and its transaction.                                          *)

Visible(w) == rows \cup own[w]

Pending(w) == dirty[w] \/ staged[w] # {}

\* Mistake: the rows of this very transaction are overlooked.
HeadCommitted(w) == ChainHead(rows)

\* The head audit() reads: the newest row its transaction can see.
HeadRead(w) == ChainHead(Visible(w))

NewId(w) == IF SingleWriter THEN TopId(Visible(w)) + 1 ELSE lastId + 1

IdsAfter(w) == IF NewId(w) > lastId THEN NewId(w) ELSE lastId

\* Mistake: the row is linked again when it is inserted and keeps its hash.
InsertedRelinked(s, i) ==
    [id |-> i, content |-> s.content, prev |-> ChainHead(rows), hash |-> s.hash,
     origin |-> s.origin]

Inserted(s, i) ==
    [id |-> i, content |-> s.content, prev |-> s.prev, hash |-> s.hash,
     origin |-> s.origin]

\* Mistake: writers of one database file do not exclude each other.
TakeNoLock(w) == UNCHANGED writer

\* The first INSERT or UPDATE of a transaction takes SQLite's write lock.
TakeLock(w) ==
    IF SingleWriter THEN writer \in {NoOne, w} /\ writer' = w ELSE UNCHANGED writer

\* session.flush(): the pending changes are sent, which on SQLite waits for
\* the write lock, and the staged audit row gets its id.
Flush(w) ==
    IF Pending(w)
    THEN /\ TakeLock(w)
         /\ dirty' = [dirty EXCEPT ![w] = FALSE]
         /\ IF staged[w] = {}
            THEN UNCHANGED <<own, staged, lastId>>
            ELSE /\ NewId(w) <= MaxId
                 /\ own' = [own EXCEPT ![w] =
                        @ \cup {Inserted(s, NewId(w)) : s \in staged[w]}]
                 /\ staged' = [staged EXCEPT ![w] = {}]
                 /\ lastId' = IdsAfter(w)
    ELSE UNCHANGED <<writer, dirty, own, staged, lastId>>

Start(w) ==
    /\ server = "serving"
    /\ pc[w] = "idle"
    /\ pc' = [pc EXCEPT ![w] = "handling"]
    /\ UNCHANGED <<rows, lastId, writer, dirty, own, staged, server, work>>

\* The handler changes some other table's rows in its session.
Change(w) ==
    /\ pc[w] = "handling"
    /\ ~dirty[w]
    /\ dirty' = [dirty EXCEPT ![w] = TRUE]
    /\ UNCHANGED <<rows, lastId, writer, pc, own, staged, server, work>>

\* audit(), first half.
AuditFlush(w) ==
    /\ pc[w] = "handling"
    /\ Flush(w)
    /\ pc' = [pc EXCEPT ![w] = "flushed"]
    /\ UNCHANGED <<rows, server, work>>

\* audit(), second half.  "guarded" records that the request held the write
\* lock when it read the head, "bare" that it did not.
AuditStage(w) ==
    /\ pc[w] = "flushed"
    /\ \E c \in Contents :
          staged' = [staged EXCEPT ![w] =
              {[content |-> c, prev |-> HeadRead(w), hash |-> EntryHash(HeadRead(w), c),
                origin |-> IF writer = w THEN "guarded" ELSE "bare"]}]
    /\ pc' = [pc EXCEPT ![w] = "handling"]
    /\ UNCHANGED <<rows, lastId, writer, dirty, own, server, work>>

\* The handler has returned: get_db commits, which flushes first.
CommitFlush(w) ==
    /\ pc[w] = "handling"
    /\ Flush(w)
    /\ pc' = [pc EXCEPT ![w] = "committing"]
    /\ UNCHANGED <<rows, server, work>>

\* Mistake: a row staged in the session outlives the transaction.
EndedKeepsStaged(w) ==
    /\ writer' = IF writer = w THEN NoOne ELSE writer
    /\ pc' = [pc EXCEPT ![w] = "idle"]
    /\ dirty' = [dirty EXCEPT ![w] = FALSE]
    /\ own' = [own EXCEPT ![w] = {}]
    /\ UNCHANGED staged

Ended(w) ==
    /\ writer' = IF writer = w THEN NoOne ELSE writer
    /\ pc' = [pc EXCEPT ![w] = "idle"]
    /\ dirty' = [dirty EXCEPT ![w] = FALSE]
    /\ own' = [own EXCEPT ![w] = {}]
    /\ staged' = [staged EXCEPT ![w] = {}]

Commit(w) ==
    /\ pc[w] = "committing"
    /\ rows' = rows \cup own[w]
    /\ Ended(w)
    /\ UNCHANGED <<lastId, server, work>>

\* An exception, an HTTPException or SQLite's "database is locked".
Rollback(w) ==
    /\ pc[w] # "idle"
    /\ Ended(w)
    /\ UNCHANGED <<rows, lastId, server, work>>

Request(w) ==
    \/ Start(w)
    \/ Change(w)
    \/ AuditFlush(w)
    \/ AuditStage(w)
    \/ CommitFlush(w)
    \/ Commit(w)
    \/ Rollback(w)
-----------------------------------------------------------------------------
(* Process restart and the startup backfill.                               *)

Crash ==
    /\ server' = "starting"
    /\ work' = rows
    /\ writer' = NoOne
    /\ pc' = [w \in Workers |-> "idle"]
    /\ dirty' = [w \in Workers |-> FALSE]
    /\ own' = [w \in Workers |-> {}]
    /\ staged' = [w \in Workers |-> {}]
    /\ UNCHANGED <<rows, lastId>>

Chained(r, prev) ==
    [id |-> r.id, content |-> r.content, prev |-> prev,
     hash |-> EntryHash(prev, r.content), origin |-> r.origin]

\* Mistake: rows that carry a hash are chained again.
ToChainAll(r) == TRUE

\* The rows backfill fills in.
ToChain(r) == NullRow(r)

\* One round of backfill's loop that changes a row: the rows before this one
\* carry their hashes.
BackfillRow ==
    /\ server = "starting"
    /\ \E r \in work :
          /\ ToChain(r)
          /\ \A q \in Before(r, work) : ~NullRow(q)
          /\ work' = (work \ {r}) \cup {Chained(r, StoredBefore(r, work))}
    /\ UNCHANGED <<rows, lastId, writer, server, requestVars>>

BackfillCommit ==
    /\ server = "starting"
    /\ \A r \in work : ~NullRow(r)
    /\ rows' = work
    /\ server' = "serving"
    /\ work' = {}
    /\ UNCHANGED <<lastId, writer, requestVars>>

\* _backfill_audit_chain logs the exception and the application goes on.
BackfillFails ==
    /\ server = "starting"
    /\ server' = "serving"
    /\ work' = {}
    /\ UNCHANGED <<rows, lastId, writer, requestVars>>
-----------------------------------------------------------------------------
LegacyLog(contentOf) ==
    {[id |-> i, content |-> contentOf[i], prev |-> Null, hash |-> Null,
      origin |-> "legacy"] : i \in 1..LegacyRows}

Init ==
    /\ \E contentOf \in [1..LegacyRows -> Contents] : rows = LegacyLog(contentOf)
    /\ lastId = LegacyRows
    /\ writer = NoOne
    /\ pc = [w \in Workers |-> "idle"]
    /\ dirty = [w \in Workers |-> FALSE]
    /\ own = [w \in Workers |-> {}]
    /\ staged = [w \in Workers |-> {}]
    /\ server = "starting"
    /\ work = rows

Next ==
    \/ \E w \in Workers : Request(w)
    \/ Crash
    \/ BackfillRow
    \/ BackfillCommit
    \/ BackfillFails

Spec == Init /\ [][Next]_vars
-----------------------------------------------------------------------------
Origins == {"legacy", "guarded", "bare"}

IsRow(r) ==
    /\ r = [id |-> r.id, content |-> r.content, prev |-> r.prev,
            hash |-> r.hash, origin |-> r.origin]
    /\ r.id \in 1..lastId
    /\ r.content \in Contents
    /\ r.origin \in Origins

IsStaged(s) ==
    /\ s = [content |-> s.content, prev |-> s.prev, hash |-> s.hash,
            origin |-> s.origin]
    /\ s.content \in Contents
    /\ s.origin \in {"guarded", "bare"}

\* Types; every id in use has been handed out.
TypeOK ==
    /\ lastId \in Nat
    /\ \A r \in rows : IsRow(r)
    /\ \A r \in work : IsRow(r)
    /\ writer \in Workers \cup {NoOne}
    /\ pc \in [Workers -> {"idle", "handling", "flushed", "committing"}]
    /\ dirty \in [Workers -> BOOLEAN]
    /\ own = [w \in Workers |-> own[w]]
    /\ \A w \in Workers : \A r \in own[w] : IsRow(r)
    /\ staged = [w \in Workers |-> staged[w]]
    /\ \A w \in Workers : \A s \in staged[w] : IsStaged(s)
    /\ server \in {"starting", "serving"}

\* Whatever requests overlap, on either database, and whatever crashes: a row
\* that carries a hash carries the hash of its own content, so the audit page
\* never calls a row "modified" that nobody modified (audit() computes the
\* hash from the same values it stores, backfill from the row it fills in).
HashesRecompute == \A r \in rows : r.hash # Null => HashOk(r)

\* Overlapping requests may fork the chain but never make it dangle: a row is
\* chained to the genesis seed or to a committed row with a smaller id, never
\* to a row that a rollback took back.
PrevIsEarlier ==
    \A r \in rows : ~NullRow(r) =>
        \/ r.prev = Genesis
        \/ \E q \in rows : q.id < r.id /\ q.hash = r.prev

\* The first row written on top of rows without hashes, which a failed backfill
\* has left behind, starts a chain of its own; hashing them later does not help.
OnUnhashed(r, S) ==
    /\ r.prev = Genesis
    /\ Before(r, S) # {} /\ Newest(Before(r, S)).origin = "legacy"

\* On SQLite verify() can blame an untouched row only when it still has no hash,
\* was written on top of such rows, or when the request that wrote it had changed
\* nothing before it called audit(): then its flush took no write lock and
\* another request could insert between its read of the head and its commit.
\* Rows of every other request, and the backfilled ones, link to the row before
\* them, whatever else is rolled back, restarted and backfilled.
OnlyBareRowsBreak ==
    SingleWriter =>
        \A r \in BrokenRows(rows) : NullRow(r) \/ r.origin = "bare" \/ OnUnhashed(r, rows)

\* A committed row stays: the backfill fills its empty hash columns and nothing
\* else of it ever changes; and on SQLite a new row comes after all the others,
\* so no commit slips a row in front of one that was already verified.
AppendOnly ==
    [][/\ \A r \in rows : \E q \in rows' :
            /\ q.id = r.id /\ q.content = r.content
            /\ ~NullRow(r) => q = r
       /\ SingleWriter => \A q \in rows' :
            \/ \A r \in rows : r.id < q.id
            \/ \E r \in rows : r.id = q.id /\ (~NullRow(r) => q = r)]_vars

\* What the module docstring and docs/authentication.md say of an untouched
\* log: each entry links to the previous one, so it verifies.
UntouchedLogVerifies == server = "serving" => Verifies(rows)
=============================================================================
