------------------------- MODULE PkiRequests_proofs -------------------------
(***************************************************************************)
(* Proofs about concurrent requests on the CAs, for any number of them.    *)
(*                                                                         *)
(* The argument is SQLite's write lock: from its first flush to its commit *)
(* a request holds it, so that what it commits is what it would write now. *)
(* What it writes then rests on a row that it loaded before, and that is   *)
(* where the exceptions in CompletionFits and SerialsApart come from.      *)
(***************************************************************************)
EXTENDS PkiRequests, TLAPS

Steps == {"new", "loaded", "reading", "read", "staged", "flushed", "returned",
          "committing", "closed", "failed"}

Rows ==
    [key : Requests \cup {NoKey, 1, 3},
     cert : [key : Requests \cup (1 .. 4), mark : Requests \cup {"one", "two", "offline", "foreign"}]
            \cup {NoCert},
     parent : {1, 2, Null}, serial : Nat, counter : Nat, pending : BOOLEAN,
     by : Requests \cup {Null}]

Leaves == [ca : {1}, serial : Nat, by : Requests]

TypeOK ==
    /\ op \in [Requests -> Kinds]
    /\ \A i \in DOMAIN cas : cas[i] \in Rows
    /\ certs \subseteq Leaves
    /\ lock \in Requests \cup {Free}
    /\ pc \in [Requests -> Steps]
    /\ seen \in [Requests -> Rows]
    /\ DOMAIN found = Requests /\ DOMAIN tx = Requests
    /\ unit \in [Requests -> BOOLEAN]
    /\ answer \in [Requests -> {"none", "done", "error"}]

\* The requests that have flushed and not committed yet.
Holds(r) == pc[r] \in {"flushed", "returned", "committing"} /\ answer[r] # "error"

\* One of them at most, which has the lock; its transaction is what it would
\* write now, since nobody commits in between.
LockInv ==
    \A r \in Requests :
        /\ Holds(r) <=> lock = r
        /\ Holds(r) => RowsThere(r) /\ tx[r] = [cas |-> NewCas(r), certs |-> NewCerts(r)]

\* What a handler found when it made its checks.
AcceptedInv ==
    \A r \in Requests : pc[r] = "staged" \/ Holds(r) =>
        /\ op[r] \in {"regenerate", "complete"} => seen[r].pending
        /\ op[r] = "complete" => Certified(seen[r])

\* Who is answered with an error has a session without changes: it has rolled
\* back, or its flush has failed, or it is refused before it changes anything.
AnswerInv ==
    \A r \in Requests :
        /\ answer[r] = "error" =>
              pc[r] \in {"returned", "committing", "closed", "failed"} /\ ~unit[r]
        /\ pc[r] \in {"new", "loaded", "reading", "read"} => ~unit[r]

NothingOf(r) ==
    /\ \A i \in DOMAIN cas : cas[i].by # r /\ cas[i].key # r
    /\ \A c \in certs : c.by # r

\* Rows tell who made them: at most one row of each request, none before it has
\* committed; whatever has been signed here has been signed by a request.
TraceInv ==
    /\ \A r \in Requests : pc[r] # "closed" => NothingOf(r)
    /\ \A i, j \in DOMAIN cas : i # j /\ cas[i].by = cas[j].by => cas[i].by = Null
    /\ \A i \in DOMAIN cas : cas[i].serial # 0 => cas[i].by # Null

Inv == TypeOK /\ LockInv /\ AcceptedInv /\ AnswerInv /\ TraceInv
-----------------------------------------------------------------------------
(* Rows and what the requests make of them.                                *)

LEMMA RequestNames ==
    ASSUME NEW r \in Requests
    PROVE  r # Free /\ r # NoKey /\ r # Null /\ r # 1 /\ r # 2 /\ r # 3
<1>1. r \notin {NoKey, Null} \cup (1 .. 3) /\ r # Free
  BY RequestsAssumption
<1>2. 1 \in 1 .. 3 /\ 2 \in 1 .. 3 /\ 3 \in 1 .. 3
  OBVIOUS
<1>3. QED
  BY <1>1, <1>2

\* A row of the types of its parts.
LEMMA CaRowType ==
    ASSUME NEW key \in Requests \cup {NoKey, 1, 3},
           NEW cert \in [key : Requests \cup (1 .. 4),
                         mark : Requests \cup {"one", "two", "offline", "foreign"}] \cup {NoCert},
           NEW parent \in {1, 2, Null}, NEW serial \in Nat, NEW by \in Requests \cup {Null}
    PROVE  CaRow(key, cert, parent, serial, by) \in Rows
BY DEF CaRow, Rows

LEMMA CertType ==
    /\ \A r \in Requests :
          Cert(r, r) \in [key : Requests \cup (1 .. 4),
                          mark : Requests \cup {"one", "two", "offline", "foreign"}]
    /\ {Cert(1, "one"), Cert(2, "two"), Offline, Foreign} \subseteq
          [key : Requests \cup (1 .. 4),
           mark : Requests \cup {"one", "two", "offline", "foreign"}]
    /\ Offline.key = 3
BY DEF Cert, Offline, Foreign

LEMMA AbsentType == Absent \in Rows
BY DEF Absent, Rows

UpdateOps == {"sign", "child", "regenerate", "complete"}

\* What an UPDATE leaves of a row.
LEMMA UpdatedFacts ==
    ASSUME TypeOK, NEW r \in Requests, NEW row \in Rows, op[r] \in UpdateOps
    PROVE  /\ Updated(r, row) \in Rows
           /\ Updated(r, row).serial = row.serial /\ Updated(r, row).by = row.by
           /\ Updated(r, row).parent = row.parent
           /\ op[r] \in {"sign", "child"} =>
                /\ Updated(r, row).counter = seen[r].counter + 1
                /\ Updated(r, row).key = row.key /\ Updated(r, row).cert = row.cert
                /\ Updated(r, row).pending = row.pending
           /\ op[r] \in {"regenerate", "complete"} => Updated(r, row).counter = row.counter
           /\ op[r] = "regenerate" =>
                /\ Updated(r, row).key = r /\ Updated(r, row).pending = row.pending
           /\ op[r] = "complete" =>
                /\ Updated(r, row).key = row.key /\ Updated(r, row).cert = Offline
                /\ Updated(r, row).pending = FALSE
<1>1. seen[r].counter \in Nat
  BY DEF TypeOK, Rows
<1>2. CASE op[r] \in {"sign", "child"}
  <2>1. Updated(r, row) = [row EXCEPT !.counter = seen[r].counter + 1]
    BY <1>2 DEF Updated
  <2>2. QED
    BY <1>1, <1>2, <2>1 DEF Rows
<1>3. CASE op[r] = "regenerate"
  <2>1. Updated(r, row) = [row EXCEPT !.key = r]
    BY <1>3 DEF Updated
  <2>2. QED
    BY <1>3, <2>1 DEF Rows
<1>4. CASE op[r] = "complete"
  <2>1. Updated(r, row) = [row EXCEPT !.cert = Offline, !.pending = FALSE]
    BY <1>4 DEF Updated
  <2>2. QED
    BY <1>4, <2>1, CertType DEF Rows
<1>5. QED
  BY <1>2, <1>3, <1>4 DEF UpdateOps

\* The rows after the updates: the same ones, and one of them changed at most.
LEMMA UpdatedCasFacts ==
    ASSUME TypeOK, NEW r \in Requests
    PROVE  /\ DOMAIN UpdatedCas(r) = DOMAIN cas
           /\ \A j \in DOMAIN cas :
                 \/ UpdatedCas(r)[j] = cas[j] /\ (j # Target(r) \/ op[r] \notin UpdateOps)
                 \/ /\ j = Target(r) /\ op[r] \in UpdateOps
                    /\ UpdatedCas(r)[j] = Updated(r, cas[j])
BY DEF UpdatedCas, UpdateOps

\* The tables a request writes: rows of the old one, updated or gone, and at
\* most one that is new, under an id not in use.
Inserted(r) ==
    CASE op[r] = "child" -> CaRow(r, Cert(r, r), 1, seen[r].counter, r)
      [] op[r] = "pending_child" -> CaRow(r, NoCert, 2, 0, r)
      [] op[r] = "import" -> CaRow(NoKey, Foreign, Null, 0, r)

InsertOps == {"child", "pending_child", "import"}

LEMMA NewCasFacts ==
    ASSUME TypeOK, NEW r \in Requests
    PROVE  /\ \A j \in DOMAIN NewCas(r) \cap DOMAIN cas : NewCas(r)[j] = UpdatedCas(r)[j]
           /\ \A j \in DOMAIN NewCas(r) \ DOMAIN cas :
                 op[r] \in InsertOps /\ NewCas(r)[j] = Inserted(r)
           /\ \A i, j \in DOMAIN NewCas(r) \ DOMAIN cas : i = j
           /\ op[r] \notin {"discard", "delete"} => DOMAIN cas \subseteq DOMAIN NewCas(r)
<1> DEFINE t == UpdatedCas(r)
<1>1. DOMAIN t = DOMAIN cas
  BY UpdatedCasFacts
<1>2. CASE op[r] \in InsertOps
  <2>1. NewCas(r) = With(t, Inserted(r))
    BY <1>2 DEF NewCas, Inserted, InsertOps
  <2>2. /\ DOMAIN NewCas(r) = DOMAIN cas \cup {NewId(t)}
        /\ \A j \in DOMAIN cas : NewCas(r)[j] = t[j]
        /\ \A j \in DOMAIN NewCas(r) \ DOMAIN cas : NewCas(r)[j] = Inserted(r)
    <3>1. NewCas(r) = [j \in DOMAIN t \cup {NewId(t)} |->
                          IF j \in DOMAIN t THEN t[j] ELSE Inserted(r)]
      BY <2>1 DEF With
    <3> HIDE DEF t
    <3>2. QED
      BY <1>1, <3>1
  <2> HIDE DEF t
  <2>3. \A i, j \in DOMAIN NewCas(r) \ DOMAIN cas : i = j
    BY <2>2
  <2>4. \A j \in DOMAIN NewCas(r) \cap DOMAIN cas : NewCas(r)[j] = UpdatedCas(r)[j]
    BY <2>2 DEF t
  <2>5. QED
    BY <1>2, <2>2, <2>3, <2>4
<1>3. CASE op[r] \notin InsertOps
  <2>1. NewCas(r) = [j \in DOMAIN t \ Deleted(r) |-> t[j]]
    BY <1>3 DEF NewCas, InsertOps
  <2>2. op[r] \notin {"discard", "delete"} => Deleted(r) = {}
    BY DEF Deleted
  <2>3. QED
    BY <1>1, <2>1, <2>2
<1>4. QED
  BY <1>2, <1>3

LEMMA InsertedFacts ==
    ASSUME TypeOK, NEW r \in Requests, op[r] \in InsertOps
    PROVE  /\ Inserted(r) \in Rows /\ Inserted(r).by = r
           /\ Inserted(r).key \in {r, NoKey}
           /\ op[r] = "child" => Inserted(r).parent = 1 /\ Inserted(r).serial = seen[r].counter
           /\ op[r] # "child" => Inserted(r).serial = 0
<1>1. seen[r].counter \in Nat
  BY DEF TypeOK, Rows
<1>2. CASE op[r] = "child"
  <2>1. Inserted(r) = CaRow(r, Cert(r, r), 1, seen[r].counter, r)
    BY <1>2 DEF Inserted
  <2>2. Inserted(r) \in Rows
    BY <1>1, <2>1, CaRowType, CertType
  <2>3. QED
    BY <1>2, <2>1, <2>2 DEF CaRow
<1>3. CASE op[r] = "pending_child"
  <2>1. Inserted(r) = CaRow(r, NoCert, 2, 0, r)
    BY <1>3 DEF Inserted
  <2>2. Inserted(r) \in Rows
    <3>1. r \in Requests \cup {NoKey, 1, 3} /\ 2 \in {1, 2, Null} /\ 0 \in Nat
          /\ r \in Requests \cup {Null}
      OBVIOUS
    <3>2. CaRow(r, NoCert, 2, 0, r) \in Rows
      BY <3>1 DEF CaRow, Rows
    <3>3. QED
      BY <2>1, <3>2
  <2>3. QED
    BY <1>3, <2>1, <2>2 DEF CaRow
<1>4. CASE op[r] = "import"
  <2>1. Inserted(r) = CaRow(NoKey, Foreign, Null, 0, r)
    BY <1>4 DEF Inserted
  <2>2. Inserted(r) \in Rows
    <3>1. NoKey \in Requests \cup {NoKey, 1, 3} /\ Null \in {1, 2, Null} /\ 0 \in Nat
          /\ r \in Requests \cup {Null}
      OBVIOUS
    <3>2. CaRow(NoKey, Foreign, Null, 0, r) \in Rows
      BY <3>1, CertType DEF CaRow, Rows
    <3>3. QED
      BY <2>1, <3>2
  <2>3. QED
    BY <1>4, <2>1, <2>2 DEF CaRow
<1>5. QED
  BY <1>2, <1>3, <1>4 DEF InsertOps

\* The certificates a request writes.
LEMMA NewCertsFacts ==
    ASSUME TypeOK, NEW r \in Requests
    PROVE  /\ NewCerts(r) \subseteq Leaves
           /\ op[r] = "sign" => NewCerts(r) = certs \cup {Leaf(1, seen[r].counter, r)}
           /\ op[r] # "sign" => NewCerts(r) \subseteq certs
           /\ Leaf(1, seen[r].counter, r) \in Leaves
<1>1. seen[r].counter \in Nat
  BY DEF TypeOK, Rows
<1>2. Leaf(1, seen[r].counter, r) \in Leaves
  BY <1>1 DEF Leaf, Leaves
<1>3. CASE op[r] = "sign"
  BY <1>2, <1>3 DEF NewCerts, TypeOK
<1>4. CASE op[r] # "sign"
  <2>1. NewCerts(r) \subseteq certs
    BY <1>4 DEF NewCerts
  <2>2. QED
    BY <1>2, <1>4, <2>1 DEF TypeOK
<1>5. QED
  BY <1>3, <1>4

-----------------------------------------------------------------------------
(* Steps that neither flush nor commit.                                    *)

Quiet(r) ==
    /\ UNCHANGED <<op, cas, certs, lock, tx>>
    /\ DOMAIN found' = Requests
    /\ \A q \in Requests \ {r} :
          /\ pc'[q] = pc[q] /\ answer'[q] = answer[q]
          /\ seen'[q] = seen[q] /\ found'[q] = found[q] /\ unit'[q] = unit[q]
    /\ pc[r] # "closed"
    /\ Holds(r)' <=> Holds(r)
    /\ Holds(r) => seen'[r] = seen[r] /\ found'[r] = found[r]
    /\ pc'[r] = "staged" \/ Holds(r)' =>
          /\ op[r] \in {"regenerate", "complete"} => seen'[r].pending
          /\ op[r] = "complete" => Certified(seen'[r])
    /\ answer'[r] = "error" =>
          pc'[r] \in {"returned", "committing", "closed", "failed"} /\ ~unit'[r]
    /\ pc'[r] \in {"new", "loaded", "reading", "read"} => ~unit'[r]

\* What a request would write depends on nobody else's progress.
LEMMA SameWrites ==
    ASSUME UNCHANGED <<op, cas, certs>>, NEW q, seen'[q] = seen[q], found'[q] = found[q]
    PROVE  /\ NewCas(q)' = NewCas(q) /\ NewCerts(q)' = NewCerts(q)
           /\ RowsThere(q)' <=> RowsThere(q)
<1>1. Target(q)' = Target(q)
  BY DEF Target
<1>2. RowsThere(q)' <=> RowsThere(q)
  BY <1>1 DEF RowsThere
<1>3. UpdatedCas(q)' = UpdatedCas(q)
  BY <1>1 DEF UpdatedCas, Updated
<1>4. Deleted(q)' = Deleted(q)
  BY <1>1 DEF Deleted
<1>5. NewCas(q)' = NewCas(q)
  BY <1>3, <1>4 DEF NewCas
<1>6. NewCerts(q)' = NewCerts(q)
  BY DEF NewCerts, LeavesBelow
<1>7. QED
  BY <1>2, <1>5, <1>6

\* A quiet step keeps the invariant.
LEMMA QuietInv ==
    ASSUME Inv, TypeOK', NEW r \in Requests, Quiet(r)
    PROVE  Inv'
<1>1. LockInv'
  <2> SUFFICES ASSUME NEW q \in Requests
               PROVE  /\ Holds(q)' <=> lock' = q
                      /\ Holds(q)' => /\ RowsThere(q)'
                                      /\ tx'[q] = [cas |-> NewCas(q)', certs |-> NewCerts(q)']
    BY DEF LockInv
  <2>1. Holds(q)' <=> Holds(q)
    BY DEF Quiet, Holds
  <2>2. Holds(q) => seen'[q] = seen[q] /\ found'[q] = found[q]
    BY DEF Quiet
  <2>3. Holds(q) => /\ NewCas(q)' = NewCas(q) /\ NewCerts(q)' = NewCerts(q)
                    /\ RowsThere(q)' <=> RowsThere(q)
    BY <2>2, SameWrites DEF Quiet
  <2>4. lock' = lock /\ tx' = tx
    BY DEF Quiet
  <2>5. QED
    BY <2>1, <2>3, <2>4 DEF Inv, LockInv
<1>2. AcceptedInv'
  BY DEF Quiet, Inv, AcceptedInv, Holds, Certified
<1>3. AnswerInv'
  BY DEF Quiet, Inv, AnswerInv
<1>4. TraceInv'
  BY DEF Quiet, Inv, TraceInv, NothingOf
<1>5. QED
  BY <1>1, <1>2, <1>3, <1>4 DEF Inv

\* Starting and waiting.
LEMMA BeginQuiet ==
    ASSUME Inv, NEW r \in Requests, Begin(r)
    PROVE  TypeOK' /\ Quiet(r)
<1>1. /\ pc[r] = "new" /\ pc' = [pc EXCEPT ![r] = "loaded"]
      /\ seen' = [seen EXCEPT ![r] = IF Target(r) \in DOMAIN cas THEN cas[Target(r)] ELSE Absent]
      /\ UNCHANGED <<op, cas, certs, lock, found, unit, tx, answer>>
  BY DEF Begin, Go
<1>2. (IF Target(r) \in DOMAIN cas THEN cas[Target(r)] ELSE Absent) \in Rows
  BY AbsentType DEF Inv, TypeOK
<1>3. TypeOK'
  BY <1>1, <1>2 DEF Inv, TypeOK, Steps
<1>4. QED
  BY <1>1, <1>3 DEF Quiet, Holds, Inv, TypeOK, AnswerInv

LEMMA WaitQuiet ==
    ASSUME Inv, NEW r \in Requests, Await(r) \/ Resume(r)
    PROVE  TypeOK' /\ Quiet(r)
<1>1. /\ \/ pc[r] = "loaded" /\ pc' = [pc EXCEPT ![r] = "reading"]
         \/ pc[r] = "reading" /\ pc' = [pc EXCEPT ![r] = "read"]
      /\ UNCHANGED <<op, cas, certs, lock, seen, found, unit, tx, answer>>
  BY DEF Await, Resume, Go
<1>2. TypeOK'
  BY <1>1 DEF Inv, TypeOK, Steps
<1>3. QED
  BY <1>1, <1>2 DEF Quiet, Holds, Inv, TypeOK, AnswerInv

\* The checks: what they found pending was pending when it was loaded.
LEMMA StageQuiet ==
    ASSUME Inv, NEW r \in Requests, Stage(r)
    PROVE  TypeOK' /\ Quiet(r)
<1>1. /\ pc[r] \in {"loaded", "read"} /\ pc' = [pc EXCEPT ![r] = "staged"]
      /\ Accepts(r)
      /\ UNCHANGED <<op, cas, certs, lock, seen, tx, answer>>
      /\ \E x : found' = [found EXCEPT ![r] = x]
      /\ unit' = [unit EXCEPT ![r] = TRUE]
  BY DEF Stage, Checked
<1>2. /\ op[r] \in {"regenerate", "complete"} => seen[r].pending
      /\ op[r] = "complete" => Certified(seen[r])
  BY <1>1 DEF Accepts
<1>3. TypeOK'
  BY <1>1 DEF Inv, TypeOK, Steps
<1>4. QED
  BY <1>1, <1>2, <1>3 DEF Quiet, Holds, Inv, TypeOK, AnswerInv

\* The error paths: from before the flush, with nothing left in the session.
ErrorPath(r) ==
    /\ pc[r] \in {"loaded", "read", "staged"}
    /\ \E to \in {"returned", "failed"} : pc' = [pc EXCEPT ![r] = to]
    /\ answer' = [answer EXCEPT ![r] = "error"]
    /\ unit' = [unit EXCEPT ![r] = FALSE]
    /\ UNCHANGED <<op, cas, certs, lock, seen, found, tx>>

LEMMA FailsQuiet ==
    ASSUME Inv, NEW r \in Requests, ErrorPath(r)
    PROVE  TypeOK' /\ Quiet(r)
<1>1. PICK to \in {"returned", "failed"} : pc' = [pc EXCEPT ![r] = to]
  BY DEF ErrorPath
<1>2. pc'[r] \in {"returned", "failed"} /\ answer'[r] = "error" /\ ~unit'[r]
  BY <1>1 DEF ErrorPath, Inv, TypeOK
<1>3. TypeOK'
  BY <1>1 DEF ErrorPath, Inv, TypeOK, Steps
<1>4. \A q \in Requests \ {r} :
         pc'[q] = pc[q] /\ answer'[q] = answer[q] /\ unit'[q] = unit[q]
  BY <1>1 DEF ErrorPath, Inv, TypeOK
<1>5. QED
  BY <1>1, <1>2, <1>3, <1>4 DEF ErrorPath, Quiet, Holds, Inv, TypeOK

\* What refuses a request leaves nothing: deleting, whose page does not roll back,
\* is refused before it has changed anything.
LEMMA ErrorQuiet ==
    ASSUME Inv, NEW r \in Requests, Refuse(r) \/ SignError(r) \/ FlushFails(r) \/ Timeout(r)
    PROVE  TypeOK' /\ Quiet(r)
<1>1. CASE Refuse(r)
  <2>1. pc[r] \in {"loaded", "read"} /\ Fails(r, ~Raises(r), Kept(r))
    BY <1>1 DEF Refuse, Checked
  <2>2. Kept(r) = FALSE
    BY <2>1 DEF Kept, Inv, AnswerInv
  <2>3. ErrorPath(r)
    BY <2>1, <2>2 DEF ErrorPath, Fails
  <2>4. QED
    BY <2>3, FailsQuiet
<1>2. CASE SignError(r)
  <2>1. pc[r] = "staged" /\ Fails(r, TRUE, Kept(r))
    BY <1>2 DEF SignError
  <2>2. Kept(r) = FALSE
    <3>1. op[r] \in {"sign", "child"}
      BY <1>2 DEF SignError
    <3>2. QED
      BY <3>1 DEF Kept, RollsBack
  <2>3. ErrorPath(r)
    BY <2>1, <2>2 DEF ErrorPath, Fails
  <2>4. QED
    BY <2>3, FailsQuiet
<1>3. CASE FlushFails(r) \/ Timeout(r)
  <2>1. pc[r] = "staged"
    BY <1>3 DEF FlushFails, Timeout, GivesUp
  <2>2. ErrorPath(r)
    BY <1>3, <2>1 DEF ErrorPath, FlushFails, Timeout, Fails
  <2>3. QED
    BY <2>2, FailsQuiet
<1>4. QED
  BY <1>1, <1>2, <1>3

\* The answer goes out before the commit, and it is no error.
LEMMA ReturnQuiet ==
    ASSUME Inv, NEW r \in Requests, Return(r)
    PROVE  TypeOK' /\ Quiet(r)
<1>1. /\ pc[r] = "flushed" /\ pc' = [pc EXCEPT ![r] = "returned"]
      /\ answer' = [answer EXCEPT ![r] = "done"]
      /\ UNCHANGED <<op, cas, certs, lock, seen, found, unit, tx>>
  BY DEF Return, Go
<1>2. answer[r] # "error"
  BY <1>1 DEF Inv, AnswerInv
<1>3. TypeOK'
  BY <1>1 DEF Inv, TypeOK, Steps
<1>4. answer'[r] # "error"
  BY <1>1 DEF Inv, TypeOK
<1>5. QED
  BY <1>1, <1>2, <1>3, <1>4 DEF Quiet, Holds, Inv, TypeOK, AcceptedInv

LEMMA ResumedQuiet ==
    ASSUME Inv, NEW r \in Requests, Resumed(r)
    PROVE  TypeOK' /\ Quiet(r)
<1>1. /\ pc[r] = "returned" /\ pc' = [pc EXCEPT ![r] = "committing"]
      /\ UNCHANGED <<op, cas, certs, lock, seen, found, unit, tx, answer>>
  BY DEF Resumed, Go
<1>2. TypeOK'
  BY <1>1 DEF Inv, TypeOK, Steps
<1>3. QED
  BY <1>1, <1>2 DEF Quiet, Holds, Inv, TypeOK, AnswerInv, AcceptedInv

\* A commit after an error: there is nothing to commit.
LEMMA EmptyCommitQuiet ==
    ASSUME Inv, NEW r \in Requests, Commit(r), answer[r] = "error"
    PROVE  TypeOK' /\ Quiet(r)
<1>1. ~unit[r] /\ ~Holds(r) /\ lock # r
  BY DEF Inv, AnswerInv, LockInv, Holds
<1>2. Committed(r) = [cas |-> cas, certs |-> certs]
  BY <1>1 DEF Committed
<1>3. /\ pc[r] = "committing" /\ pc' = [pc EXCEPT ![r] = "closed"]
      /\ unit' = [unit EXCEPT ![r] = FALSE]
      /\ UNCHANGED <<op, cas, certs, lock, seen, found, tx, answer>>
  BY <1>1, <1>2 DEF Commit, Go
<1>4. TypeOK'
  BY <1>3 DEF Inv, TypeOK, Steps
<1>5. QED
  BY <1>1, <1>3, <1>4 DEF Quiet, Holds, Inv, TypeOK, AnswerInv

-----------------------------------------------------------------------------
(* Flushing and committing.                                                *)

\* A commit with something to commit.
CommitsWork(r) == Commit(r) /\ answer[r] # "error"

\* Who flushes finds the lock free and has it from then on.
LEMMA FlushInv ==
    ASSUME Inv, NEW r \in Requests, Flush(r)
    PROVE  Inv' /\ UNCHANGED <<cas, certs>>
<1>1. /\ pc[r] = "staged" /\ pc' = [pc EXCEPT ![r] = "flushed"]
      /\ lock = Free /\ RowsThere(r) /\ lock' = r
      /\ tx' = [tx EXCEPT ![r] = [cas |-> NewCas(r), certs |-> NewCerts(r)]]
      /\ UNCHANGED <<op, cas, certs, seen, found, unit, answer>>
  BY DEF Flush, Go
<1>2. TypeOK'
  BY <1>1 DEF Inv, TypeOK, Steps
<1>3. LockInv'
  <2> SUFFICES ASSUME NEW q \in Requests
               PROVE  /\ Holds(q)' <=> lock' = q
                      /\ Holds(q)' => /\ RowsThere(q)'
                                      /\ tx'[q] = [cas |-> NewCas(q)', certs |-> NewCerts(q)']
    BY DEF LockInv
  <2>1. q # Free /\ ~Holds(q)
    BY <1>1, RequestNames DEF Inv, LockInv
  <2>2. Holds(q)' <=> q = r
    BY <1>1, <2>1 DEF Inv, TypeOK, Holds, AnswerInv
  <2>3. /\ NewCas(r)' = NewCas(r) /\ NewCerts(r)' = NewCerts(r)
        /\ RowsThere(r)' <=> RowsThere(r)
    BY <1>1, SameWrites
  <2>4. tx'[r] = [cas |-> NewCas(r), certs |-> NewCerts(r)]
    BY <1>1 DEF Inv, TypeOK
  <2>5. QED
    BY <1>1, <2>2, <2>3, <2>4
<1>4. AcceptedInv' /\ AnswerInv' /\ TraceInv'
  BY <1>1 DEF Inv, TypeOK, AcceptedInv, AnswerInv, TraceInv, NothingOf, Holds, Certified
<1>5. QED
  BY <1>1, <1>2, <1>3, <1>4 DEF Inv

\* Who commits writes what it would write now.
LEMMA CommitFacts ==
    ASSUME Inv, NEW r \in Requests, CommitsWork(r)
    PROVE  /\ cas' = NewCas(r) /\ certs' = NewCerts(r) /\ RowsThere(r)
           /\ pc[r] = "committing" /\ pc' = [pc EXCEPT ![r] = "closed"]
           /\ lock = r /\ lock' = Free
           /\ op[r] \in {"regenerate", "complete"} => seen[r].pending
           /\ op[r] = "complete" => Certified(seen[r])
           /\ unit' = [unit EXCEPT ![r] = FALSE]
           /\ UNCHANGED <<op, seen, found, tx, answer>>
<1>1. /\ pc[r] = "committing" /\ pc' = [pc EXCEPT ![r] = "closed"]
      /\ cas' = Committed(r).cas /\ certs' = Committed(r).certs
      /\ lock' = IF lock = r THEN Free ELSE lock
      /\ unit' = [unit EXCEPT ![r] = FALSE]
      /\ UNCHANGED <<op, seen, found, tx, answer>> /\ answer[r] # "error"
  BY DEF CommitsWork, Commit, Go
<1>2. Holds(r)
  BY <1>1 DEF Holds
<1>3. /\ lock = r /\ RowsThere(r) /\ tx[r] = [cas |-> NewCas(r), certs |-> NewCerts(r)]
      /\ Committed(r) = tx[r]
  BY <1>2 DEF Inv, LockInv, Committed
<1>4. /\ op[r] \in {"regenerate", "complete"} => seen[r].pending
      /\ op[r] = "complete" => Certified(seen[r])
  BY <1>2 DEF Inv, AcceptedInv
<1>5. QED
  BY <1>1, <1>3, <1>4

\* The rows after a commit: one that was there, or the one that r inserts.
LEMMA CommitRows ==
    ASSUME Inv, NEW r \in Requests, CommitsWork(r), NEW i \in DOMAIN cas'
    PROVE  /\ i \in DOMAIN cas =>
                \/ cas'[i] = cas[i] /\ (i # Target(r) \/ op[r] \notin UpdateOps)
                \/ /\ i = Target(r) /\ op[r] \in UpdateOps /\ cas[i] \in Rows
                   /\ cas'[i] = Updated(r, cas[i])
           /\ i \notin DOMAIN cas => op[r] \in InsertOps /\ cas'[i] = Inserted(r)
           /\ \A j \in DOMAIN cas' \ DOMAIN cas : i \notin DOMAIN cas => i = j
<1>1. TypeOK /\ cas' = NewCas(r)
  BY CommitFacts DEF Inv
<1>2. CASE i \in DOMAIN cas
  BY <1>1, <1>2, NewCasFacts, UpdatedCasFacts DEF TypeOK
<1>3. CASE i \notin DOMAIN cas
  BY <1>1, <1>3, NewCasFacts
<1>4. QED
  BY <1>2, <1>3

LEMMA CommitTypes ==
    ASSUME Inv, NEW r \in Requests, CommitsWork(r)
    PROVE  TypeOK'
<1>1. TypeOK
  BY DEF Inv
<1>2. ASSUME NEW i \in DOMAIN cas'
      PROVE  cas'[i] \in Rows
  <2>1. CASE i \in DOMAIN cas
    <3>1. cas'[i] = cas[i] \/ (op[r] \in UpdateOps /\ cas'[i] = Updated(r, cas[i]))
      BY <1>2, <2>1, CommitRows
    <3>2. cas[i] \in Rows
      BY <1>1, <2>1 DEF TypeOK
    <3>3. op[r] \in UpdateOps => Updated(r, cas[i]) \in Rows
      BY <1>1, <3>2, UpdatedFacts
    <3>4. QED
      BY <3>1, <3>2, <3>3
  <2>2. CASE i \notin DOMAIN cas
    BY <1>1, <1>2, <2>2, CommitRows, InsertedFacts
  <2>3. QED
    BY <2>1, <2>2
<1>3. certs' \subseteq Leaves
  BY <1>1, CommitFacts, NewCertsFacts
<1>4. QED
  BY <1>1, <1>2, <1>3, CommitFacts DEF TypeOK, Steps

\* After a commit r may have left something, and nobody else more than before.
LEMMA CommitTrace ==
    ASSUME Inv, NEW r \in Requests, CommitsWork(r)
    PROVE  TraceInv'
<1>1. TypeOK /\ TraceInv /\ NothingOf(r)
  BY CommitFacts DEF Inv, TraceInv
<1>2. ASSUME NEW i \in DOMAIN cas', i \in DOMAIN cas
      PROVE  /\ cas'[i].by = cas[i].by /\ cas'[i].serial = cas[i].serial
             /\ cas'[i].key \in {cas[i].key, r}
  <2>1. cas'[i] = cas[i] \/ (op[r] \in UpdateOps /\ cas'[i] = Updated(r, cas[i]))
    BY <1>2, CommitRows
  <2>2. cas[i] \in Rows
    BY <1>1, <1>2 DEF TypeOK
  <2>3. op[r] \in UpdateOps =>
           /\ Updated(r, cas[i]).by = cas[i].by /\ Updated(r, cas[i]).serial = cas[i].serial
           /\ Updated(r, cas[i]).key \in {cas[i].key, r}
    BY <1>1, <2>2, UpdatedFacts DEF UpdateOps
  <2>4. QED
    BY <2>1, <2>3
<1>3. ASSUME NEW i \in DOMAIN cas', i \notin DOMAIN cas
      PROVE  cas'[i].by = r /\ cas'[i].key \in {r, NoKey}
  BY <1>1, <1>3, CommitRows, InsertedFacts
<1>4. \A c \in certs' : c \in certs \/ c.by = r
  <2>1. certs' \subseteq certs \cup {Leaf(1, seen[r].counter, r)}
    BY <1>1, CommitFacts, NewCertsFacts
  <2>2. Leaf(1, seen[r].counter, r).by = r
    BY DEF Leaf
  <2>3. QED
    BY <2>1, <2>2
<1>5. ASSUME NEW q \in Requests, pc'[q] # "closed"
      PROVE  NothingOf(q)'
  <2>1. q # r /\ NothingOf(q) /\ q # NoKey
    BY <1>1, <1>5, CommitFacts, RequestNames DEF TypeOK, TraceInv
  <2>2. \A i \in DOMAIN cas' : cas'[i].by # q /\ cas'[i].key # q
    BY <1>2, <1>3, <2>1 DEF NothingOf
  <2>3. \A c \in certs' : c.by # q
    BY <1>4, <2>1 DEF NothingOf
  <2>4. QED
    BY <2>2, <2>3 DEF NothingOf
<1>6. ASSUME NEW i \in DOMAIN cas', NEW j \in DOMAIN cas', i # j, cas'[i].by = cas'[j].by
      PROVE  cas'[i].by = Null
  <2>1. CASE i \in DOMAIN cas /\ j \in DOMAIN cas
    BY <1>1, <1>2, <1>6, <2>1 DEF TraceInv
  <2>2. CASE i \in DOMAIN cas /\ j \notin DOMAIN cas
    BY <1>1, <1>2, <1>3, <1>6, <2>2 DEF NothingOf
  <2>3. CASE i \notin DOMAIN cas /\ j \in DOMAIN cas
    BY <1>1, <1>2, <1>3, <1>6, <2>3 DEF NothingOf
  <2>4. CASE i \notin DOMAIN cas /\ j \notin DOMAIN cas
    BY <1>6, <2>4, CommitRows
  <2>5. QED
    BY <2>1, <2>2, <2>3, <2>4
<1>7. ASSUME NEW i \in DOMAIN cas', cas'[i].serial # 0
      PROVE  cas'[i].by # Null
  BY <1>1, <1>2, <1>3, <1>7, RequestNames DEF TraceInv
<1>8. QED
  BY <1>5, <1>6, <1>7 DEF TraceInv

LEMMA CommitInv ==
    ASSUME Inv, NEW r \in Requests, CommitsWork(r)
    PROVE  Inv'
<1>1. /\ pc[r] = "committing" /\ pc' = [pc EXCEPT ![r] = "closed"]
      /\ lock = r /\ lock' = Free /\ TypeOK
      /\ unit' = [unit EXCEPT ![r] = FALSE]
      /\ UNCHANGED <<op, seen, found, tx, answer>>
  BY CommitFacts DEF Inv
<1>2. \A q \in Requests : ~Holds(q)' /\ lock' # q
  BY <1>1, RequestNames DEF Inv, LockInv, Holds, TypeOK
<1>3. LockInv'
  BY <1>2 DEF LockInv
<1>4. AcceptedInv' /\ AnswerInv'
  BY <1>1, <1>2 DEF Inv, TypeOK, AcceptedInv, AnswerInv, Certified
<1>5. QED
  BY <1>3, <1>4, CommitTypes, CommitTrace DEF Inv

\* Every step keeps the invariant; only commits change the tables.
LEMMA StepInv ==
    ASSUME Inv, [Next]_vars
    PROVE  Inv' /\ (UNCHANGED <<cas, certs>> \/ \E r \in Requests : CommitsWork(r))
<1>1. ASSUME NEW r \in Requests, Step(r)
      PROVE  Inv' /\ (UNCHANGED <<cas, certs>> \/ CommitsWork(r))
  <2>1. ASSUME TypeOK', Quiet(r)
        PROVE  Inv' /\ UNCHANGED <<cas, certs>>
    BY <2>1, QuietInv DEF Quiet
  <2>2. CASE Begin(r)
    BY <2>1, <2>2, BeginQuiet
  <2>3. CASE Await(r) \/ Resume(r)
    BY <2>1, <2>3, WaitQuiet
  <2>4. CASE Stage(r)
    BY <2>1, <2>4, StageQuiet
  <2>5. CASE Refuse(r) \/ SignError(r) \/ FlushFails(r) \/ Timeout(r)
    BY <2>1, <2>5, ErrorQuiet
  <2>6. CASE Return(r)
    BY <2>1, <2>6, ReturnQuiet
  <2>7. CASE Resumed(r)
    BY <2>1, <2>7, ResumedQuiet
  <2>8. CASE Flush(r)
    BY <2>8, FlushInv
  <2>9. CASE Commit(r)
    <3>1. CASE answer[r] = "error"
      BY <2>1, <2>9, <3>1, EmptyCommitQuiet
    <3>2. CASE answer[r] # "error"
      BY <2>9, <3>2, CommitInv DEF CommitsWork
    <3>3. QED
      BY <3>1, <3>2
  <2>10. QED
    BY <1>1, <2>2, <2>3, <2>4, <2>5, <2>6, <2>7, <2>8, <2>9 DEF Step
<1>2. CASE UNCHANGED vars
  <2>1. UNCHANGED <<op, cas, certs, loop, lock, pc, seen, found, unit, tx, answer>>
    BY <1>2 DEF vars
  <2>2. TypeOK' /\ AcceptedInv' /\ AnswerInv' /\ TraceInv'
    BY <2>1 DEF Inv, TypeOK, AcceptedInv, AnswerInv, TraceInv, NothingOf, Holds, Certified
  <2>3. ASSUME NEW q \in Requests
        PROVE  /\ Holds(q)' <=> lock' = q
               /\ Holds(q)' => /\ RowsThere(q)'
                               /\ tx'[q] = [cas |-> NewCas(q)', certs |-> NewCerts(q)']
    <3>1. /\ NewCas(q)' = NewCas(q) /\ NewCerts(q)' = NewCerts(q)
          /\ RowsThere(q)' <=> RowsThere(q)
      BY <2>1, SameWrites
    <3>2. QED
      BY <2>1, <3>1 DEF Inv, LockInv, Holds
  <2>4. LockInv'
    BY <2>3 DEF LockInv
  <2>5. QED
    BY <2>1, <2>2, <2>4 DEF Inv
<1>3. QED
  BY <1>1, <1>2 DEF Next, Idle

\* The three CAs there are at first are nobody's, and have signed nothing here.
LEMMA InitInv == Init => Inv
<1> SUFFICES ASSUME Init PROVE Inv
  OBVIOUS
<1>1. /\ DOMAIN cas = 1 .. 3
      /\ cas[1] = CaRow(1, Cert(1, "one"), Null, 0, Null)
      /\ cas[2] = CaRow(NoKey, Cert(2, "two"), Null, 0, Null)
      /\ cas[3] = CaRow(3, NoCert, 2, 0, Null)
  BY DEF Init
<1>2. \A i \in DOMAIN cas : i = 1 \/ i = 2 \/ i = 3
  BY <1>1
<1>3. cas[1] \in Rows /\ cas[1].by = Null /\ cas[1].key = 1 /\ cas[1].serial = 0
  <2>1. cas[1] \in Rows
    <3>1. CaRow(1, Cert(1, "one"), Null, 0, Null) \in Rows
      BY CertType DEF CaRow, Rows
    <3>2. QED
      BY <1>1, <3>1
  <2>2. QED
    BY <1>1, <2>1 DEF CaRow
<1>4. cas[2] \in Rows /\ cas[2].by = Null /\ cas[2].key = NoKey /\ cas[2].serial = 0
  <2>1. cas[2] \in Rows
    <3>1. CaRow(NoKey, Cert(2, "two"), Null, 0, Null) \in Rows
      BY CertType DEF CaRow, Rows
    <3>2. QED
      BY <1>1, <3>1
  <2>2. QED
    BY <1>1, <2>1 DEF CaRow
<1>5. cas[3] \in Rows /\ cas[3].by = Null /\ cas[3].key = 3 /\ cas[3].serial = 0
  <2>1. cas[3] \in Rows
    BY <1>1, CaRowType
  <2>2. QED
    BY <1>1, <2>1 DEF CaRow
<1>6. \A i \in DOMAIN cas : /\ cas[i] \in Rows /\ cas[i].by = Null /\ cas[i].serial = 0
                            /\ cas[i].key \in {1, NoKey, 3}
  BY <1>2, <1>3, <1>4, <1>5
<1>7. TypeOK
  <2>1. Absent \in Rows
    BY AbsentType
  <2>2. op \in [Requests -> Kinds]
    BY RequestsAssumption DEF Init
  <2>3. QED
    BY <1>6, <2>1, <2>2 DEF Init, TypeOK, Steps
<1>8. LockInv
  BY RequestNames DEF Init, LockInv, Holds
<1>9. AcceptedInv /\ AnswerInv
  BY DEF Init, AcceptedInv, AnswerInv, Holds
<1>10. TraceInv
  <2>1. ASSUME NEW r \in Requests
        PROVE  NothingOf(r)
    <3>1. r # Null /\ r \notin {1, NoKey, 3}
      BY RequestNames
    <3>2. certs = {}
      BY DEF Init
    <3>3. QED
      BY <1>6, <3>1, <3>2 DEF NothingOf
  <2>2. QED
    BY <1>6, <2>1 DEF TraceInv
<1>11. QED
  BY <1>7, <1>8, <1>9, <1>10 DEF Inv

\* What the tables, the lock and the open transactions satisfy at any moment.
THEOREM RequestsInv == Spec => []Inv
<1>1. Inv /\ [Next]_vars => Inv'
  BY StepInv
<1>2. QED
  BY <1>1, InitInv, PTL DEF Spec

-----------------------------------------------------------------------------
(* The properties.                                                         *)

\* Who is answered with an error changes nothing, neither then nor when get_db
\* commits its session afterwards: there is nothing left in it, since the page
\* has rolled back, the flush has failed, or nothing had been changed yet.
THEOREM RequestsErrorsLeaveNothing == Spec => ErrorsLeaveNothing
<1>1. Inv /\ [Next]_vars =>
        [\A r \in Requests :
            answer'[r] = "error" /\ pc'[r] # pc[r] => UNCHANGED <<cas, certs>>]_vars
  <2> SUFFICES ASSUME Inv, [Next]_vars, NEW r \in Requests,
                      answer'[r] = "error", pc'[r] # pc[r]
               PROVE  UNCHANGED <<cas, certs>>
    OBVIOUS
  <2>1. ASSUME NEW q \in Requests, CommitsWork(q)
        PROVE  FALSE
    <3>1. pc' = [pc EXCEPT ![q] = "closed"] /\ answer' = answer
      BY <2>1, CommitFacts
    <3>2. q = r
      BY <3>1 DEF Inv, TypeOK
    <3>3. QED
      BY <2>1, <3>1, <3>2 DEF CommitsWork
  <2>2. QED
    BY <2>1, StepInv
<1>2. QED
  BY <1>1, RequestsInv, PTL DEF Spec, ErrorsLeaveNothing

\* A commit that signs updates the CA's row, which must be there for it.
LEMMA CommitByPresentCa ==
    ASSUME Inv, NEW r \in Requests, CommitsWork(r)
    PROVE  /\ \A c \in certs' \ certs : c.ca \in DOMAIN cas'
           /\ \A i \in DOMAIN cas' \ DOMAIN cas :
                 cas'[i].serial # 0 => cas'[i].parent \in DOMAIN cas'
<1>1. TypeOK /\ cas' = NewCas(r) /\ certs' = NewCerts(r) /\ RowsThere(r)
  BY CommitFacts DEF Inv
<1>2. op[r] \in {"sign", "child"} => 1 \in DOMAIN cas'
  <2>1. op[r] \in {"sign", "child"} => 1 \in DOMAIN cas
    BY <1>1 DEF RowsThere, Target
  <2>2. QED
    BY <1>1, <2>1, NewCasFacts
<1>3. ASSUME NEW c \in certs' \ certs
      PROVE  c.ca \in DOMAIN cas'
  <2>1. op[r] = "sign" /\ c = Leaf(1, seen[r].counter, r)
    BY <1>1, <1>3, NewCertsFacts
  <2>2. c.ca = 1
    BY <2>1 DEF Leaf
  <2>3. QED
    BY <1>2, <2>1, <2>2
<1>4. ASSUME NEW i \in DOMAIN cas' \ DOMAIN cas, cas'[i].serial # 0
      PROVE  cas'[i].parent \in DOMAIN cas'
  <2>1. op[r] \in InsertOps /\ cas'[i] = Inserted(r)
    BY <1>4, CommitRows
  <2>2. op[r] = "child" /\ cas'[i].parent = 1
    BY <1>1, <1>4, <2>1, InsertedFacts
  <2>3. QED
    BY <1>2, <2>2
<1>5. QED
  BY <1>3, <1>4

\* Nothing signed is committed for a CA that is gone.
THEOREM RequestsSignedByPresentCa == Spec => SignedByPresentCa
<1>1. Inv /\ [Next]_vars =>
        [/\ \A c \in certs' \ certs : c.ca \in DOMAIN cas'
         /\ \A i \in DOMAIN cas' \ DOMAIN cas :
               cas'[i].serial # 0 => cas'[i].parent \in DOMAIN cas']_vars
  BY StepInv, CommitByPresentCa
<1>2. QED
  BY <1>1, RequestsInv, PTL DEF Spec, SignedByPresentCa

\* A commit that makes key and certificate differ changes a row that is not as
\* it was loaded.
LEMMA CommitFits ==
    ASSUME Inv, NEW r \in Requests, CommitsWork(r), NEW i \in DOMAIN cas \cap DOMAIN cas',
           Fits(cas[i]), ~Fits(cas'[i])
    PROVE  <<seen[r].key, seen[r].pending>> # <<cas[i].key, cas[i].pending>>
<1>1. /\ TypeOK
      /\ op[r] \in {"regenerate", "complete"} => seen[r].pending
      /\ op[r] = "complete" => Certified(seen[r])
  BY CommitFacts DEF Inv
<1>2. op[r] \in UpdateOps /\ cas'[i] = Updated(r, cas[i])
  BY CommitRows
<1>3. cas[i] \in Rows /\ seen[r] \in Rows
  BY <1>1 DEF TypeOK
<1>4. /\ op[r] \in {"sign", "child"} =>
            /\ cas'[i].key = cas[i].key /\ cas'[i].cert = cas[i].cert
            /\ cas'[i].pending = cas[i].pending
      /\ op[r] = "regenerate" => cas'[i].pending = cas[i].pending
      /\ op[r] = "complete" => cas'[i].key = cas[i].key /\ cas'[i].cert = Offline
  <2>1. PICK row \in Rows : row = cas[i]
    BY <1>3
  <2>2. cas'[i] = Updated(r, row) /\ op[r] \in UpdateOps /\ TypeOK
    BY <1>1, <1>2, <2>1
  <2>3. /\ op[r] \in {"sign", "child"} =>
              /\ Updated(r, row).key = row.key /\ Updated(r, row).cert = row.cert
              /\ Updated(r, row).pending = row.pending
        /\ op[r] = "regenerate" => Updated(r, row).pending = row.pending
        /\ op[r] = "complete" =>
              Updated(r, row).key = row.key /\ Updated(r, row).cert = Offline
    BY <2>2, UpdatedFacts
  <2>4. QED
    BY <2>1, <2>2, <2>3
<1>5. CASE op[r] = "regenerate"
  <2>1. ~cas[i].pending /\ seen[r].pending
    BY <1>1, <1>4, <1>5 DEF Fits
  <2>2. QED
    BY <2>1
<1>6. CASE op[r] = "complete"
  <2>1. Offline.key # cas[i].key
    BY <1>4, <1>6 DEF Fits
  <2>2. Offline.key = seen[r].key
    BY <1>1, <1>6 DEF Certified
  <2>3. QED
    BY <2>1, <2>2
<1>7. QED
  BY <1>2, <1>4, <1>5, <1>6 DEF UpdateOps, Fits

\* A CA gets a key that its certificate does not certify only from a request
\* that overtakes or is overtaken.
THEOREM RequestsCompletionFits == Spec => CompletionFits
<1>1. Inv /\ [Next]_vars =>
        [\A i \in DOMAIN cas \cap DOMAIN cas' : Fits(cas[i]) /\ ~Fits(cas'[i]) =>
            \E r \in Requests :
               /\ pc[r] = "committing" /\ pc'[r] = "closed"
               /\ <<seen[r].key, seen[r].pending>> # <<cas[i].key, cas[i].pending>>]_vars
  <2> SUFFICES ASSUME Inv, [Next]_vars, NEW i \in DOMAIN cas \cap DOMAIN cas',
                      Fits(cas[i]), ~Fits(cas'[i])
               PROVE  \E r \in Requests :
                         /\ pc[r] = "committing" /\ pc'[r] = "closed"
                         /\ <<seen[r].key, seen[r].pending>> # <<cas[i].key, cas[i].pending>>
    OBVIOUS
  <2>1. PICK r \in Requests : CommitsWork(r)
    BY StepInv
  <2>2. pc[r] = "committing" /\ pc'[r] = "closed"
    BY <2>1, CommitFacts DEF Inv, TypeOK
  <2>3. QED
    BY <2>1, <2>2, CommitFits
<1>2. QED
  BY <1>1, RequestsInv, PTL DEF Spec, CompletionFits

LEMMA LeafIsNoRow ==
    ASSUME NEW l \in Leaves, NEW w \in Rows
    PROVE  l # w
<1>1. DOMAIN l = {"ca", "serial", "by"} /\ "key" \in DOMAIN w
  BY DEF Leaves, Rows
<1>2. QED
  BY <1>1

\* Who commits with the counter as it is uses that serial and counts it.
LEMMA CommitSerials ==
    ASSUME Inv, NEW r \in Requests, CommitsWork(r), 1 \in DOMAIN cas, 1 \in DOMAIN cas',
           seen[r].counter = cas[1].counter
    PROVE  /\ cas[1].counter \in Nat
           /\ cas'[1].counter = IF op[r] \in {"sign", "child"} THEN cas[1].counter + 1
                                ELSE cas[1].counter
           /\ \A i \in DOMAIN cas \cap DOMAIN cas' :
                 cas'[i].serial = cas[i].serial /\ cas'[i].by = cas[i].by
           /\ \A i \in DOMAIN cas' \ DOMAIN cas : cas'[i].serial # 0 =>
                 op[r] = "child" /\ cas'[i].serial = cas[1].counter
           /\ \A c \in certs' \ certs : op[r] = "sign" /\ c = Leaf(1, cas[1].counter, r)
<1>1. TypeOK /\ certs' = NewCerts(r)
  BY CommitFacts DEF Inv
<1>2. \A i \in DOMAIN cas : cas[i] \in Rows
  BY <1>1 DEF TypeOK
<1>3. cas[1].counter \in Nat
  BY <1>2 DEF Rows
<1>4. ASSUME NEW i \in DOMAIN cas \cap DOMAIN cas'
      PROVE  /\ cas'[i].serial = cas[i].serial /\ cas'[i].by = cas[i].by
             /\ op[r] \notin {"sign", "child"} => cas'[i].counter = cas[i].counter
  <2>1. cas'[i] = cas[i] \/ (op[r] \in UpdateOps /\ cas'[i] = Updated(r, cas[i]))
    BY CommitRows
  <2>2. op[r] \in UpdateOps =>
           /\ Updated(r, cas[i]).serial = cas[i].serial /\ Updated(r, cas[i]).by = cas[i].by
           /\ op[r] \notin {"sign", "child"} => Updated(r, cas[i]).counter = cas[i].counter
    <3>1. PICK row \in Rows : row = cas[i]
      BY <1>2
    <3>2. QED
      BY <1>1, <3>1, UpdatedFacts DEF UpdateOps
  <2>3. QED
    BY <2>1, <2>2
<1>5. op[r] \in {"sign", "child"} => cas'[1].counter = cas[1].counter + 1
  <2> SUFFICES ASSUME op[r] \in {"sign", "child"}
               PROVE  cas'[1].counter = cas[1].counter + 1
    OBVIOUS
  <2>1. Target(r) = 1 /\ op[r] \in UpdateOps
    BY DEF Target, UpdateOps
  <2>2. cas'[1] = Updated(r, cas[1])
    BY <2>1, CommitRows
  <2>3. Updated(r, cas[1]).counter = seen[r].counter + 1
    BY <1>1, <1>2, <2>1, UpdatedFacts
  <2>4. QED
    BY <2>2, <2>3
<1>6. ASSUME NEW i \in DOMAIN cas' \ DOMAIN cas, cas'[i].serial # 0
      PROVE  op[r] = "child" /\ cas'[i].serial = cas[1].counter
  <2>1. op[r] \in InsertOps /\ cas'[i] = Inserted(r)
    BY <1>6, CommitRows
  <2>2. QED
    BY <1>1, <1>6, <2>1, InsertedFacts
<1>7. ASSUME NEW c \in certs' \ certs
      PROVE  op[r] = "sign" /\ c = Leaf(1, cas[1].counter, r)
  BY <1>1, <1>7, NewCertsFacts
<1>8. QED
  BY <1>3, <1>4, <1>5, <1>6, <1>7

\* Commits with the counter as it is keep serials apart.
LEMMA CommitApart ==
    ASSUME Inv, NEW r \in Requests, CommitsWork(r), 1 \in DOMAIN cas, 1 \in DOMAIN cas',
           seen[r].counter = cas[1].counter, Apart
    PROVE  Apart'
<1> DEFINE n == cas[1].counter
           IsLeaf(x) == x \in certs' /\ x.ca = 1
           IsRow(x, i) == i \in DOMAIN cas' /\ x = cas'[i] /\ x.serial # 0
<1>1. /\ n \in Nat
      /\ cas'[1].counter = IF op[r] \in {"sign", "child"} THEN n + 1 ELSE n
      /\ \A i \in DOMAIN cas \cap DOMAIN cas' :
            cas'[i].serial = cas[i].serial /\ cas'[i].by = cas[i].by
      /\ \A i \in DOMAIN cas' \ DOMAIN cas : cas'[i].serial # 0 =>
            op[r] = "child" /\ cas'[i].serial = n
      /\ \A c \in certs' \ certs : op[r] = "sign" /\ c = Leaf(1, n, r)
  BY CommitSerials
<1>2. /\ \A i \in DOMAIN cas : cas[i] \in Rows
      /\ \A c \in certs : c \in Leaves
      /\ \A i, j \in DOMAIN cas : i # j /\ cas[i].by = cas[j].by => cas[i].by = Null
      /\ \A i \in DOMAIN cas : cas[i].serial # 0 => cas[i].by # Null
      /\ \A i, j \in DOMAIN cas' \ DOMAIN cas : i = j
  BY CommitRows DEF Inv, TypeOK, TraceInv
<1>3. /\ \A c \in certs : c.ca = 1 => c.serial < n
      /\ \A i \in DOMAIN cas : cas[i].serial # 0 => cas[i].serial < n
      /\ \A c, d \in certs : c.ca = 1 /\ d.ca = 1 /\ c.serial = d.serial => c = d
      /\ \A c \in certs, i \in DOMAIN cas :
            c.ca = 1 /\ cas[i].serial # 0 /\ c.serial = cas[i].serial => c = cas[i]
      /\ \A i, j \in DOMAIN cas :
            cas[i].serial # 0 /\ cas[j].serial # 0 /\ cas[i].serial = cas[j].serial
               => cas[i] = cas[j]
  BY DEF Apart
<1>4. Leaf(1, n, r).serial = n
  BY DEF Leaf
<1> HIDE DEF n
<1>5. ASSUME NEW x, IsLeaf(x)
      PROVE  \/ x \in certs /\ x.serial < n
             \/ x = Leaf(1, n, r) /\ x.serial = n /\ op[r] = "sign"
  BY <1>1, <1>3, <1>4, <1>5
<1>6. ASSUME NEW x, NEW i, IsRow(x, i)
      PROVE  \/ /\ i \in DOMAIN cas /\ cas[i].serial = x.serial /\ x.serial < n
                /\ cas[i].serial # 0
             \/ i \notin DOMAIN cas /\ x.serial = n /\ op[r] = "child"
  BY <1>1, <1>3, <1>6
<1>7. \A x : (IsLeaf(x) \/ \E i : IsRow(x, i)) => x.serial < cas'[1].counter
  <2>1. ASSUME NEW x, IsLeaf(x) PROVE x.serial < cas'[1].counter
    <3>1. x \in certs => x.serial \in Nat
      BY <1>2 DEF Leaves
    <3>2. QED
      BY <1>1, <1>5, <2>1, <3>1
  <2>2. ASSUME NEW x, NEW i, IsRow(x, i) PROVE x.serial < cas'[1].counter
    <3>1. i \in DOMAIN cas => cas[i].serial \in Nat
      BY <1>2 DEF Rows
    <3>2. QED
      BY <1>1, <1>6, <2>2, <3>1
  <2>3. QED
    BY <2>1, <2>2
<1>8. ASSUME NEW x, NEW y, IsLeaf(x), IsLeaf(y), x.serial = y.serial
      PROVE  x = y
  <2>1. n \in Nat
    BY <1>1
  <2>2. x \in certs /\ y \in certs => x = y
    BY <1>3, <1>8
  <2>3. QED
    BY <1>5, <1>8, <2>1, <2>2
<1>9. ASSUME NEW x, NEW y, NEW i, IsLeaf(x), IsRow(y, i)
      PROVE  x.serial # y.serial
  <2>1. CASE x \in certs /\ x.serial < n /\ i \in DOMAIN cas
    <3>1. x # cas[i]
      BY <1>2, <2>1, LeafIsNoRow
    <3>2. QED
      BY <1>3, <1>6, <1>9, <2>1, <3>1
  <2>2. CASE ~(x \in certs /\ x.serial < n /\ i \in DOMAIN cas)
    BY <1>1, <1>5, <1>6, <1>9, <2>2
  <2>3. QED
    BY <2>1, <2>2
<1>10. ASSUME NEW x, NEW y, NEW i, NEW j, IsRow(x, i), IsRow(y, j), x.serial = y.serial
       PROVE  x = y
  <2>1. CASE i \in DOMAIN cas /\ j \in DOMAIN cas
    <3>1. cas[i] = cas[j] /\ cas[i].by # Null
      BY <1>2, <1>3, <1>6, <1>10, <2>1
    <3>2. i = j
      BY <1>2, <2>1, <3>1
    <3>3. QED
      BY <1>10, <3>2
  <2>2. CASE i \notin DOMAIN cas /\ j \notin DOMAIN cas
    BY <1>2, <1>10, <2>2
  <2>3. CASE ~(i \in DOMAIN cas <=> j \in DOMAIN cas)
    BY <1>1, <1>6, <1>10, <2>3
  <2>4. QED
    BY <2>1, <2>2, <2>3
<1>11. ASSUME NEW x \in {c \in certs' : c.ca = 1}
                        \cup {cas'[i] : i \in {j \in DOMAIN cas' : cas'[j].serial # 0}}
       PROVE  IsLeaf(x) \/ \E i : IsRow(x, i)
  BY <1>11
<1> HIDE DEF IsLeaf, IsRow
<1>12. QED
  BY <1>7, <1>8, <1>9, <1>10, <1>11 DEF Apart

\* A serial is used twice only by a request that signs with a counter that
\* another has used meanwhile.
THEOREM RequestsSerialsApart == Spec => SerialsApart
<1>1. Inv /\ [Next]_vars =>
        [1 \in DOMAIN cas \cap DOMAIN cas' /\ Apart /\ ~Apart' =>
            \E r \in Requests :
               pc[r] = "committing" /\ pc'[r] = "closed" /\ seen[r].counter # cas[1].counter]_vars
  <2> SUFFICES ASSUME Inv, [Next]_vars, 1 \in DOMAIN cas \cap DOMAIN cas', Apart, ~Apart'
               PROVE  \E r \in Requests :
                         /\ pc[r] = "committing" /\ pc'[r] = "closed"
                         /\ seen[r].counter # cas[1].counter
    OBVIOUS
  <2>1. ASSUME UNCHANGED <<cas, certs>>
        PROVE  FALSE
    BY <2>1 DEF Apart
  <2>2. PICK r \in Requests : CommitsWork(r)
    BY <2>1, StepInv
  <2>3. pc[r] = "committing" /\ pc'[r] = "closed"
    BY <2>2, CommitFacts DEF Inv, TypeOK
  <2>4. QED
    BY <2>2, <2>3, CommitApart
<1>2. QED
  BY <1>1, RequestsInv, PTL DEF Spec, SerialsApart

=============================================================================
