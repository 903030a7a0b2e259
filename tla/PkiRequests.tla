----------------------------- MODULE PkiRequests -----------------------------
(***************************************************************************)
(* Concurrent requests on the CAs: the event loop, the thread pool, the    *)
(* sessions and SQLite's write lock (app/db.py under uvicorn's one         *)
(* process), with the handlers of app/routers/pki.py cut at the points     *)
(* where others run.                                                       *)
(*                                                                         *)
(* An async handler runs on the event loop and keeps it until it returns   *)
(* or awaits an upload that is on disk; a sync one runs in a thread.  Both *)
(* begin, and have their session committed by get_db, only when the loop   *)
(* is free to hand the work to a thread.  A session reads what is          *)
(* committed, keeps the rows it has loaded (no refresh, autoflush off) and *)
(* takes the database's write lock with its first flush until it commits.  *)
(* get_db commits it also after an error, if the handler caught that and   *)
(* answers with a page; what it commits then is what the session holds.    *)
(*                                                                         *)
(* Three CA rows are there from the start: 1, an intermediate CA imported  *)
(* with its key, 2, a root CA whose key is elsewhere, and 3, pending below *)
(* 2.  They are unlocked.  Counters count from where the import set them.  *)
(***************************************************************************)
EXTENDS Integers, FiniteSets

CONSTANTS
    Requests,   \* what arrives, each request once
    Asked,      \* the operations that requests may ask for
    Free,       \* nobody: the loop or the lock is free
    NoKey, NoCert, Null

VARIABLES
    op,       \* op[r]: what r asks for
    cas,      \* the committed CA rows: a function from ids to rows
    certs,    \* the committed certificates
    loop,     \* the handler that runs on the event loop, or Free
    lock,     \* the request whose session holds the write lock, or Free
    pc,       \* pc[r]: how far r is
    seen,     \* seen[r]: the CA row r has loaded
    found,    \* found[r]: what r's queries told it about other rows
    unit,     \* unit[r]: r's session holds changes, flushed or not
    tx,       \* tx[r]: the tables as r's transaction has them
    answer    \* answer[r]: what r was told, "none" before that

vars == <<op, cas, certs, loop, lock, pc, seen, found, unit, tx, answer>>

Kinds == {"sign", "child", "pending_child", "regenerate", "complete", "discard",
          "import", "delete"}
Async == {"sign", "complete", "import"}

\* The CA an operation is about; an import brings a certificate from outside.
Target(r) ==
    CASE op[r] \in {"sign", "child", "delete"} -> 1
      [] op[r] = "pending_child" -> 2
      [] op[r] \in {"regenerate", "complete", "discard"} -> 3
      [] op[r] = "import" -> 0

ASSUME RequestsAssumption ==
    /\ IsFiniteSet(Requests) /\ Asked \subseteq Kinds
    /\ Free \notin Requests
    /\ Requests \cap ({NoKey, Null} \cup (1 .. 3)) = {}   \* r also names r's key
-----------------------------------------------------------------------------
\* A certificate: the key it certifies and what tells it apart.
Cert(key, mark) == [key |-> key, mark |-> mark]
Offline == Cert(3, "offline")     \* the reply to the CSR of CA 3 as it starts
Foreign == Cert(4, "foreign")     \* another root CA's, to be imported

CaRow(key, cert, parent, serial, by) ==
    [key |-> key, cert |-> cert, parent |-> parent, serial |-> serial, counter |-> 1,
     pending |-> cert = NoCert, by |-> by]

Leaf(ca, serial, by) == [ca |-> ca, serial |-> serial, by |-> by]

NewId(t) == 1 + CHOOSE i \in DOMAIN t \cup {0} : \A j \in DOMAIN t \cup {0} : j <= i
With(t, row) == [j \in DOMAIN t \cup {NewId(t)} |-> IF j \in DOMAIN t THEN t[j] ELSE row]

\* The CAs at and below 1 in a table; nothing here goes deeper than children.
Below(t) == {j \in DOMAIN t : j = 1 \/ t[j].parent = 1}
LeavesBelow(S) == {c \in certs : c.ca \in S}

Absent == [key |-> NoKey, cert |-> NoCert, parent |-> Null, serial |-> 0, counter |-> 0,
           pending |-> FALSE, by |-> Null]
Nothing == [cas |-> {}, leaves |-> FALSE]
-----------------------------------------------------------------------------
Go(r, from, to) == pc[r] = from /\ pc' = [pc EXCEPT ![r] = to]

TakeLoop(r) ==
    /\ loop = Free
    /\ loop' = IF op[r] \in Async THEN r ELSE Free

LeaveLoop(r) == loop' = IF loop = r THEN Free ELSE loop

\* The handler starts and loads the CA it is about.
Begin(r) ==
    /\ Go(r, "new", "loaded")
    /\ TakeLoop(r)
    /\ seen' = [seen EXCEPT ![r] = IF Target(r) \in DOMAIN cas THEN cas[Target(r)] ELSE Absent]
    /\ UNCHANGED <<op, cas, certs, lock, found, unit, tx, answer>>

\* Reading a large upload lets the loop go.
Await(r) ==
    /\ op[r] \in Async /\ Go(r, "loaded", "reading")
    /\ LeaveLoop(r)
    /\ UNCHANGED <<op, cas, certs, lock, seen, found, unit, tx, answer>>

Resume(r) ==
    /\ Go(r, "reading", "read")
    /\ TakeLoop(r)
    /\ UNCHANGED <<op, cas, certs, lock, seen, found, unit, tx, answer>>

\* Mistake: any certificate completes a CA.
CertifiedAny(ca) == TRUE

\* complete_pending_ca: the certificate certifies the key of the CA.
Certified(ca) == Offline.key = ca.key

\* What the handlers check against the row they loaded and what is committed.
Accepts(r) ==
    LET ca == seen[r] IN
    CASE op[r] = "import" -> \A j \in DOMAIN cas : cas[j].cert # Foreign
      [] op[r] \in {"sign", "child"} -> ca # Absent /\ ca.key # NoKey /\ ~ca.pending
      [] op[r] = "pending_child" -> ca # Absent /\ ~ca.pending
      [] op[r] \in {"regenerate", "discard"} -> ca.pending
      [] op[r] = "complete" -> /\ ca.pending /\ Certified(ca)
                               /\ \A j \in DOMAIN cas \ {Target(r)} : cas[j].cert # Offline
      [] op[r] = "delete" -> ca # Absent

Checked(r) == pc[r] \in {"loaded", "read"}

\* The changes are made to the rows in the session.  Deleting collects the
\* subtree and counts its certificates; it may be refused before that for want
\* of the name, or of the cascade flag, which Refuse stands for.
Stage(r) ==
    /\ Checked(r) /\ Accepts(r)
    /\ pc' = [pc EXCEPT ![r] = "staged"]
    /\ found' = [found EXCEPT ![r] =
                    IF op[r] = "delete"
                    THEN [cas |-> Below(cas), leaves |-> LeavesBelow(Below(cas)) # {}]
                    ELSE Nothing]
    /\ unit' = [unit EXCEPT ![r] = TRUE]
    /\ UNCHANGED <<op, cas, certs, loop, lock, seen, tx, answer>>

\* Mistake: no error page rolls back.
RollsBackNever(r) == FALSE

\* The error pages of all handlers but delete_ca roll back first.
RollsBack(r) == op[r] # "delete"

\* What an error page leaves in the session.
Kept(r) == unit[r] /\ ~RollsBack(r)

\* The handler fails: it has caught the error, answers with a page and returns,
\* and get_db will commit what is left; or get_db gets the exception, rolls back,
\* and the client gets an error.
Fails(r, caught, left) ==
    /\ pc' = [pc EXCEPT ![r] = IF caught THEN "returned" ELSE "failed"]
    /\ unit' = [unit EXCEPT ![r] = left]
    /\ answer' = [answer EXCEPT ![r] = "error"]
    /\ LeaveLoop(r)
    /\ UNCHANGED <<op, cas, certs, lock, seen, found, tx>>

\* A CA that is not there, or is not to be discarded, raises; a check that a
\* request does not pass has a page.
Raises(r) ==
    \/ op[r] = "discard"
    \/ op[r] \in {"regenerate", "complete", "delete"} /\ seen[r] = Absent

Refuse(r) ==
    /\ Checked(r) /\ (Accepts(r) => op[r] = "delete")
    /\ Fails(r, ~Raises(r), Kept(r))

\* Signing may fail after the serial was taken, for a name or a validity that
\* cannot be encoded.
SignError(r) ==
    /\ op[r] \in {"sign", "child"} /\ pc[r] = "staged"
    /\ Fails(r, TRUE, Kept(r))

\* Mistake: an UPDATE of a row that is gone goes unnoticed.
RowsThereUnchecked(r) == TRUE

\* An UPDATE has to find its row; an INSERT and a DELETE do not care.
RowsThere(r) ==
    op[r] \in {"sign", "child", "regenerate", "complete"} => Target(r) \in DOMAIN cas

\* Mistake: the serial is handed out and not counted.
UpdatedUncounted(r, row) ==
    CASE op[r] \in {"sign", "child"} -> row
      [] op[r] = "regenerate" -> [row EXCEPT !.key = r]
      [] op[r] = "complete" -> [row EXCEPT !.cert = Offline, !.pending = FALSE]

\* What the rows become: UPDATE sets the columns that changed, to values
\* computed from the row as it was loaded.
Updated(r, row) ==
    CASE op[r] \in {"sign", "child"} -> [row EXCEPT !.counter = seen[r].counter + 1]
      [] op[r] = "regenerate" -> [row EXCEPT !.key = r]
      [] op[r] = "complete" -> [row EXCEPT !.cert = Offline, !.pending = FALSE]

UpdatedCas(r) ==
    [j \in DOMAIN cas |->
        IF j = Target(r) /\ op[r] \in {"sign", "child", "regenerate", "complete"}
        THEN Updated(r, cas[j]) ELSE cas[j]]

\* Rows that are deleted: a discarded CA, or a subtree as it was collected.
Deleted(r) ==
    CASE op[r] = "discard" -> {Target(r)}
      [] op[r] = "delete" -> found[r].cas
      [] OTHER -> {}

NewCas(r) ==
    LET t == UpdatedCas(r) IN
    CASE op[r] = "child" -> With(t, CaRow(r, Cert(r, r), 1, seen[r].counter, r))
      [] op[r] = "pending_child" -> With(t, CaRow(r, NoCert, 2, 0, r))
      [] op[r] = "import" -> With(t, CaRow(NoKey, Foreign, Null, 0, r))
      [] OTHER -> [j \in DOMAIN t \ Deleted(r) |-> t[j]]

NewCerts(r) ==
    CASE op[r] = "sign" -> certs \cup {Leaf(1, seen[r].counter, r)}
      [] op[r] = "delete" /\ found[r].leaves -> certs \ LeavesBelow(found[r].cas)
      [] OTHER -> certs

\* The session writes: it gets the lock and its transaction has the changes.
Flush(r) ==
    /\ Go(r, "staged", "flushed")
    /\ lock = Free /\ RowsThere(r)
    /\ lock' = r
    /\ tx' = [tx EXCEPT ![r] = [cas |-> NewCas(r), certs |-> NewCerts(r)]]
    /\ UNCHANGED <<op, cas, certs, loop, seen, found, unit, answer>>

\* The row to be updated is gone: StaleDataError.  A flush that fails undoes the
\* transaction; only handlers that catch everything answer with a page.
FlushFails(r) ==
    /\ pc[r] = "staged" /\ lock = Free /\ ~RowsThere(r)
    /\ Fails(r, op[r] = "sign", FALSE)

\* Mistake: a waiting session waits until it gets the lock.
GivesUpNever(r) == FALSE

\* SQLite's busy timeout: "database is locked".
GivesUp(r) == pc[r] = "staged" /\ lock # Free

Timeout(r) == GivesUp(r) /\ Fails(r, op[r] \in {"sign", "import"}, FALSE)

\* The handler returns its answer; the session is still open.
Return(r) ==
    /\ Go(r, "flushed", "returned")
    /\ answer' = [answer EXCEPT ![r] = "done"]
    /\ LeaveLoop(r)
    /\ UNCHANGED <<op, cas, certs, lock, seen, found, unit, tx>>

\* The loop has get_db go on in a thread, and the thread commits.
Resumed(r) ==
    /\ Go(r, "returned", "committing")
    /\ loop = Free
    /\ UNCHANGED <<op, cas, certs, loop, lock, seen, found, unit, tx, answer>>

\* What a commit makes of the tables: the transaction's, if the session has
\* flushed; changes it holds and has not flushed are flushed now, which after an
\* error are the UPDATEs, as a new row is the last thing that a handler adds; and
\* a session without changes changes nothing.
Committed(r) ==
    CASE lock = r -> tx[r]
      [] lock # r /\ unit[r] -> [cas |-> UpdatedCas(r), certs |-> certs]
      [] OTHER -> [cas |-> cas, certs |-> certs]

Commit(r) ==
    /\ Go(r, "committing", "closed")
    /\ unit[r] => lock \in {r, Free}
    /\ cas' = Committed(r).cas /\ certs' = Committed(r).certs
    /\ unit' = [unit EXCEPT ![r] = FALSE]
    /\ lock' = IF lock = r THEN Free ELSE lock
    /\ UNCHANGED <<op, loop, seen, found, tx, answer>>

\* Everything has been answered and committed.
Idle == (\A r \in Requests : pc[r] \in {"closed", "failed"}) /\ UNCHANGED vars
-----------------------------------------------------------------------------
Init ==
    /\ op \in [Requests -> Asked]
    /\ cas = [i \in 1 .. 3 |->
                 CASE i = 1 -> CaRow(1, Cert(1, "one"), Null, 0, Null)
                   [] i = 2 -> CaRow(NoKey, Cert(2, "two"), Null, 0, Null)
                   [] i = 3 -> CaRow(3, NoCert, 2, 0, Null)]
    /\ certs = {}
    /\ loop = Free /\ lock = Free
    /\ pc = [r \in Requests |-> "new"]
    /\ seen = [r \in Requests |-> Absent]
    /\ found = [r \in Requests |-> Nothing]
    /\ unit = [r \in Requests |-> FALSE]
    /\ tx = [r \in Requests |-> [cas |-> cas, certs |-> certs]]
    /\ answer = [r \in Requests |-> "none"]

Step(r) ==
    \/ Begin(r) \/ Await(r) \/ Resume(r)
    \/ Stage(r) \/ Refuse(r) \/ SignError(r)
    \/ Flush(r) \/ FlushFails(r) \/ Timeout(r)
    \/ Return(r) \/ Resumed(r) \/ Commit(r)

Next == (\E r \in Requests : Step(r)) \/ Idle

\* Threads and the loop go on, and the busy timeout runs out.
Spec == Init /\ [][Next]_vars /\ \A r \in Requests : WF_vars(Step(r))
-----------------------------------------------------------------------------
\* A request whose handler waits for the lock on the event loop keeps the one
\* who holds it from committing, yet every request is answered and its session
\* closed: the busy timeout ends the wait.
Answered == \A r \in Requests : <>(pc[r] \in {"closed", "failed"})

\* A request that is answered with an error changes nothing, also when get_db
\* commits its session afterwards, as it does if the handler caught the error:
\* no serial that was taken, no key, no row is left of it.
ErrorsLeaveNothing ==
    [][\A r \in Requests :
          answer'[r] = "error" /\ pc'[r] # pc[r] => UNCHANGED <<cas, certs>>]_vars

\* What a CA has signed is committed only while the CA is there, however long
\* ago the request loaded it.
SignedByPresentCa ==
    [][/\ \A c \in certs' \ certs : c.ca \in DOMAIN cas'
       /\ \A i \in DOMAIN cas' \ DOMAIN cas :
             cas'[i].serial # 0 => cas'[i].parent \in DOMAIN cas']_vars

\* A CA that is no longer pending holds the key that its certificate certifies.
Fits(ca) == ca.key # NoKey /\ ~ca.pending => ca.cert.key = ca.key

\* Completions and regenerations that overlap with anything else leave every CA
\* with the key its certificate certifies, unless one of them changes a row that
\* is not pending any more or has another key than when it was loaded.
CompletionFits ==
    [][\A i \in DOMAIN cas \cap DOMAIN cas' : Fits(cas[i]) /\ ~Fits(cas'[i]) =>
          \E r \in Requests :
             /\ pc[r] = "committing" /\ pc'[r] = "closed"
             /\ <<seen[r].key, seen[r].pending>> # <<cas[i].key, cas[i].pending>>]_vars

\* What CA 1 has signed here: each has another serial, below the next one.
Apart ==
    LET signed == {c \in certs : c.ca = 1} \cup {cas[i] : i \in {j \in DOMAIN cas : cas[j].serial # 0}} IN
    /\ \A x \in signed : x.serial < cas[1].counter
    /\ \A x, y \in signed : x.serial = y.serial => x = y

\* Requests that sign with the same CA use different serials, and none that the
\* CA has used, unless one of them signs after another has, with the counter it
\* had loaded before.
SerialsApart ==
    [][1 \in DOMAIN cas \cap DOMAIN cas' /\ Apart /\ ~Apart' =>
          \E r \in Requests :
             pc[r] = "committing" /\ pc'[r] = "closed" /\ seen[r].counter # cas[1].counter]_vars
============================================================================
