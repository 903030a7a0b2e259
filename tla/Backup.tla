------------------------------- MODULE Backup -------------------------------
(***************************************************************************)
(* Backup and restore (app/backup.py and its handlers in                   *)
(* app/routers/admin.py) while others change the data, on SQLite.          *)
(*                                                                         *)
(* A dump reads table after table, and no lock is held before the backup   *)
(* is inserted: a SELECT is a transaction of its own.  From the insert on  *)
(* the session has the write lock, so that wiping and filling the tables   *)
(* is seen by nobody before the commit, and is one step here.              *)
(*                                                                         *)
(* The contents of a table are a number, that of the change that wrote it. *)
(* A payload is the contents it holds: encryption and JSON lose nothing.   *)
(***************************************************************************)
EXTENDS Integers, Sequences, FiniteSets

CONSTANTS
    Requests,   \* requests that can be in flight at once
    Tables,     \* the data tables, a sequence in which parents come first
    Foreign,    \* contents of files from other instances
    Free,       \* nobody: the write lock is free
    MaxChanges, \* bound on the changes that others commit
    MaxVersion, \* bound on version numbers
    MaxSaved    \* bound on the contents saved (all three for model checking)

VARIABLES
    data,       \* data[t]: the committed contents of table t
    backups,    \* the backups table: a function from version numbers to contents
    saved,      \* what has ever been in a backup, and may have been downloaded
    changes,    \* the number of changes
    writer,     \* the request that holds the write lock, or Free
    pc,         \* pc[r]: how far r is
    req,        \* req[r]: what r asks for, and the contents it is to restore
    snap,       \* snap[r]: the tables that r has dumped so far
    number,     \* number[r]: the version number r will use
    work,       \* work[r]: the data tables as r's transaction has them
    raced       \* raced[r]: tables others have written since r dumped them

vars == <<data, backups, saved, changes, writer, pc, req, snap, number, work, raced>>

V == INSTANCE Vault WITH
         Tables <- Tables, Foreign <- Foreign,
         data <- data, backups <- backups, saved <- saved
TableNames == V!TableNames
Empty == V!Empty

ASSUME BackupAssumption ==
    /\ Len(Tables) \in Nat
    /\ Foreign \subseteq [TableNames -> Int]
    /\ Free \notin Requests

Nothing == [t \in TableNames |-> Empty]
NoRequest == [op |-> "none", source |-> Nothing]
-----------------------------------------------------------------------------
\* A finished dump as the contents of a backup.
AsContents(dump) ==
    [t \in TableNames |-> dump[CHOOSE i \in 1 .. Len(Tables) : Tables[i] = t]]

Dumped(r, t) == \E i \in 1 .. Len(snap[r]) : Tables[i] = t

\* The largest version there is plus one.
NextVersion ==
    LET used == DOMAIN backups \cup {0} IN
    1 + CHOOSE v \in used : \A w \in used : w <= v

Go(r, from, to) == pc[r] = from /\ pc' = [pc EXCEPT ![r] = to]

\* Bound: what a restore or an insert may add is still small enough.
Room == Cardinality(saved) < MaxSaved

\* A request arrives; nothing has been read yet but the row to restore.
Ask(r, op, source) ==
    /\ Go(r, "idle", "dumping")
    /\ req' = [req EXCEPT ![r] = [op |-> op, source |-> source]]
    /\ raced' = [raced EXCEPT ![r] = {}]
    /\ UNCHANGED <<data, backups, saved, changes, writer, snap, number, work>>

StartCreate(r) == Ask(r, "create", Nothing)

\* The row is loaded, and is not looked at again.
StartRestore(r) ==
    Room /\ \E v \in DOMAIN backups : Ask(r, "restore", backups[v])

\* A file is decoded before anything else is done.
StartUpload(r) ==
    Room /\ \E s \in saved \cup Foreign : Ask(r, "upload", s)

\* dump_state reads the next table.
Dump(r) ==
    /\ pc[r] = "dumping" /\ Len(snap[r]) < Len(Tables)
    /\ snap' = [snap EXCEPT ![r] = Append(@, data[Tables[Len(@) + 1]])]
    /\ UNCHANGED <<data, backups, saved, changes, writer, pc, req, number, work, raced>>

\* create_backup asks for the largest version number.
Number(r) ==
    /\ Len(snap[r]) = Len(Tables)
    /\ Go(r, "dumping", "numbered")
    /\ number' = [number EXCEPT ![r] = NextVersion]
    /\ UNCHANGED <<data, backups, saved, changes, writer, req, snap, work, raced>>

\* create_backup flushes: the lock is taken and the row inserted, unless the
\* version is in use by now.
Insert(r) ==
    /\ writer = Free
    /\ number[r] \notin DOMAIN backups
    /\ number[r] <= MaxVersion /\ Room
    /\ Go(r, "numbered", IF req[r].op = "create" THEN "done" ELSE "inserted")
    /\ writer' = r
    /\ work' = [work EXCEPT ![r] = data]
    /\ UNCHANGED <<data, backups, saved, changes, req, snap, number, raced>>

\* Mistake: a table for which the payload has no rows is left out of the wipe.
FilledSparing(r, n) ==
    [t \in TableNames |->
        LET filled == V!Cut(req[r].source, n)[t] IN
        IF filled = Empty THEN work[r][t] ELSE filled]

\* restore_state when n tables have been filled: all of them are emptied first,
\* and an INSERT that fails leaves the rows before it.
Filled(r, n) == V!Cut(req[r].source, n)

\* Mistake: the handler of a stored backup catches the error too.
CatchesAll(r) == TRUE

\* Who answers a failed restore with a page, so that get_db commits.
Catches(r) == req[r].op = "upload"

\* restore_state fills all tables, or fails on an insert (the payload is from
\* another version of the schema) and is caught.
Replace(r) ==
    /\ Go(r, "inserted", "done")
    /\ \E n \in 0 .. Len(Tables) :
          /\ n < Len(Tables) => Catches(r)
          /\ work' = [work EXCEPT ![r] = Filled(r, n)]
    /\ UNCHANGED <<data, backups, saved, changes, writer, req, snap, number, raced>>

Forget(r) ==
    /\ pc' = [pc EXCEPT ![r] = "idle"]
    /\ req' = [req EXCEPT ![r] = NoRequest]
    /\ snap' = [snap EXCEPT ![r] = <<>>]
    /\ number' = [number EXCEPT ![r] = 0]
    /\ work' = [work EXCEPT ![r] = Nothing]

\* What it means to others that tables T have been written.
Race(r, T) ==
    raced' = [q \in Requests |->
        IF q = r THEN {} ELSE raced[q] \cup {t \in T : Dumped(q, t)}]

\* Mistake: what is put away is what the tables hold when all is done.
SavedLast(r) == work[r]

\* What goes into the backup.
Saved(r) == AsContents(snap[r])

Commit(r) ==
    /\ pc[r] = "done"
    /\ data' = work[r]
    /\ backups' = [v \in DOMAIN backups \cup {number[r]} |->
                      IF v = number[r] THEN Saved(r) ELSE backups[v]]
    /\ saved' = saved \cup {Saved(r)}
    /\ writer' = Free
    /\ Race(r, {t \in TableNames : work[r][t] # data[t]})
    /\ Forget(r)
    /\ UNCHANGED changes

\* An error that goes through get_db: a stored backup that does not fit, a
\* version number taken twice, a lock that stays taken.
Fail(r) ==
    /\ pc[r] # "idle"
    /\ writer' = IF writer = r THEN Free ELSE writer
    /\ raced' = [raced EXCEPT ![r] = {}]
    /\ Forget(r)
    /\ UNCHANGED <<data, backups, saved, changes>>

\* Any other handler's commit writes some of the tables.
Change ==
    /\ writer = Free /\ changes < MaxChanges
    /\ changes' = changes + 1
    /\ \E T \in (SUBSET TableNames) \ {{}} :
          /\ data' = [t \in TableNames |-> IF t \in T THEN 1 + changes' ELSE data[t]]
          /\ Race(Free, T)
    /\ UNCHANGED <<backups, saved, writer, pc, req, snap, number, work>>

\* backups_delete.
Delete ==
    /\ writer = Free
    /\ \E v \in DOMAIN backups :
          backups' = [w \in DOMAIN backups \ {v} |-> backups[w]]
    /\ UNCHANGED <<data, saved, changes, writer, pc, req, snap, number, work, raced>>
-----------------------------------------------------------------------------
Init ==
    /\ data = [t \in TableNames |-> 1]
    /\ backups = <<>>
    /\ saved = {}
    /\ changes = 0
    /\ writer = Free
    /\ pc = [r \in Requests |-> "idle"]
    /\ req = [r \in Requests |-> NoRequest]
    /\ snap = [r \in Requests |-> <<>>]
    /\ number = [r \in Requests |-> 0]
    /\ work = [r \in Requests |-> Nothing]
    /\ raced = [r \in Requests |-> {}]

Next ==
    \/ \E r \in Requests :
          \/ StartCreate(r) \/ StartRestore(r) \/ StartUpload(r)
          \/ Dump(r) \/ Number(r) \/ Insert(r) \/ Replace(r) \/ Commit(r) \/ Fail(r)
    \/ Change
    \/ Delete

Spec == Init /\ [][Next]_vars
-----------------------------------------------------------------------------
\* The request whose backup appears in this step.
Commits(r) == pc[r] = "done" /\ number[r] \in DOMAIN backups' \ DOMAIN backups

\* Seen from outside, backing up and restoring are single steps: many reads, a
\* wipe and many inserts, with others in between and errors at any point, come
\* to one more backup, no other one touched, and data that were saved or
\* uploaded (cut off, if an upload did not fit).
Implements == V!Spec

\* A restore of a stored backup is all or nothing.
StoredRestoreWhole ==
    [][\A r \in Requests :
          Commits(r) /\ req[r].op = "restore" => data' = req[r].source]_vars

\* What a restore wipes is in the backup that it leaves behind, table by table,
\* unless others wrote the table after it was dumped.
WipedIsKept ==
    [][\A r \in Requests :
          Commits(r) => \A t \in TableNames \ raced[r] : backups'[number[r]][t] = data[t]]_vars
=============================================================================
