----------------------------- MODULE AuditTamper -----------------------------
(***************************************************************************)
(* The audit log of AuditLog.tla when somebody changes committed rows in   *)
(* the database behind the application's back, once, without recomputing   *)
(* hashes: what tests/test_audit_chain.py does between writing a log and   *)
(* verifying it.  Here requests, crashes and backfills go on afterwards.   *)
(***************************************************************************)
EXTENDS AuditLog

VARIABLE culprit  \* the id verify() should name; 0 while the log is untouched

tamperVars == <<vars, culprit>>

Others == <<lastId, writer, pc, dirty, own, staged, server, work>>

\* A log that verifies, between two transactions.
CanTamper ==
    /\ server = "serving"
    /\ culprit = 0
    /\ writer = NoOne
    /\ Verifies(rows)

\* Rewrites what any number of rows say, which includes exchanging the
\* contents of two of them.
EditRows ==
    /\ CanTamper
    /\ \E edited \in (SUBSET rows) \ {{}}, c \in [{r.id : r \in rows} -> Contents] :
          /\ \A r \in edited : c[r.id] # r.content
          /\ rows' = (rows \ edited) \cup {[r EXCEPT !.content = c[r.id]] : r \in edited}
          /\ culprit' = CHOOSE i \in {r.id : r \in edited} : \A r \in edited : i <= r.id
    /\ UNCHANGED Others

\* Removes a row that has a successor.
DeleteRow ==
    /\ CanTamper
    /\ \E r \in rows, next \in rows :
          /\ r.id < next.id
          /\ \A q \in rows : r.id < q.id => next.id <= q.id
          /\ rows' = rows \ {r}
          /\ culprit' = next.id
    /\ UNCHANGED Others

\* Exchanges the places of two whole rows.
ReorderRows ==
    /\ CanTamper
    /\ \E r \in rows, q \in rows :
          /\ r.id < q.id
          /\ rows' = (rows \ {r, q}) \cup {[r EXCEPT !.id = q.id], [q EXCEPT !.id = r.id]}
          /\ culprit' = r.id
    /\ UNCHANGED Others

TamperInit == Init /\ culprit = 0

TamperNext ==
    \/ Next /\ UNCHANGED culprit
    \/ EditRows
    \/ DeleteRow
    \/ ReorderRows

TamperSpec == TamperInit /\ [][TamperNext]_tamperVars
-----------------------------------------------------------------------------
\* Whatever is written, rolled back, restarted or backfilled after it, a
\* change to a log that verified stays visible, and verify() names the first
\* row that no longer fits: the first one edited or moved, or the one after
\* the row that is gone (test_modification_, test_deletion_ and
\* test_reorder_is_detected, with later activity).
TamperPinpointed ==
    culprit # 0 => /\ ~Verifies(rows)
                   /\ FirstBroken(rows).id = culprit
=============================================================================
