# A formal model of VCM

VCM (`src/app`, FastAPI, SQLAlchemy, SQLite or PostgreSQL) keeps the VPN
connections of an organisation and the certificate authorities behind them,
behind accounts with a second factor and an audit log that is meant to show when
somebody has tampered with it. This directory holds TLA+ modules of its stateful
parts, the TLC configurations that check them, and TLAPS proofs about eight of them.

    tlc -workers 2 -config MCAuditLog.cfg MCAuditLog     # model-check an instance
    tlapm AuditLog_proofs.tla                            # check the proofs

## 1. Inventory

| part | code | state | operations | what makes it right |
|---|---|---|---|---|
| audit log | `security/deps.py` audit, `security/audit_chain.py`, `db.py` backfill | `audit_log` rows with `prev_hash`, `entry_hash` | append (flush, read head, stage, insert at the next flush), backfill at start, verify | rows only grow; a hash is that of its row; tampering is found at the right row; an untouched log verifies |
| CAs and certificates | `pki/ca.py`, `routers/pki.py`, `models.py` | `cert_authorities` (parent, key, certificate, serial counter, pending CSR, lock), `certificates` (issuing CA, managed or observed, superseded by, lock) | create root, child or pending child; CSR anew; complete; discard; import; delete with cascade; lock; sign; import, delete, lock and supersede certificates | forest of usable parents; keys fit certificates; no certificate twice; serials used once; locks hold |
| request sessions | `db.py` get_db, uvicorn's event loop and thread pool | one session and transaction per request, SQLite's write lock | begin, flush, commit after the answer, roll back | each request is answered; an error leaves nothing; stale rows do no harm |
| accounts and second factors | `routers/admin.py`, `profile.py`, `auth.py`, `security/mfa.py` | `users`, `webauthn_credentials` | create, role, disable, delete, reset MFA; enrol and remove TOTP and passkeys | an active admin remains; a user keeps a factor; a confirmed TOTP has a secret |
| sites, connections, pairing | `routers/sites.py` | `sites`, `vpn_connections` (site, name, `peer_connection_id`) | add, import, update by import, merge, delete; build far end, pair, unpair, rename | pointers lead somewhere; pairs part cleanly; names unique on a site |
| backup and restore | `backup.py`, `routers/admin.py` | `backups`: encrypted snapshots with version numbers | create, restore and upload (each with a safety snapshot first), download, delete | no backup is overwritten; a restore happens wholly or not at all; what it wipes is in the snapshot |
| login and sessions | `routers/auth.py`, `security/sessions.py`, `security/deps.py` | `sessions`, `webauthn_challenges` | password, forced change, second factor, enrolment, expiry, revocation | the redirects lead inside |
| API tokens, allowlist, start | `security/apitokens.py`, `ipfilter.py`, `routers/api.py`, `profile.py`, `admin.py`, `main.py` | `api_tokens`, `ip_allowlist` | mint, call, revoke; add and remove entries; bootstrap admin and seeding at the start | log and tokens tell the same story; what is issued is its owner's and within the owner's role; revocation sticks; a first run that is cut off is made up for |
| profiles | `srx/model.py`, `suggest.py`, `interop.py`, `defaults.py`, `bgp.py` as `routers/sites.py` uses them | the `params_json` of a connection, the defaults | form, import, update, rename, merge, build far end, pair, apply BGP, preview and approve | the two ends of a tunnel agree; objects on one device are distinct; what is approved is what was shown |
| configuration text | `srx/importer.py`, `generators.py`, `diff.py`, `rename.py` | none (pure) | parse and print vendor syntax | |
| schema sync, pages, mail, cryptography | the rest | none of their own | | |

How they interact: every handler gets a session from `get_db`, reads and changes
tables through it, calls `audit()` (which flushes), and returns; `get_db` commits
when the handler has returned, also when the handler caught an exception and
returned an error page. Nothing takes a lock before its first flush. On SQLite the
first INSERT or UPDATE takes the database's one write lock; on PostgreSQL there is
row locking only.

What is hard here, and where the hazards of `PROJECT.json` come from: requests
that overlap between their reads and their commit (most checks of VCM are reads
with no lock); rows that a session has loaded and does not read again; async
handlers that wait for the lock on the event loop; ids that SQLite hands out again
after a deletion; references that no database constraint guards (foreign keys are
not enforced on SQLite); long sequences of legal requests on the CA tree; crashes
during the startup backfill.

## 2. Modules

| module | models | runs |
|---|---|---|
| `AuditLog` | appending, transactions, crash, backfill, verification | `audit`, `audit_fork` |
| `AuditTamper` (extends `AuditLog`) | an edit, deletion or reordering behind VCM's back | `audit_tamper` |
| `AuditLog_proofs` | theorems about `AuditLog` and `AuditTamper` | |
| `Pki` | CAs and certificates, handlers being atomic | `pki` |
| `Pki_proofs` | theorems about `Pki` | |
| `PkiRequests` | the same handlers cut where others run | `requests` |
| `PkiRequests_proofs` | theorems about `PkiRequests` | |
| `Accounts` | users, roles, second factors, overlapping requests | `accounts` |
| `Accounts_proofs` | theorems about `Accounts` | |
| `Pairing` | sites, connections and pairs, a request that is overtaken | `pairing` |
| `Pairing_proofs` | theorems about `Pairing` | |
| `Vault` | what backing up and restoring promise, each being one step | (`backup`) |
| `Backup` (instantiates `Vault`) | the steps of backing up and restoring, others in between | `backup` |
| `Backup_proofs` | theorems about `Backup`, among them that it implements `Vault` | |
| `SignIn` | the way from the password to the first page, from several browsers | `sign_in` |
| `Access` | accounts, sessions, API tokens and the allowlist, with restores and restarts | `access`, `access_calls` |
| `Access_proofs` | theorems about `Access` | |
| `Tunnels` | what the two ends of a connection say, over forms, imports, pairing and merging | `tunnels` |
| `Tunnels_proofs` | theorems about `Tunnels` | |

### AuditLog
`rows` is what is committed, `own[w]` what request `w` has inserted, `staged[w]`
the row that `audit()` has added to the session and not inserted yet. `AuditFlush`
and `AuditStage` are the two halves of `audit()`: its `db.flush()`, and the read of
the head with the `db.add`. `CommitFlush` and `Commit` are those of `get_db`.
`SingleWriter` is SQLite; without it ids come from a sequence and `writer` plays no
part. `Crash` ends all requests and begins the startup, whose backfill works in a
session of its own (`work`) and may fail (`BackfillFails`), which `init_db` survives. SHA-256 is the pair it is applied to. A row remembers
in `origin` whether its request held the write lock when it read the head; nothing
in the model reads it but one property.

### Pki
One action per POST handler, its guards being the handler's checks. A certificate is
a record of the fields that the code compares, a signature the key that made it.
`world` has every certificate there is, also those that were issued and deleted, so
that imports and uploads can bring them back; `SignOffline` is the holder of an
offline CA's key, who may answer a CSR with another name or with no mention of being
a CA. `ParentSearchWorks` is the search in `import_ca`, which fails at a pending CA
that comes before the issuer. Ids are used again as SQLite does.

### PkiRequests
Each request goes from `new` to `closed` or `failed`: begin and load a row; for async
handlers perhaps let the loop go while an upload is read; check; flush, which takes
the write lock, fails on a row that is gone, or gives up after the busy timeout;
return; commit in a thread once the loop is free. `unit[r]` says whether the session
holds changes. A handler that fails (`Fails`) has either caught its error and *returns* a
page, after which `get_db` commits whatever the session holds (`Committed`), or lets the
exception through to `get_db`, which rolls back. All error pages begin with `db.rollback()`
but that of `delete_ca` (`RollsBack`); it comes before anything is changed, and
`ErrorsLeaveNothing` depends on that and on the rollbacks of the others. UPDATE writes values computed from
the row as it was loaded (`Updated`). `CompletionFits` and `SerialsApart` name the one step
that may break them: a commit by a request whose loaded row is not the committed one.

### Accounts
`Admit` loads the user who asks, `Stage` checks and changes the session, `Commit`
writes the columns that differ from what was loaded. `overtaken[r]` records that
another request has committed since `r` was admitted.

### Pairing
What a handler means to write is a *plan*: the columns to set, rows to insert and
delete. `Handle` serves a request at once; `Read` and `Write` (or `Fail`) serve one
that others overtake. `UniqueName` is `_unique_conn_name`, with names abstracted to
the suffixes put to one base. An import brings a sequence of names. `ImportSite` flushes
after each connection; `ImportUpdate` looks each name up before any of them is written
(`autoflush=False`, one flush after the loop), so two new connections of one name get the
same free name, and the flush fails on `uq_conn_site_name`.

### Vault and Backup
`Vault` is the abstract specification: a backup or a restore is one step, saves what
it says it saves, and overwrites nothing. It has one step nobody would ask for,
`HalfRestore`, because the code takes it: an uploaded file that does not fit the
schema fails on an INSERT after the tables were emptied, `backups_upload_restore`
catches the error and renders a page, and `get_db` commits.
`Backup` has the steps of the code. `Dump` reads one table (no transaction is open
before the first write, so each SELECT sees a moment of its own), `Number` asks for
the largest version, `Insert` is the flush that takes SQLite's write lock or fails on
the unique version, `Replace` is `restore_state` under that lock, `Commit` and `Fail`
are those of `get_db`. Other handlers are one action, `Change`, which writes any
tables. The contents of a table are the number of the change that wrote it. The
variables `data`, `backups` and `saved` have the same names in both, so the
refinement mapping, spelt out where `Backup` instantiates `Vault` (`V == INSTANCE Vault
WITH ...`), is the identity on them; the steps that are not commits, and the commits
of requests that write nothing, map to stuttering. `raced` is a history variable: nothing but
`WipedIsKept` reads it.

### SignIn
`at[b]` is the page a browser is at; every handler of `routers/auth.py` that leads to
another page is an action, `Gate` is `current_user`. The account's row is reduced to
what the redirects depend on (disabled, password to be changed, TOTP secret and
whether it is confirmed, passkey). Challenges are a stack per kind, with the owners
of those that can still be answered. Expiry, and what admins and the person may do to
account and sessions, are bounded by `MaxDeeds`.

### Access
The tables that decide who may do what: `users`, `sessions`, `tokens`, `allow` (the
allowlist), and of the audit log what it says of tokens. A request is a record of what
it read (`Login`, `Mint`, `Revoke`, `Call`); `Serve` reads and writes at once, `Begin`
and `Finish` (or `Fail`) let others in between. `Write` is what it commits: a call that
a scope check refuses raises, and `get_db` rolls back its audit row and its
`last_used_at` along with everything else, which `access_calls` holds against the
documentation. What admins do is one step per
handler; `Accounts` has the overlaps of those. `Restore` replaces all tables but the
sessions, which it empties, and marks a request it overtakes as `late`. `Stop`,
`BootstrapAdmin` and `SeedAllowlist` are the end of the process and the two parts of its
start, each in a transaction of its own, with the process ending in between. `past` has
the history that the properties need: deleted ids, and whether VCM has ever served. The
account is created and the list seeded whenever they are not there, on the first run and
on later ones; the documentation speaks of the first one, and `FirstRunComplete` is about
that one: it may be cut off anywhere and begun again.

### Tunnels
A connection is a row with its site, its name, its pointer and its `profile`, the record
that `ConnectionProfile` serialises, reduced to what the two ends must agree on
(addresses, identities, networks, authentication, proposal, tunnel address, BGP).
`Mirror`, `SuggestedId`, `WithInferredBgp` and `FromForm` are the pure functions of
`srx/`, and one action per handler uses them as the handler does. `Outcome` is what a
handler that asks for approval would write; `Preview` shows it and keeps it in `review`,
`Approve` computes it anew from the rows as they are by then, as `confirm=1` does. `Shown`
is `_preview_config` of both ends with the profiles that the handler has in hand
(`Meant`); for `apply-bgp` that includes an end for which nothing was inferred and which
`Approve` does not save.
`objects` is the name that the objects of the generated configuration carry.
`built_with`, `known` and `moved` are history, for the properties: the far end that
`build_far_end` made to match, whether both identities were there, whether a merge has
given the row another name than its profile has. `Pairing` has the complementary view:
which rows there are and who points at whom, with requests that overtake one another.

## 3. Runs

| run | shows | bounds |
|---|---|---|
| `audit` | the log only grows, hashes recompute, links go back; only rows of requests that held no lock, and those around a failed backfill, can be blamed | 2 requests, 2 contents, 4 ids, 1 row from before the chain |
| `audit_tamper` | verify() goes on naming the row that was tampered with | the same |
| `audit_fork` | **violated**: an untouched log verifies | 2 requests, 3 ids |
| `pki` | the CAs form a forest, keys fit, usable CAs are fixed; certificates are there once, chain to their CA, serials fit, locks hold | 3 CAs, 3 certificates in existence, 2 generated keys, or 1 and a certificate row; or 2 CAs and 2 certificate rows of which 3 together, 4 in existence, 1 generated key, replies that are CA certificates (`Few`) |
| `requests` | every request is answered, errors leave nothing whoever commits afterwards, only CAs that are there sign, a completed CA's key fits and serials differ but for requests that overlap | 3 requests of any of 8 kinds |
| `accounts` | admins and factors are lost only to requests that overlap | 2 accounts, 2 requests, 1 passkey beside TOTP |
| `pairing` | pointers lead somewhere, pairs part cleanly, what a page offers fits, but for a merge and an update with one new name twice | 3 connections, 2 sites, suffixes 2 and none, imports of 1 or 2 connections, 1 overtaken request |
| `backup` | `Backup` implements `Vault`; stored backups are restored wholly; what is wiped is in the safety snapshot, but for tables others wrote after they were dumped | 2 requests, 2 tables, 1 other commit, 2 versions, 2 different contents saved, 1 foreign file |
| `sign_in` | the redirects lead inside | 2 browsers, 1 account, 2 expiries, resets or the like |
| `access` | log and tokens tell the same story, sessions and tokens are their owners' and within their roles, a first run ends complete, revocation sticks | 3 names, 2 addresses, 5 deeds, 1 overtaken request |
| `access_calls` | **violated**: every call with a good token is in the log | the same |
| `tunnels` | built pairs go on matching, objects are distinct, suggestions are mutual, what is approved was shown (but for an end with nothing inferred), BGP neighbours mirror each other | 3 connections, 2 devices, 2 names, 2 forms, 2 imports, 2 rows at first, 3 changes, 1 review |

Why the bounds are enough. Forks, stale rows and lost updates need two requests;
the three of `requests` make one wait for a second while a third one commits. A
tampered log needs a row before and after the place, and one written later. Three
CAs are a chain with a middle, or two siblings; ids are used again with two. Three
connections are a pair and a third one that points into it, and two sites are those
a merge needs. `Few` in `MCPki` keeps two shapes of one state space: a tree of three
CAs, with a certificate row if one key was generated; and two certificate rows under CAs
of which one may be deleted and its id used again. `FewLost` in `MCPairing`
cuts off states in which overlapping requests have left more than one dangling
connection or a name has grown beyond `x-2`. A snapshot is torn between two tables by
one commit, and a version number is taken twice by two requests. Two browsers are
what it takes to overtake a challenge; two deeds are a reset and an expiry in one
login, or a disabling and its end. Five deeds are a backup, a deletion, an account with
the same id, a restore and a request that it overtakes. A built pair, a third connection
that takes one of its ends away, and a change after that are three changes; the two forms
mirror each other in addresses and networks, one of them leaving blank what may be left
blank, and the imports say little, so that what one end does not say is taken from the
other. One of them has no BGP, so that nothing is inferred for it; it is imported over an
end of the only pair there is. `EarlyReviews` in `MCTunnels` lets a review begin before
the second change, and others make theirs while it waits; one of a peering with such an
end may begin later.

Deadlock is checked in every run; `Accounts`, `PkiRequests`, `Access` and `Tunnels` have a
step for the states in which nothing is left to be done.

`LastAdminStays`, `LastFactorStays`, `ConfirmedHasSecret`, `NothingDangles`,
`PairsPartCleanly`, `CompletionFits` and `SerialsApart` hold for requests that nobody
overtakes: each names exactly the step that may break the rule, and the runs show that no
*sequence* of requests does. `RequestsFit` excepts two plans by name, a merge and an
import update that brings one new name twice; both fail with nobody else around.
`ApprovedAsShown` excepts, of the approval of a peering, the end for which nothing is
inferred, and asks that it stays as it was; without this clause the run fails. In the same way the properties of `Access` name what they
except: a request that a restore has overtaken (`late`), an id that was deleted, a role
that was taken away after the token was minted (`outgrown`).

**Fairness.** Two modules assume any. `PkiRequests`: weak fairness of each request's next
step. Threads are scheduled, the loop takes up what is ready, and SQLite's busy
timeout runs out. It is needed for `Answered` only; nothing is assumed of the order
in which requests get the loop or the lock. `SignIn`: weak fairness of `Proceed(b)`,
which is the person who goes on from the page on the screen with the right password
or device; that is what "ends up signed in" means. `Browse`, `Logout` and the deeds
have none. `SignInEnds` excepts two browsers of one account that overtake each
other's newest challenge for ever; this takes people who press their buttons in
turns, and no property of VCM's scheduling rules it out.

### Where code and documentation disagree
`audit_fork`: two failed logins that overlap fork the chain, and the audit page reports a
deleted entry (`deps.py:29`, `docs/authentication.md:118`).

`access_calls`: an API call whose token is accepted and whose scope does not suffice, or
whose handler raises, is answered with an error and rolled back by `get_db`, its audit
entry with it (`apitokens.py:133-149`, `db.py:39-41`). `docs/api.md:520-525` has every
authenticated call logged before the handler runs, "so the audit log is a complete record
of API activity".

Seen on the way and modelled as the code has them, without a run of their own:

* a CSR made anew while the CA is completed overwrites the key of the completed CA
  (`pki/ca.py:260`, `docs/pki.md:107`);
* two demotions at once leave no admin (`routers/admin.py:106`,
  `docs/authentication.md:84`);
* the scope of a token is capped by the role at minting only, so it outlives a demotion;
* sessions and tokens of a deleted user stay on SQLite, and ids are used again;
* the bootstrap admin is created again at every start, and the allowlist is seeded
  whenever it is empty, where comments and documentation speak of the first run
  (`main.py:77`, `main.py:93`, `docs/configuration.md:110`);
* the page of `apply-bgp` shows both ends made anew, and an end for which nothing was
  inferred is not saved: a change is shown, approved, and not made
  (`routers/sites.py:928-942`);
* an import update with two new connections of one name fails as a whole, where a new
  import gives the second one a suffix (`routers/sites.py:282`, `docs/vendors.md:159`,
  `:198`);
* whoever deletes the entry of the address they come from is locked out;
* with BGP off, `mirror()` copies the AS numbers as they are; with a pointer at one end
  only, `apply-bgp` rewrites the far end of another connection (`routers/sites.py:920`);
* a blank identity is filled in at each end by itself, and the two differ where
  `srx/suggest.py:1` says both agree;
* building for an existing far end clears its tunnel address and keeps its own identity,
  which need not be the one this end expects;
* a merge renames rows and not their profiles, so object names of one device may clash;
* deleting the certificate that supersedes another leaves a dangling `replaced_by_id`
  (`routers/pki.py:391`, `docs/pki.md:158`), later some other certificate's id;
* pairing with an existing far end forgets its old partner, which goes on pointing at
  it (`routers/sites.py:767`, `docs/vendors.md:149`);
* an upload that does not fit empties tables for good (`routers/admin.py:255`);
* a snapshot may be of more than one moment (`backup.py:47`);
* `current_user` redirects by an exception, so the deletion of an expired session is
  rolled back (`security/sessions.py:34`, `docs/authentication.md:110`);
* `import_ca` takes a certificate with no BasicConstraints; it fails while a pending
  CA precedes the issuer;
* `set_role` refuses to demote a disabled admin while one active admin is left;
* a merge fails when the target has `x` and the source `x` and `x-2`; its names, too, are
  looked up before any is written;
* overlapping signatures can carry the same serial.

## 4. Proofs

`AuditLog_proofs` holds, for every set of requests and contents, both databases and
any crashes and backfills:

* `AuditTypes`, `AuditHashesRecompute`, `AuditPrevIsEarlier`, `AuditAppendOnly`,
  `AuditOnlyBareRowsBreak`: the types, and the invariants and the action property of run
  `audit`.
* The argument. `BaseInv` adds to the types that the writer is who has inserted
  rows. `LinkInv` says that committed, inserted and staged rows hash to their hash
  and point at something their own transaction can see; a rollback takes back the
  pointers along with the rows pointed at, which is why it is inductive while
  `PrevIsEarlier` is not. `OrderInv` says that on SQLite inserted rows come after
  all committed ones and that the backfill works on the committed rows, `UniqueInv`
  that ids seen together differ. `ChainInv` says that a guarded or backfilled row
  links to the row before it wherever it is (committed, inserted, or in the
  backfill's session), unless that one was without a hash when it was written, and
  that a guarded staged row is still chained to the newest row when it is inserted.
* `AuditTamperPinpointed`: run `audit_tamper`'s invariant, under the hypothesis
  `SingleWriter`. On PostgreSQL it is false, and not for want of a proof: a row whose id
  was drawn before the tampering may be committed after it, in front of the place, and
  be one that forked the chain.
* The argument. In a log that verifies, no two rows are chained to the same hash
  (`PrevsDiffer`): two that were would follow rows with equal hashes, which are chained
  to the same hash themselves, and so on down to a first one. Hence a row that follows
  another one than before no longer fits, whatever was deleted or exchanged. `TamperInv`
  adds to `BaseInv`, `OrderInv` and `UniqueInv` that no row that verified is without a
  hash, so that a backfill has nothing to fill in, and that the first broken row is the
  one touched; later rows come behind it.
* Assumption: `AuditAssumption`, none of it about sizes.

`Pki_proofs` holds, for every number of CAs, certificates, keys and names:

* `PkiTypes`, `PkiKeysFitCerts`, `PkiLineage`, `PkiOneRowPerCert`, `PkiLeavesChain`,
  `PkiLockedStays`, `PkiUsableCaFixed`, `PkiSerialsFit`: all properties of run `pki`.
* The argument. Their conjunction `Inv` is inductive: that a certificate's CA keeps
  its certificate (`UsableCaFixed`) needs that pending CAs have no children or
  certificates (`Lineage`), that the deletion of a subtree leaves no pointer into it
  needs that subtrees are closed, that ids used again do no harm needs that nothing
  points above the largest one. Each handler has a lemma with its *facts* (types and
  keys) and one with its *effect*, a description of how rows may change that is the
  same for all handlers; the invariant follows from the effect alone. `SerialsFit` needs one
  more conjunct to be inductive, `PendingBelowKeyless`: a pending CA waits below one whose
  key is elsewhere, so what completes it is not among the serials that anybody gives here.
* Assumption: `PkiAssumption`.

`PkiRequests_proofs` holds, for any number of requests of all eight kinds:

* `RequestsInv`, `RequestsErrorsLeaveNothing`, `RequestsSignedByPresentCa`,
  `RequestsCompletionFits`, `RequestsSerialsApart`: all safety properties of run `requests`.
* The argument. `LockInv`: from its flush to its commit a request holds the write lock, so
  the tables stay as they are and its transaction is what it would write *now*; a commit
  may be read as one atomic change of the committed tables by a request whose loaded rows
  are old. `AcceptedInv` keeps what its checks found in those rows, `AnswerInv` that
  whoever has been answered with an error holds neither the lock nor a change in its
  session, though its commit may be still to come (this is where the rollbacks of the
  error pages are needed, and that `delete_ca` refuses before it changes anything), `TraceInv` that each request leaves one
  row at most and none before it commits. Steps that are neither flush nor commit are
  `Quiet`, and handled together. `CompletionFits` and `SerialsApart` then compare the row as
  loaded with the row as committed, the rest being that they are equal.
* Assumption: `RequestsAssumption`; requests are no keys and not one of the CAs there are
  at first, since rows tell by a request's name who made their key.

`Accounts_proofs` holds, for any number of requests, passkeys and users:

* `AccountsInv`, `AccountsLastAdminStays`, `AccountsLastFactorStays`,
  `AccountsConfirmedHasSecret`: all properties of run `accounts`.
* The argument. `SameNow(r)`: what a request has loaded, checked and staged it would load,
  check and stage now. It holds until somebody else commits (`Fresh`), which is what
  `overtaken` records; so whoever is not overtaken commits what its checks allow in the
  state it changes, and each operation is looked at as if it ran alone. For `toggle` the
  check it relies on is that of `require_admin`: whoever asks is an active admin other than
  the one who is toggled. Counting (`Cardinality` of the active admins, of the passkeys) is
  by the library's theorems about finite sets.
* Assumption: `AccountsAssumption`.

`Tunnels_proofs` holds, for any connections, sites, names, forms, imports and networks:

* `TunnelsInv`, `TunnelsBuiltPairsFit`, `TunnelsObjectsDistinct`, `TunnelsSuggestedBothWays`,
  `TunnelsApprovedAsShown`, `TunnelsPeeringMirrors`: all properties of run `tunnels`.
* The argument. The invariant is stated of a table `t`, since a handler makes one table of
  another and an approval makes the table that was shown. `Shape` and `Peers` say that rows
  are whole and point at another row that is there; `Named` adds to `ObjectsDistinct` what a
  profile's name is and that names on a site differ. `Built` is stronger than
  `BuiltPairsFit` twice: the two rows of a tunnel fit *whether or not they are paired* (they
  may be unpaired and paired again), and their identities are not blank if they were known,
  so that nothing is suggested in their place later. `ReviewInv`: what is under review is
  what its page would show now, a profile for each of its ends, unless somebody has touched
  it; that an approval makes just this of an end that it saves, and nothing of an end for
  which no peering is inferred, is the proof of `ApprovedAsShown`.
* What did not hold for arbitrary forms, though it did in the instance: `PeeringMirrors`,
  when an end has BGP off, still carries a peer's AS number and nothing that a neighbour
  could be inferred from. Its far end is then not told of that number. `Consistent` excepts
  it by name; it is one more consequence of AS numbers outliving the switch (section 3).
* Assumption: `TunnelsAssumption`: forms and imports have the fields of a profile, and the
  value that stands for no connection and no site is neither.

`Access_proofs` holds, for any names, addresses and initial entries, any number of
requests, restores and restarts:

* `AccessTypes`, `AccessLogTellsTokens`, `AccessIssuedToOwner`, `AccessScopeWithinRole`,
  `AccessFirstRunComplete`, `AccessRevocationSticks`: all properties of run `access`.
* The argument. `WriteFacts` says once what a request may do to the tables (`Written`:
  rows are marked, one row may be new, the log grows by what the request tells), and the
  invariants follow from that. `OwnInv` is `IssuedToOwner` and `ScopeWithinRole` for the
  tokens in the backup and for the request on its way as well, with ids that are not in
  use required to be deleted ones: that is why an id that is used again is nobody's in
  particular. `StartInv` says how far a first run has come before VCM has ever served: no
  account or the bootstrap admin's alone, and a list that is empty. `TellInv` is
  `LogTellsTokens` for the backup as well, and adds that a secret is only ever that of
  one id, in the tokens, in the backup and in what a request has read: a request that a
  restore has overtaken tells of a secret that is at the row it marks as late or nowhere.
* Assumption: `AccessAssumption`, of which the proofs need that the bootstrap name is a
  name.

`Backup_proofs` holds, for any tables, any number of requests and of commits by others:

* `BackupInv`, `BackupImplementsVault`, `BackupStoredRestoreWhole`, `BackupWipedIsKept`: all
  properties of run `backup`, the refinement included.
* The argument. `LockInv`: who has inserted its backup holds the write lock, so its number
  stays unused and the tables stay what it started from until it commits; what it is to
  restore was saved before or is foreign; when it has only to commit, its tables are what
  the request asked for (`Result`). `DumpInv`: a table that was dumped is as it was dumped
  or is in `raced`. Every commit is then one of `Vault`'s steps (`CommitImplements`), and
  every other step of a request changes nothing that `Vault` has.
* Assumption: `BackupAssumption` (files have a number for every table; nobody is no
  request).

`Pairing_proofs` holds, for any requests, finitely many names, any number of sites and
connections:

* `PairingInv`, `PairingRequestsFit`, `PairingNothingDangles`, `PairingPairsPartCleanly`:
  all properties of run `pairing`.
* The argument. `PlanInv`: what a request has read that nobody overtook is still what a
  page offers, since what is offered depends on the tables only. So a step applies a plan
  that was made for the tables it meets, or it is of a request that was overtaken, which
  the two action properties except. Of a plan made for the tables three things are shown,
  handler by handler. `Sound`: every row it writes is on a site and points at a connection
  that will be there, or where it did. `Clean`: the two ends of a pair both stay, or both
  are freed of each other, or one at least is in a new pair. `NamesApart`: the names that it writes differ
  from each other and from those in use. The third needs that `UniqueName` finds a name:
  there are more suffixes to try than names in use (`UniqueNameFacts`, a pigeonhole). A
  merge is `Sound` and `Clean` and may clash, and so does an update that brings one new
  name twice; `RequestsFit` excepts both. In any other update
  the new names differ and are free as they are.
  `KeysApart` is `uq_conn_site_name`: it holds of the tables because a plan that does not
  fit fails, and the proof of `NamesApart` needs it of the rows that are left alone.
* Assumption: `PairingAssumption`: the names of the forms are finitely many sequences of
  numbers, and the value that stands for no connection is no request.

That a nonempty set of numbers has a least element, and a bounded one a greatest, is
derived in each module that needs it from the well-foundedness of `<`.

Model-checked only, and why:

* `Answered` and `SignInEnds` (the only property of `SignIn`), being liveness, and `UntouchedLogVerifies` and
  `CallsRecorded`, being violated.

Every other invariant and action property that a passing run checks is a theorem, and so
is the refinement of `Vault`.

## 5. Not modelled

* Vendor syntax (`srx/importer.py`, `generators.py`, `diff.py`, `rename.py`), and which
  proposals a vendor supports and how it spells them (`proposals.py`): functions from text
  to text with no state. Their correctness is a comparison of texts, which the repository's
  tests do; `Tunnels` takes what an importer finds as an input and a proposal as a value.
* Rendering, mail, metrics and cryptography: thin layers over libraries.
* DDL in `db.py` (adding and relaxing columns): its effect is the database server's.
* Of accounts, contact data, passwords and sign counters; of sites, renaming and the
  model; of the allowlist, masks and proxy headers; of tokens, expiry and source addresses,
  which only take calls away.
* `Backup` leaves out the tables that no backup contains; `Access` has the sessions.
* On PostgreSQL only the audit log is modelled; the other modules have SQLite's single
  writer and its reuse of ids.
* Three hazards of `PROJECT.json` have no property of their own; the notes there say why.

## 6. Plan

Written so far, in the order of importance: audit log, PKI, concurrent PKI requests,
accounts, pairing, backup and restore, signing in, access, tunnels. Left, if it is to be
extended:

1. Refinement: `PkiRequests` restricted to one request at a time implements `Pki`'s
   steps.
