------------------------------- MODULE Access -------------------------------
(***************************************************************************)
(* What VCM lets in, and by which right: accounts, the sessions and API    *)
(* tokens issued to them, and the IP allowlist, on SQLite (app/main.py,    *)
(* routers/admin.py, profile.py, api.py, security/apitokens.py,            *)
(* sessions.py, ipfilter.py), while backups are restored and the process   *)
(* is started again and again.                                             *)
(*                                                                         *)
(* Signing in, minting, revoking and API calls may be overtaken by others  *)
(* between what they read and what they write; what admins do is one step  *)
(* (Accounts has the overlaps of those, SignIn the second factor, Backup   *)
(* the steps of a restore).  Foreign keys are not enforced, and ids of     *)
(* users are used again.  Expiry of a token, and the addresses it may be   *)
(* used from, only take calls away, as does leaving one unused.            *)
(***************************************************************************)
EXTENDS Integers, FiniteSets

CONSTANTS
    Names,      \* user names
    Bootstrap,  \* the name in VCM_BOOTSTRAP_ADMIN
    Places,     \* addresses
    Loopback,   \* the one that is let in if the list is empty
    Here,       \* addresses people and programs are at
    Initial,    \* VCM_INITIAL_ALLOW
    MaxDeeds    \* bound on what is done (for model checking)

ASSUME AccessAssumption ==
    /\ Bootstrap \in Names
    /\ Loopback \in Places /\ Here \subseteq Places /\ Initial \subseteq Places
    /\ MaxDeeds \in Nat

VARIABLES
    users,      \* the users table: a function from ids to rows
    sessions,   \* the sessions table: of which id, and who had signed in
    tokens,     \* the api_tokens table: a function from ids to rows
    allow,      \* allow[p]: the number of entries for p in ip_allowlist
    log,        \* what audit_log says of tokens
    backup,     \* the backup that may be restored, or NoBackup
    phase,      \* "bootstrap" and "seed" while the process starts, then "up"
    ask,        \* the request that has read and has yet to write, or NoAsk
    generated,  \* the number of secrets generated: each one is another
    deeds,      \* the number of things done
    past        \* history, which nothing but the properties reads

tables == <<users, tokens, allow, log>>
vars == <<users, sessions, tokens, allow, log, backup, phase, ask, generated, deeds, past>>

Rank == [read |-> 0, write |-> 1, admin |-> 2]
Scopes == DOMAIN Rank
NoBackup == [none |-> TRUE]
NoAsk == [do |-> "none"]
-----------------------------------------------------------------------------
Ids == DOMAIN users
Tokens == DOMAIN tokens

\* SQLite hands out the largest id in use plus one.
NextId(used) == IF used = {} THEN 1 ELSE 1 + CHOOSE i \in used : \A j \in used : j <= i

With(table, row) ==
    LET new == NextId(DOMAIN table) IN
    [i \in DOMAIN table \cup {new} |-> IF i = new THEN row ELSE table[i]]

NewUser(n, role) == [name |-> n, role |-> role, disabled |-> FALSE]
Known == {users[u].name : u \in Ids}
ActiveAdmins == {u \in Ids : users[u].role = "admin" /\ ~users[u].disabled}

\* ip_allowed, enforcement being on.
IpAllowed(p) ==
    IF \A q \in Places : allow[q] = 0 THEN p = Loopback ELSE allow[p] > 0

\* enforce_ip: what is asked from elsewhere is refused and leaves nothing.
LetIn == phase = "up" /\ \E p \in Here : IpAllowed(p)

\* current_user, but for second factors and new passwords.
SignedIn == {u \in Ids : ~users[u].disabled /\ \E x \in sessions : x.user = u}

\* Mistake: the role does not matter.
MayMintAny(role) == Scopes

\* allowed_scopes_for.
MayMint(role) == {s \in Scopes : Rank[s] <= Rank[IF role = "admin" THEN "admin" ELSE "write"]}

\* api_principal: the token is good, and its owner is there and active.
Accepted == {t \in Tokens : ~tokens[t].revoked /\ tokens[t].user \in {u \in Ids : ~users[u].disabled}}
-----------------------------------------------------------------------------
\* What is asked for by requests that others may overtake, with what they read;
\* late says whether a restore has overtaken them.
Login(u) == [do |-> "login", user |-> u, who |-> users[u].name, late |-> FALSE]
Mint(u, scope) ==
    [do |-> "mint", user |-> u, who |-> users[u].name, scope |-> scope,
     outgrown |-> FALSE, late |-> FALSE]
Revoke(t) == [do |-> "revoke", target |-> t, secret |-> tokens[t].secret, late |-> FALSE]

\* A call of an endpoint that needs a scope, and revokes a token if that is write.
Call(t, need, target) ==
    [do |-> "call", token |-> t, read |-> tokens[t], need |-> need,
     target |-> target, aim |-> tokens[target], late |-> FALSE]

Asked ==
    {Login(u) : u \in {v \in Ids : ~users[v].disabled}}
    \cup (UNION {{Mint(u, s) : s \in MayMint(users[u].role)} : u \in SignedIn})
    \cup {Revoke(t) : t \in {x \in Tokens : tokens[x].user \in SignedIn /\ ~tokens[x].revoked}}
    \cup (UNION {{Call(t, "read", t), Call(t, "admin", t)} \cup {Call(t, "write", x) : x \in Tokens}
                 : t \in Accepted})

\* require_scope, and revoke_own_token's check whose the token is.
Served(a) ==
    /\ Rank[a.read.scope] >= Rank[a.need]
    /\ a.need = "write" => a.aim.user = a.read.user

\* It is not revoked twice.
Revokes(a) == a.need = "write" /\ Served(a) /\ ~a.aim.revoked

\* UPDATE of a row that is gone fails.
StillThere(a) ==
    /\ a.do = "call" => a.token \in Tokens
    /\ a.do = "revoke" \/ (a.do = "call" /\ Revokes(a)) => a.target \in Tokens

\* Mistake: UPDATE writes the row as it was read.
UsedAsRead(a) == [a.read EXCEPT !.used = TRUE, !.late = a.late]

\* The caller's row: UPDATE writes last_used_at and nothing else.
Used(a) == [tokens[a.token] EXCEPT !.used = TRUE, !.late = @ \/ a.late]

Revoked(row, a) == [row EXCEPT !.revoked = TRUE, !.late = @ \/ a.late]

\* What a request writes when it comes to commit.
Write(a) ==
    \/ /\ a.do = "login"
       /\ sessions' = sessions \cup {[user |-> a.user, who |-> a.who, late |-> a.late]}
       /\ UNCHANGED <<tables, generated>>
    \/ /\ a.do = "mint"
       /\ generated' = generated + 1
       /\ tokens' = With(tokens,
              [user |-> a.user, secret |-> generated', scope |-> a.scope, revoked |-> FALSE,
               used |-> FALSE, who |-> a.who, outgrown |-> a.outgrown, late |-> a.late])
       /\ log' = log \cup {<<"create", generated'>>}
       /\ UNCHANGED <<users, sessions, allow>>
    \/ /\ a.do = "revoke"
       /\ tokens' = [tokens EXCEPT ![a.target] = Revoked(@, a)]
       /\ log' = log \cup {<<"revoke", a.secret>>}
       /\ UNCHANGED <<users, sessions, allow, generated>>
    \/ /\ a.do = "call" /\ Served(a)
       /\ LET called == [tokens EXCEPT ![a.token] = Used(a)] IN
          /\ tokens' = IF Revokes(a) THEN [called EXCEPT ![a.target] = Revoked(@, a)]
                       ELSE called
          /\ log' = log \cup {<<"call", a.read.secret>>}
                        \cup IF Revokes(a) THEN {<<"revoke", a.aim.secret>>} ELSE {}
       /\ UNCHANGED <<users, sessions, allow, generated>>

Done == deeds < MaxDeeds /\ deeds' = deeds + 1

\* A request that nobody overtakes.
Serve ==
    /\ LetIn /\ Done
    /\ \E a \in Asked : Write(a)
    /\ UNCHANGED <<backup, phase, ask, past>>

\* A request that others may overtake has read,
Begin ==
    /\ LetIn /\ Done /\ ask = NoAsk
    /\ ask' \in Asked
    /\ UNCHANGED <<tables, sessions, backup, phase, generated, past>>

\* it writes,
Finish ==
    /\ ask # NoAsk /\ StillThere(ask)
    /\ Write(ask)
    /\ ask' = NoAsk
    /\ UNCHANGED <<backup, phase, deeds, past>>

\* or it fails; so does a call that is refused, which ends in an exception, with
\* which get_db rolls back.
Fail ==
    /\ ask # NoAsk
    /\ StillThere(ask) => ask.do = "call" /\ ~Served(ask)
    /\ ask' = NoAsk
    /\ UNCHANGED <<tables, sessions, backup, phase, generated, deeds, past>>
-----------------------------------------------------------------------------
\* An active admin u, signed in, does something.
AdminDoes(u) == LetIn /\ Done /\ u \in SignedIn \cap ActiveAdmins

CreateUser ==
    /\ \E u \in Ids : AdminDoes(u)
    /\ \E n \in Names \ Known, role \in {"operator", "admin"} :
          users' = With(users, NewUser(n, role))
    /\ UNCHANGED <<sessions, tokens, allow, log, backup, phase, ask, generated, past>>

ToggleUser ==
    /\ \E u \in Ids : \E v \in Ids \ {u} :
          AdminDoes(u) /\ users' = [users EXCEPT ![v].disabled = ~@]
    /\ UNCHANGED <<sessions, tokens, allow, log, backup, phase, ask, generated, past>>

\* set_role; it leaves the tokens as they are.
SetRole ==
    \E u, v \in Ids, role \in {"operator", "admin"} :
        /\ AdminDoes(u)
        /\ users[v].role = "admin" /\ role # "admin" => Cardinality(ActiveAdmins) > 1
        /\ users' = [users EXCEPT ![v].role = role]
        /\ tokens' = [t \in Tokens |->
              IF tokens[t].user = v THEN [tokens[t] EXCEPT !.outgrown = @ \/ role # "admin"]
              ELSE tokens[t]]
        /\ ask' = IF ask.do = "mint" /\ ask.user = v
                  THEN [ask EXCEPT !.outgrown = @ \/ role # "admin"] ELSE ask
        /\ UNCHANGED <<sessions, allow, log, backup, phase, generated, past>>

\* delete_user: sessions and tokens stay, nothing enforces ON DELETE.
DeleteUser ==
    /\ \E u \in Ids : \E v \in Ids \ {u} :
          /\ AdminDoes(u)
          /\ users[v].role = "admin" => Cardinality(ActiveAdmins) > 1
          /\ users' = [i \in Ids \ {v} |-> users[i]]
          /\ past' = [past EXCEPT !.deleted = @ \cup {v}]
    /\ UNCHANGED <<sessions, tokens, allow, log, backup, phase, ask, generated>>

\* add_ip and del_ip, of one entry.
ChangeAllowlist ==
    /\ \E u \in Ids : AdminDoes(u)
    /\ \E p \in Places :
          \/ allow[p] < 2 /\ allow' = [allow EXCEPT ![p] = @ + 1]
          \/ allow[p] > 0 /\ allow' = [allow EXCEPT ![p] = @ - 1]
    /\ UNCHANGED <<users, sessions, tokens, log, backup, phase, ask, generated, past>>

\* logout, revoke_others, or time.
EndSession ==
    /\ phase = "up" /\ Done
    /\ \E x \in sessions : sessions' = sessions \ {x}
    /\ UNCHANGED <<tables, backup, phase, ask, generated, past>>

Dumped == [users |-> users, tokens |-> tokens, allow |-> allow, log |-> log]

TakeBackup ==
    /\ \E u \in Ids : AdminDoes(u)
    /\ backup' = Dumped
    /\ UNCHANGED <<tables, sessions, phase, ask, generated, past>>

\* Mistake: the audit log stays out of the backup.
RestoredLogKept == log

\* The audit log is in the backup, too.
RestoredLog == backup.log

\* Mistake: the sessions, which no backup contains, are kept.
RestoredSessionsKept == sessions
RestoredSessions == {}

\* restore_backup, as a whole; it saves what is there.
Restore ==
    /\ \E u \in Ids : AdminDoes(u)
    /\ backup # NoBackup
    /\ backup' \in {backup, Dumped}
    /\ users' = backup.users /\ tokens' = backup.tokens /\ allow' = backup.allow
    /\ log' = RestoredLog
    /\ sessions' = RestoredSessions
    /\ ask' = IF ask = NoAsk THEN ask ELSE [ask EXCEPT !.late = TRUE]
    /\ UNCHANGED <<phase, generated, past>>
-----------------------------------------------------------------------------
\* The process ends, also in the middle of its start.
Stop ==
    /\ Done
    /\ phase' = "bootstrap" /\ ask' = NoAsk
    /\ UNCHANGED <<tables, sessions, backup, generated, past>>

\* The account in VCM_BOOTSTRAP_ADMIN is not there.
BootstrapMissing == Bootstrap \notin Known

\* _bootstrap_admin, in a session of its own.
BootstrapAdmin ==
    /\ phase = "bootstrap"
    /\ users' = IF BootstrapMissing THEN With(users, NewUser(Bootstrap, "admin")) ELSE users
    /\ phase' = "seed"
    /\ UNCHANGED <<sessions, tokens, allow, log, backup, ask, generated, deeds, past>>

Entered(cidrs) == [p \in Places |-> IF p \in cidrs THEN 1 ELSE 0]
Seeded == Entered(Initial)
Unseeded == \A p \in Places : allow[p] = 0

\* Mistake: each entry is committed as it is added, and the process may end in
\* between.
SeedAllowlistEach ==
    /\ phase = "seed"
    /\ \/ /\ allow' = IF Unseeded THEN Seeded ELSE allow
          /\ phase' = "up"
          /\ past' = [past EXCEPT !.opened = TRUE]
       \/ /\ Unseeded /\ \E cidrs \in SUBSET Initial : allow' = Entered(cidrs)
          /\ phase' = "bootstrap"
          /\ UNCHANGED past
    /\ UNCHANGED <<users, sessions, tokens, log, backup, ask, generated, deeds>>

\* _seed_allowlist, in one transaction; the application serves from then on.
SeedAllowlist ==
    /\ phase = "seed"
    /\ allow' = IF Unseeded THEN Seeded ELSE allow
    /\ phase' = "up"
    /\ past' = [past EXCEPT !.opened = TRUE]
    /\ UNCHANGED <<users, sessions, tokens, log, backup, ask, generated, deeds>>

\* The bound is reached.
Rest == deeds = MaxDeeds /\ phase = "up" /\ ask = NoAsk /\ UNCHANGED vars
-----------------------------------------------------------------------------
\* An empty database; or somebody has been given an account and has signed in,
\* and a backup from before is there.
Init ==
    /\ \/ /\ users = <<>> /\ sessions = {} /\ phase = "bootstrap" /\ backup = NoBackup
          /\ allow = [p \in Places |-> 0]
          /\ past = [deleted |-> {}, opened |-> FALSE]
       \/ /\ phase = "up" /\ past = [deleted |-> {}, opened |-> TRUE]
          /\ allow = Seeded
          /\ backup = [users |-> <<NewUser(Bootstrap, "admin")>>, tokens |-> <<>>,
                        allow |-> Seeded, log |-> {}]
          /\ \E n \in Names \ {Bootstrap}, role \in {"operator", "admin"} :
                /\ users = <<NewUser(Bootstrap, "admin"), NewUser(n, role)>>
                /\ sessions = {[user |-> 1, who |-> Bootstrap, late |-> FALSE],
                               [user |-> 2, who |-> n, late |-> FALSE]}
    /\ tokens = <<>> /\ log = {} /\ ask = NoAsk
    /\ generated = 0 /\ deeds = 0

Next ==
    \/ Serve \/ Begin \/ Finish \/ Fail
    \/ CreateUser \/ ToggleUser \/ SetRole \/ DeleteUser
    \/ ChangeAllowlist \/ EndSession \/ TakeBackup \/ Restore
    \/ Stop \/ BootstrapAdmin \/ SeedAllowlist \/ Rest

Spec == Init /\ [][Next]_vars
-----------------------------------------------------------------------------
\* The audit log and the tokens tell the same story, whatever is refused,
\* overtaken or restored: a token was created, was used if and only if there is
\* a call of it, and is revoked if and only if that was recorded.  (A request
\* that a restore has overtaken may write to whatever row has the id by then.)
LogTellsTokens ==
    \A t \in Tokens :
        LET row == tokens[t] IN
        ~row.late =>
            /\ <<"create", row.secret>> \in log
            /\ row.used <=> <<"call", row.secret>> \in log
            /\ row.revoked <=> <<"revoke", row.secret>> \in log

\* What docs/api.md says of the log: every call whose token is accepted is in it
\* when the call has been answered, whatever the answer.  A call that is refused
\* for its scope, or fails, is rolled back together with its entry.
CallsRecorded ==
    [][(Finish \/ Fail) /\ ask.do = "call" => <<"call", ask.read.secret>> \in log']_vars

\* Sessions and tokens are those of the person they were issued to, through
\* deletions, restores and ids that are used again, unless the account with
\* that id was deleted (nothing deletes what was issued to it), or a restore
\* has overtaken the request that issued them.
IssuedToOwner ==
    \A x \in sessions \cup {tokens[t] : t \in Tokens} :
        x.user \in Ids \ past.deleted /\ ~x.late => users[x.user].name = x.who

\* A token allows more than its owner's role only if the owner has been given a
\* lesser role since the token was asked for.
ScopeWithinRole ==
    \A t \in Tokens :
        LET row == tokens[t] IN
        row.user \in Ids \ past.deleted /\ ~row.late /\ ~row.outgrown /\ row.scope = "admin" =>
            users[row.user].role = "admin"

\* The first run: however often it is cut off before it serves, when it does so
\* for the first time there is one account, the bootstrap admin's, and each
\* initial entry is in the allowlist, once.
FirstRunComplete ==
    [][~past.opened /\ past'.opened =>
          users' = <<NewUser(Bootstrap, "admin")>> /\ allow' = Seeded]_vars

\* What is revoked stays revoked, also by a call that had read the token before,
\* unless an older backup is restored.
RevocationSticks ==
    [][\A t \in Tokens :
          tokens[t].revoked => Restore \/ tokens'[t].revoked]_vars
=============================================================================
