------------------------------ MODULE Accounts ------------------------------
(***************************************************************************)
(* The user accounts of VCM: roles, disabled accounts and the second       *)
(* factors, as the handlers of app/routers/admin.py, profile.py and auth.py *)
(* change them.                                                            *)
(*                                                                         *)
(* A request is admitted on what is committed when its session loads the   *)
(* user, checks what its handler checks, and writes later: the reads take  *)
(* no lock, rows once loaded are not read again, and UPDATE sets only the  *)
(* columns that differ from what was loaded.  Flush and commit are one     *)
(* step, since the write lock lets nobody commit in between.               *)
(*                                                                         *)
(* Passwords, contact data, sessions and tokens are left out: any user may *)
(* be signed in.  The bootstrap admin is there and has yet to enrol.       *)
(***************************************************************************)
EXTENDS Integers, FiniteSets

CONSTANTS
    Requests,   \* requests that can be in flight at once
    Passkeys,   \* authenticators
    MaxUsers    \* bound on the ids of users (for model checking)

ASSUME AccountsAssumption == MaxUsers \in Nat \ {0}

VARIABLES
    users,      \* the users table: a function from ids to rows
    keys,       \* the webauthn_credentials table: pairs of a user's id and a passkey
    pc,         \* pc[r]: "idle", "admitted" or "staged"
    req,        \* req[r]: what r asks for and whom it is about
    mine,       \* mine[r]: what was loaded of the user who asks, until staged
    plan,       \* plan[r]: the changes in r's session
    overtaken   \* overtaken[r]: another request has committed since r was admitted

vars == <<users, keys, pc, req, mine, plan, overtaken>>

AdminOps == {"create", "promote", "demote", "toggle", "reset_mfa", "delete"}
ProfileOps == {"remove_key", "remove_totp"}
EnrolOps == {"show_secret", "confirm_totp", "add_key"}
-----------------------------------------------------------------------------
Ids == DOMAIN users
KeysOf(u) == {k \in Passkeys : <<u, k>> \in keys}

NewUser(role) ==
    [role |-> role, disabled |-> FALSE, secret |-> FALSE, confirmed |-> FALSE]

\* SQLite hands out the largest id in use plus one.
NextId == IF Ids = {} THEN 1 ELSE 1 + CHOOSE i \in Ids : \A j \in Ids : j <= i

HasMfa(u) == users[u].confirmed \/ KeysOf(u) # {}

WithUser(row) == [u \in Ids \cup {NextId} |-> IF u = NextId THEN row ELSE users[u]]

\* What _admin_count counts.
ActiveAdmins == {u \in Ids : users[u].role = "admin" /\ ~users[u].disabled}

NoRow == <<>>
NoRequest == [op |-> "none", target |-> 0]
NoPlan == [set |-> <<>>, gone |-> {}]
-----------------------------------------------------------------------------
\* current_user and require_admin; enrolling takes no more than a session.
Admitted(op, u) ==
    \/ op \in EnrolOps
    \/ /\ ~users[u].disabled /\ HasMfa(u)
       /\ op \in AdminOps => users[u].role = "admin"

\* Whom an operation may be about: others only, or oneself only.
MayBeAbout(op, u, t) ==
    /\ op \in {"toggle", "delete"} => t # u
    /\ op \in {"create"} \cup ProfileOps \cup EnrolOps => t = u

\* The columns of the target that an operation looks at.
Columns(op) ==
    CASE op \in {"promote", "demote", "delete"} -> {"role"}
      [] op = "toggle" -> {"disabled"}
      [] op = "remove_key" -> {"confirmed"}
      [] op = "show_secret" -> {"secret"}
      [] op \in {"reset_mfa", "remove_totp", "confirm_totp"} -> {"secret", "confirmed"}
      [] op \in {"create", "add_key"} -> {}

\* What has been loaded of the user who asks: the row, and the passkeys if
\* has_mfa had to look at them.
Loaded(op, u) ==
    [row |-> [c \in Columns(op) |-> users[u][c]],
     keys |-> IF op \in ProfileOps \cup {"reset_mfa"} /\ ~users[u].confirmed
              THEN {KeysOf(u)} ELSE {}]

Admit(r) ==
    /\ pc[r] = "idle"
    /\ \E op \in AdminOps \cup ProfileOps \cup EnrolOps, u \in Ids, t \in Ids :
          /\ Admitted(op, u) /\ MayBeAbout(op, u, t)
          /\ req' = [req EXCEPT ![r] = [op |-> op, target |-> IF op = "create" THEN 0 ELSE t]]
          /\ mine' = [mine EXCEPT ![r] = IF t = u THEN Loaded(op, u) ELSE NoRow]
    /\ pc' = [pc EXCEPT ![r] = "admitted"]
    /\ overtaken' = [overtaken EXCEPT ![r] = FALSE]
    /\ UNCHANGED <<users, keys, plan>>

\* The target as the handler has it: the row of the user who asks was loaded
\* when the request was admitted, others are looked up now.
Row(r) == IF mine[r] # NoRow THEN mine[r].row ELSE users[req[r].target]

SeenKeys(r) ==
    IF mine[r] # NoRow /\ mine[r].keys # {}
    THEN UNION mine[r].keys ELSE KeysOf(req[r].target)

\* Mistake: the count is compared as if it left out the account at hand.
LastAdminOffByOne(row) == row.role = "admin" /\ Cardinality(ActiveAdmins) <= 0

\* Asked of an admin row that is to be demoted or deleted.
LastAdmin(row) == row.role = "admin" /\ Cardinality(ActiveAdmins) <= 1

\* Mistake: the passkey that is to go is not counted.
OnlyFactorOffByOne(r) == ~Row(r).confirmed /\ Cardinality(SeenKeys(r)) <= 0

\* A passkey that its owner may not remove.
OnlyFactor(r) == ~Row(r).confirmed /\ Cardinality(SeenKeys(r)) <= 1

Allowed(r) ==
    LET op == req[r].op IN
    /\ op \in {"demote", "delete"} => ~LastAdmin(Row(r))
    /\ op = "remove_key" => SeenKeys(r) # {} /\ ~OnlyFactor(r)
    /\ op = "remove_totp" => SeenKeys(r) # {}
    /\ op = "confirm_totp" => Row(r).secret

\* Mistake: a reset takes the secret and leaves the confirmation.
ResetColumnsSecret == [secret |-> FALSE]

ResetColumns == [secret |-> FALSE, confirmed |-> FALSE]

\* The columns a handler assigns.
Assigned(r) ==
    CASE req[r].op = "promote" -> [role |-> "admin"]
      [] req[r].op = "demote" -> [role |-> "operator"]
      [] req[r].op = "toggle" -> [disabled |-> ~Row(r).disabled]
      [] req[r].op \in {"reset_mfa", "remove_totp"} -> ResetColumns
      [] req[r].op = "show_secret" -> [secret |-> TRUE]
      [] req[r].op = "confirm_totp" -> [confirmed |-> TRUE]
      [] OTHER -> <<>>

\* Those of them that UPDATE will set: they differ from what was loaded.
Changed(r) ==
    LET a == Assigned(r)
        columns == {c \in DOMAIN a : a[c] # Row(r)[c]} IN
    [c \in columns |-> a[c]]

\* The passkeys that DELETE will name.
Removed(r, chosen) ==
    CASE req[r].op \in {"reset_mfa", "delete"} -> SeenKeys(r)
      [] req[r].op = "remove_key" -> {chosen} \cap SeenKeys(r)
      [] OTHER -> {}

\* The handler makes its checks and changes its session.
Stage(r) ==
    /\ pc[r] = "admitted"
    /\ mine[r] # NoRow \/ req[r].target \in Ids
    /\ Allowed(r)
    /\ \E chosen \in Passkeys :
          plan' = [plan EXCEPT ![r] = [set |-> Changed(r), gone |-> Removed(r, chosen)]]
    /\ pc' = [pc EXCEPT ![r] = "staged"]
    /\ mine' = [mine EXCEPT ![r] = NoRow]
    /\ UNCHANGED <<users, keys, req, overtaken>>

Forget(r) ==
    /\ pc' = [pc EXCEPT ![r] = "idle"]
    /\ req' = [req EXCEPT ![r] = NoRequest]
    /\ mine' = [mine EXCEPT ![r] = NoRow]
    /\ plan' = [plan EXCEPT ![r] = NoPlan]

\* A refusal, a row that is gone, or a write lock that stays taken.
Fail(r) ==
    /\ pc[r] # "idle"
    /\ Forget(r)
    /\ overtaken' = [overtaken EXCEPT ![r] = FALSE]
    /\ UNCHANGED <<users, keys>>

Set(row, columns) ==
    [c \in DOMAIN row |-> IF c \in DOMAIN columns THEN columns[c] ELSE row[c]]

\* UPDATE fails when its row is gone; INSERT and DELETE do not care.
Commit(r) ==
    LET t == req[r].target IN
    /\ pc[r] = "staged"
    /\ plan[r].set # <<>> => t \in Ids
    /\ IF req[r].op = "create"
       THEN /\ NextId <= MaxUsers
            /\ \E role \in {"admin", "operator"} : users' = WithUser(NewUser(role))
       ELSE IF req[r].op = "delete"
       THEN users' = [u \in Ids \ {t} |-> users[u]]
       ELSE users' = [u \in Ids |-> IF u = t THEN Set(users[u], plan[r].set) ELSE users[u]]
    /\ IF req[r].op = "add_key"
       THEN \E k \in Passkeys : (\A u \in 1 .. MaxUsers : <<u, k>> \notin keys)
                                /\ keys' = keys \cup {<<t, k>>}
       ELSE keys' = keys \ ({t} \X plan[r].gone)
    /\ Forget(r)
    /\ overtaken' = [q \in Requests |-> q # r /\ pc[q] # "idle"]
-----------------------------------------------------------------------------
Init ==
    /\ users = [u \in {1} |-> NewUser("admin")]
    /\ keys = {}
    /\ pc = [r \in Requests |-> "idle"]
    /\ req = [r \in Requests |-> NoRequest]
    /\ mine = [r \in Requests |-> NoRow]
    /\ plan = [r \in Requests |-> NoPlan]
    /\ overtaken = [r \in Requests |-> FALSE]

\* With every account gone nobody can sign in any more.
Stopped == Ids = {} /\ (\A r \in Requests : pc[r] = "idle") /\ UNCHANGED vars

Next ==
    \/ \E r \in Requests : Admit(r) \/ Stage(r) \/ Fail(r) \/ Commit(r)
    \/ Stopped

Spec == Init /\ [][Next]_vars
-----------------------------------------------------------------------------
\* The request that commits in this step.
Commits(r) == pc[r] = "staged" /\ overtaken'[r] = FALSE /\ pc'[r] = "idle"

\* The account list never loses its last active admin through demotions,
\* deletions and toggles in any order, but for a request that was overtaken by
\* another one between its check and its commit: the count is not read again.
LastAdminStays ==
    [][ActiveAdmins # {} /\ ActiveAdmins' = {} =>
          \E r \in Requests : Commits(r) /\ overtaken[r]]_vars

\* A user who has a second factor keeps one, whatever is enrolled and removed,
\* unless an admin resets it or requests of the same user overtake each other.
LastFactorStays ==
    [][\A u \in Ids \cap Ids' : HasMfa(u) /\ ~HasMfa(u)' =>
          \E r \in Requests : Commits(r) /\ (overtaken[r] \/ req[r].op = "reset_mfa")]_vars

\* TOTP is confirmed only with a secret to check codes against, unless a reset
\* overtakes the confirmation.
ConfirmedHasSecret ==
    [][\A u \in Ids' : users'[u].confirmed /\ ~users'[u].secret =>
          \/ u \in Ids /\ users[u].confirmed /\ ~users[u].secret
          \/ \E r \in Requests : Commits(r) /\ overtaken[r]]_vars
=============================================================================
