-------------------------- MODULE Accounts_proofs --------------------------
(***************************************************************************)
(* Proofs about the user accounts, for any number of requests in flight,   *)
(* of passkeys and of users.                                               *)
(*                                                                         *)
(* The argument: a request that nobody overtook sees the tables it was     *)
(* admitted on, so what it has loaded, checked and staged is what it would *)
(* load, check and stage now; and only a commit changes the tables.        *)
(***************************************************************************)
EXTENDS Accounts, FiniteSetTheorems, WellFoundedInduction, TLAPS

-----------------------------------------------------------------------------
(* The inductive invariant.                                                *)

Ops == AdminOps \cup ProfileOps \cup EnrolOps
Roles == {"admin", "operator"}

UserRows == [role : Roles, disabled : BOOLEAN, secret : BOOLEAN, confirmed : BOOLEAN]

\* What a request asks for: about a user, or about none.
Asked ==
    [op : Ops \ {"create"}, target : 1 .. MaxUsers] \cup [op : {"none", "create"}, target : {0}]

\* Columns of a user with values of their types.
ColumnsFit(columns) ==
    /\ "role" \in DOMAIN columns => columns["role"] \in Roles
    /\ \A c \in DOMAIN columns \ {"role"} : columns[c] \in BOOLEAN

TypeOK ==
    /\ Ids \subseteq 1 .. MaxUsers /\ users \in [Ids -> UserRows]
    /\ keys \subseteq (1 .. MaxUsers) \X Passkeys
    /\ pc \in [Requests -> {"idle", "admitted", "staged"}]
    /\ req \in [Requests -> Asked]
    /\ mine = [r \in Requests |-> mine[r]]
    /\ plan = [r \in Requests |-> plan[r]]
    /\ \A r \in Requests : ColumnsFit(plan[r].set)
    /\ overtaken \in [Requests -> BOOLEAN]

\* What r has loaded, checked and staged it would load, check and stage now; and
\* while it toggles an account, its own user is an active admin too.
SameNow(r) ==
    /\ pc[r] = "admitted" /\ mine[r] # NoRow =>
          mine[r] = Loaded(req[r].op, req[r].target)
    /\ req[r].op = "toggle" => ActiveAdmins \ {req[r].target} # {}
    /\ pc[r] = "staged" =>
          /\ mine[r] = NoRow /\ Allowed(r) /\ plan[r].set = Changed(r)
          /\ \E chosen \in Passkeys : plan[r].gone = Removed(r, chosen)

\* So it is of a request in flight that nobody has overtaken.
Fresh(r) ==
    pc[r] # "idle" =>
        /\ req[r].op \in Ops
        /\ ~overtaken[r] /\ req[r].op # "create" => SameNow(r)

Inv == TypeOK /\ \A r \in Requests : Fresh(r)

-----------------------------------------------------------------------------
(* The operators the handlers share.                                       *)

\* A nonempty set of natural numbers up to n has a greatest element: the least
\* of its upper bounds, by well-foundedness of <.
LEMMA MaxExists ==
    ASSUME NEW n \in Nat, NEW S, S \subseteq 0..n, S # {}
    PROVE  \E m \in S : \A k \in S : k <= m
<1> DEFINE R == OpToRel(<, Nat)
           Above == {b \in Nat : \A k \in S : k <= b}
<1>1. \A x, y \in Nat : x < y => <<x, y>> \in R
  BY DEF OpToRel
<1>2. IsWellFoundedOn(R, Nat)
  BY NatLessThanWellFounded
<1> HIDE DEF R
<1>3. n \in Above /\ Above \subseteq Nat
  OBVIOUS
<1>4. PICK m \in Above : \A b \in Above : <<b, m>> \notin R
  <2> HIDE DEF Above
  <2>1. QED
    BY <1>2, <1>3, WFMin
<1>5. \A b \in Above : ~(b < m)
  BY <1>1, <1>4
<1>6. m \in S
  <2>1. SUFFICES ASSUME m \notin S PROVE FALSE
    OBVIOUS
  <2>2. m \in Nat /\ \A k \in S : k \in Nat /\ k <= m /\ k # m
    BY <2>1
  <2>3. m # 0
    <3>1. PICK k \in S : k \in Nat /\ k <= m /\ k # m
      BY <2>2
    <3>2. QED
      BY <3>1, <2>2
  <2>4. m - 1 \in Nat /\ m - 1 < m /\ \A k \in S : k <= m - 1
    <3>1. \A k \in Nat : k <= m /\ k # m => k <= m - 1
      BY <2>2
    <3>2. m - 1 \in Nat /\ m - 1 < m
      BY <2>2, <2>3
    <3>3. QED
      BY <2>2, <3>1, <3>2
  <2>5. QED
    BY <1>5, <2>4
<1>7. QED
  BY <1>6

\* The next id is free.
LEMMA NextIdFacts ==
    ASSUME TypeOK
    PROVE  NextId \in Nat \ {0} /\ NextId \notin Ids
<1>1. CASE Ids = {}
  BY <1>1 DEF NextId
<1>2. CASE Ids # {}
  <2> DEFINE m == CHOOSE i \in Ids : \A j \in Ids : j <= i
  <2>1. m \in Ids /\ \A j \in Ids : j <= m
    <3>1. Ids \subseteq 0 .. MaxUsers /\ MaxUsers \in Nat
      BY AccountsAssumption DEF TypeOK
    <3>2. \E i \in Ids : \A j \in Ids : j <= i
      BY <1>2, <3>1, MaxExists
    <3>3. QED
      BY <3>2
  <2>2. NextId = 1 + m
    BY <1>2 DEF NextId
  <2>3. m \in Nat
    BY <2>1, AccountsAssumption DEF TypeOK
  <2> HIDE DEF m
  <2>4. QED
    BY <2>1, <2>2, <2>3
<1>3. QED
  BY <1>1, <1>2

\* A request is about a user, a new one or none.
LEMMA AskedFacts ==
    ASSUME NEW q \in Asked
    PROVE  /\ q.op \in Ops \cup {"none"} /\ q.target \in 0 .. MaxUsers
           /\ q.op \notin {"none", "create"} => q.target \in 1 .. MaxUsers
           /\ q.op = "create" => q.target = 0
<1>1. "create" \in Ops
  BY DEF Ops, AdminOps
<1>2. QED
  BY <1>1, AccountsAssumption DEF Asked

\* The columns each operation looks at.
LEMMA ColumnsFacts ==
    ASSUME NEW op
    PROVE  /\ op \in {"promote", "demote", "delete"} => Columns(op) = {"role"}
           /\ op = "toggle" => Columns(op) = {"disabled"}
           /\ op = "remove_key" => Columns(op) = {"confirmed"}
           /\ op = "show_secret" => Columns(op) = {"secret"}
           /\ op \in {"reset_mfa", "remove_totp", "confirm_totp"} =>
                 Columns(op) = {"secret", "confirmed"}
           /\ op = "add_key" => Columns(op) = {}
BY DEF Columns

\* The columns each operation assigns.
LEMMA AssignedFacts ==
    ASSUME NEW r
    PROVE  /\ req[r].op = "promote" => Assigned(r) = [role |-> "admin"]
           /\ req[r].op = "demote" => Assigned(r) = [role |-> "operator"]
           /\ req[r].op = "toggle" => Assigned(r) = [disabled |-> ~Row(r).disabled]
           /\ req[r].op \in {"reset_mfa", "remove_totp"} =>
                 Assigned(r) = [secret |-> FALSE, confirmed |-> FALSE]
           /\ req[r].op = "show_secret" => Assigned(r) = [secret |-> TRUE]
           /\ req[r].op = "confirm_totp" => Assigned(r) = [confirmed |-> TRUE]
           /\ req[r].op \in {"none", "create", "delete", "remove_key", "add_key"} =>
                 Assigned(r) = <<>>
BY DEF Assigned, ResetColumns

\* The passkeys each operation removes.
LEMMA RemovedFacts ==
    ASSUME NEW r, NEW chosen
    PROVE  /\ req[r].op \in {"reset_mfa", "delete"} => Removed(r, chosen) = SeenKeys(r)
           /\ req[r].op = "remove_key" => Removed(r, chosen) = {chosen} \cap SeenKeys(r)
           /\ req[r].op \notin {"reset_mfa", "delete", "remove_key"} => Removed(r, chosen) = {}
BY DEF Removed

\* What is staged has the types of the columns.
LEMMA ChangedFits ==
    ASSUME NEW r, req[r].op \in Ops \cup {"none"}
    PROVE  ColumnsFit(Changed(r))
<1>1. /\ DOMAIN Changed(r) \subseteq DOMAIN Assigned(r)
      /\ \A c \in DOMAIN Changed(r) : Changed(r)[c] = Assigned(r)[c]
  BY DEF Changed
<1>2. ColumnsFit(Assigned(r))
  <2>1. CASE req[r].op \in {"none", "create", "delete", "remove_key", "add_key"}
    <3>1. Assigned(r) = <<>>
      BY <2>1, AssignedFacts
    <3>2. DOMAIN Assigned(r) = {}
      BY <3>1
    <3>3. QED
      BY <3>2 DEF ColumnsFit
  <2>2. CASE req[r].op \in {"promote", "demote"}
    BY <2>2, AssignedFacts DEF ColumnsFit, Roles
  <2>3. CASE req[r].op = "toggle"
    <3>1. Assigned(r) = [disabled |-> ~Row(r).disabled]
      BY <2>3, AssignedFacts
    <3>2. (~Row(r).disabled) \in BOOLEAN
      OBVIOUS
    <3>3. DOMAIN Assigned(r) = {"disabled"} /\ Assigned(r)["disabled"] \in BOOLEAN
      BY <3>1, <3>2
    <3>4. QED
      BY <3>3 DEF ColumnsFit
  <2>4. CASE req[r].op \in {"reset_mfa", "remove_totp"}
    <3>1. Assigned(r) = [secret |-> FALSE, confirmed |-> FALSE]
      BY <2>4, AssignedFacts
    <3>2. /\ DOMAIN Assigned(r) = {"secret", "confirmed"}
          /\ Assigned(r)["secret"] \in BOOLEAN /\ Assigned(r)["confirmed"] \in BOOLEAN
      BY <3>1
    <3>3. QED
      BY <3>2 DEF ColumnsFit
  <2>5. CASE req[r].op = "show_secret"
    <3>1. Assigned(r) = [secret |-> TRUE]
      BY <2>5, AssignedFacts
    <3>2. DOMAIN Assigned(r) = {"secret"} /\ Assigned(r)["secret"] \in BOOLEAN
      BY <3>1
    <3>3. QED
      BY <3>2 DEF ColumnsFit
  <2>6. CASE req[r].op = "confirm_totp"
    <3>1. Assigned(r) = [confirmed |-> TRUE]
      BY <2>6, AssignedFacts
    <3>2. DOMAIN Assigned(r) = {"confirmed"} /\ Assigned(r)["confirmed"] \in BOOLEAN
      BY <3>1
    <3>3. QED
      BY <3>2 DEF ColumnsFit
  <2>7. QED
    BY <2>1, <2>2, <2>3, <2>4, <2>5, <2>6 DEF Ops, AdminOps, ProfileOps, EnrolOps
<1>3. QED
  BY <1>1, <1>2 DEF ColumnsFit

-----------------------------------------------------------------------------
(* Types.                                                                  *)

\* A request that has ended leaves nothing behind.
LEMMA ForgetTypes ==
    ASSUME TypeOK, NEW r \in Requests, Forget(r)
    PROVE  /\ pc' \in [Requests -> {"idle", "admitted", "staged"}]
           /\ req' \in [Requests -> Asked]
           /\ mine' = [q \in Requests |-> mine'[q]]
           /\ plan' = [q \in Requests |-> plan'[q]]
           /\ \A q \in Requests : ColumnsFit(plan'[q].set)
<1>1. NoRequest \in Asked
  BY DEF NoRequest, Asked
<1>2. ColumnsFit(NoPlan.set)
  <2>1. DOMAIN NoPlan.set = {}
    BY DEF NoPlan
  <2>2. QED
    BY <2>1 DEF ColumnsFit
<1>3. /\ pc' = [pc EXCEPT ![r] = "idle"] /\ req' = [req EXCEPT ![r] = NoRequest]
      /\ mine' = [mine EXCEPT ![r] = NoRow] /\ plan' = [plan EXCEPT ![r] = NoPlan]
  BY DEF Forget
<1>4. /\ pc' \in [Requests -> {"idle", "admitted", "staged"}]
      /\ req' \in [Requests -> Asked]
  BY <1>1, <1>3 DEF TypeOK
<1>5. /\ mine' = [q \in Requests |-> mine'[q]]
      /\ plan' = [q \in Requests |-> plan'[q]]
      /\ plan'[r] = NoPlan /\ \A q \in Requests \ {r} : plan'[q] = plan[q]
  BY <1>3 DEF TypeOK
<1>6. \A q \in Requests : ColumnsFit(plan'[q].set)
  BY <1>2, <1>5 DEF TypeOK
<1>7. QED
  BY <1>4, <1>5, <1>6

\* An empty installation has the bootstrap admin.
LEMMA TypeInit == Init => TypeOK
<1> SUFFICES ASSUME Init PROVE TypeOK
  OBVIOUS
<1>1. NewUser("admin") \in UserRows
  BY DEF NewUser, UserRows, Roles
<1>2. Ids = {1} /\ Ids \subseteq 1 .. MaxUsers /\ users \in [Ids -> UserRows]
  BY <1>1, AccountsAssumption DEF Init, Ids
<1>3. NoRequest \in Asked
  BY DEF NoRequest, Asked
<1>4. ColumnsFit(NoPlan.set)
  <2>1. DOMAIN NoPlan.set = {}
    BY DEF NoPlan
  <2>2. QED
    BY <2>1 DEF ColumnsFit
<1>5. /\ pc \in [Requests -> {"idle", "admitted", "staged"}]
      /\ req \in [Requests -> Asked]
      /\ overtaken \in [Requests -> BOOLEAN]
  BY <1>3 DEF Init
<1>6. /\ mine = [r \in Requests |-> mine[r]] /\ plan = [r \in Requests |-> plan[r]]
      /\ \A r \in Requests : plan[r] = NoPlan
  BY DEF Init
<1>7. QED
  BY <1>2, <1>4, <1>5, <1>6 DEF TypeOK, Init

\* Admitting a request changes no table.
LEMMA AdmitTypes ==
    ASSUME TypeOK, NEW r \in Requests, Admit(r)
    PROVE  TypeOK'
<1>1. PICK op \in Ops, u \in Ids, t \in Ids :
        /\ req' = [req EXCEPT ![r] = [op |-> op, target |-> IF op = "create" THEN 0 ELSE t]]
        /\ mine' = [mine EXCEPT ![r] = IF t = u THEN Loaded(op, u) ELSE NoRow]
  BY DEF Admit, Ops
<1>2. /\ pc' = [pc EXCEPT ![r] = "admitted"] /\ overtaken' = [overtaken EXCEPT ![r] = FALSE]
      /\ UNCHANGED <<users, keys, plan>>
  BY DEF Admit
<1>3. [op |-> op, target |-> IF op = "create" THEN 0 ELSE t]
        \in Asked
  BY DEF TypeOK, Asked
<1>4. req' \in [Requests -> Asked]
  BY <1>1, <1>3 DEF TypeOK
<1>5. mine' = [q \in Requests |-> mine'[q]]
  BY <1>1 DEF TypeOK
<1>6. /\ pc' \in [Requests -> {"idle", "admitted", "staged"}]
      /\ overtaken' \in [Requests -> BOOLEAN]
  BY <1>2 DEF TypeOK
<1>7. QED
  BY <1>2, <1>4, <1>5, <1>6 DEF TypeOK, Ids

\* Nor does a handler that has made its checks.
LEMMA StageTypes ==
    ASSUME TypeOK, NEW r \in Requests, Stage(r)
    PROVE  TypeOK'
<1>1. PICK chosen \in Passkeys :
        plan' = [plan EXCEPT ![r] = [set |-> Changed(r), gone |-> Removed(r, chosen)]]
  BY DEF Stage
<1>2. /\ pc' = [pc EXCEPT ![r] = "staged"] /\ mine' = [mine EXCEPT ![r] = NoRow]
      /\ UNCHANGED <<users, keys, req, overtaken>>
  BY DEF Stage
<1>3. /\ plan' = [q \in Requests |-> plan'[q]]
      /\ plan'[r].set = Changed(r) /\ \A q \in Requests \ {r} : plan'[q] = plan[q]
  BY <1>1 DEF TypeOK
<1>4. \A q \in Requests : ColumnsFit(plan'[q].set)
  <2>1. req[r].op \in Ops \cup {"none"}
    <3>1. PICK q \in Asked : q = req[r]
      BY DEF TypeOK
    <3>2. q.op \in Ops \cup {"none"}
      BY AskedFacts
    <3>3. QED
      BY <3>1, <3>2
  <2>2. ColumnsFit(Changed(r))
    BY <2>1, ChangedFits
  <2>3. QED
    BY <1>3, <2>2 DEF TypeOK
<1>5. /\ pc' \in [Requests -> {"idle", "admitted", "staged"}]
      /\ mine' = [q \in Requests |-> mine'[q]]
  BY <1>2 DEF TypeOK
<1>6. QED
  BY <1>2, <1>3, <1>4, <1>5 DEF TypeOK, Ids

\* Setting columns of a row.
LEMMA SetFacts ==
    ASSUME NEW row \in UserRows, NEW columns, ColumnsFit(columns)
    PROVE  Set(row, columns) \in UserRows
<1>1. DOMAIN row = {"role", "disabled", "secret", "confirmed"}
  BY DEF UserRows
<1>2. Set(row, columns) =
        [c \in {"role", "disabled", "secret", "confirmed"} |->
            IF c \in DOMAIN columns THEN columns[c] ELSE row[c]]
  BY <1>1 DEF Set
<1>3. PICK new : new = Set(row, columns)
  OBVIOUS
<1>4. new.role \in Roles
  BY <1>2, <1>3 DEF ColumnsFit, UserRows
<1>5. new.disabled \in BOOLEAN /\ new.secret \in BOOLEAN /\ new.confirmed \in BOOLEAN
  BY <1>2, <1>3 DEF ColumnsFit, UserRows
<1>6. new = [role |-> new.role, disabled |-> new.disabled, secret |-> new.secret,
             confirmed |-> new.confirmed]
  BY <1>2, <1>3
<1>7. QED
  BY <1>3, <1>4, <1>5, <1>6 DEF UserRows

\* What a commit does to the users table: a new row, one row less, or columns of
\* one row.
UsersAfter(op, t, columns) ==
    \/ /\ op = "create" /\ NextId <= MaxUsers
       /\ \E role \in Roles : users' = WithUser(NewUser(role))
    \/ op = "delete" /\ users' = [u \in Ids \ {t} |-> users[u]]
    \/ /\ op \notin {"create", "delete"}
       /\ users' = [u \in Ids |-> IF u = t THEN Set(users[u], columns) ELSE users[u]]

LEMMA CommitUsers ==
    ASSUME NEW r, Commit(r)
    PROVE  UsersAfter(req[r].op, req[r].target, plan[r].set)
BY DEF Commit, UsersAfter, Roles

\* The users table keeps its type.
LEMMA UsersTyped ==
    ASSUME TypeOK, NEW op, NEW t, NEW columns, ColumnsFit(columns), UsersAfter(op, t, columns)
    PROVE  Ids' \subseteq 1 .. MaxUsers /\ users' \in [Ids' -> UserRows]
<1>1. Ids \subseteq 1 .. MaxUsers /\ users \in [Ids -> UserRows] /\ Ids' = DOMAIN users'
  BY DEF TypeOK, Ids
<1>2. CASE op = "create"
  <2>1. PICK role \in Roles : users' = WithUser(NewUser(role)) /\ NextId <= MaxUsers
    BY <1>2 DEF UsersAfter
  <2>2. NewUser(role) \in UserRows
    BY DEF NewUser, UserRows
  <2>3. users' = [u \in Ids \cup {NextId} |-> IF u = NextId THEN NewUser(role) ELSE users[u]]
    BY <2>1 DEF WithUser
  <2>4. NextId \in 1 .. MaxUsers
    BY <2>1, NextIdFacts, AccountsAssumption
  <2>5. QED
    BY <1>1, <2>2, <2>3, <2>4
<1>3. CASE op = "delete"
  <2>1. users' = [u \in Ids \ {t} |-> users[u]]
    BY <1>3 DEF UsersAfter
  <2>2. QED
    BY <1>1, <2>1
<1>4. CASE op \notin {"create", "delete"}
  <2>1. users' = [u \in Ids |-> IF u = t THEN Set(users[u], columns) ELSE users[u]]
    BY <1>4 DEF UsersAfter
  <2>2. \A u \in Ids : Set(users[u], columns) \in UserRows
    BY <1>1, SetFacts
  <2>3. QED
    BY <1>1, <2>1, <2>2
<1>5. QED
  BY <1>2, <1>3, <1>4

\* A commit keeps the types.
LEMMA CommitTypes ==
    ASSUME TypeOK, NEW r \in Requests, Commit(r)
    PROVE  TypeOK'
<1>1. Ids' \subseteq 1 .. MaxUsers /\ users' \in [Ids' -> UserRows]
  <2>1. ColumnsFit(plan[r].set)
    BY DEF TypeOK
  <2>2. QED
    BY <2>1, CommitUsers, UsersTyped
<1>2. keys' \subseteq (1 .. MaxUsers) \X Passkeys
  <2>1. CASE req[r].op = "add_key"
    <3>1. PICK k \in Passkeys : keys' = keys \cup {<<req[r].target, k>>}
      BY <2>1 DEF Commit
    <3>2. req[r].target \in 1 .. MaxUsers
      BY <2>1 DEF TypeOK, Asked
    <3>3. QED
      BY <3>1, <3>2 DEF TypeOK
  <2>2. CASE req[r].op # "add_key"
    BY <2>2 DEF Commit, TypeOK
  <2>3. QED
    BY <2>1, <2>2
<1>3. overtaken' \in [Requests -> BOOLEAN]
  <2>1. overtaken' = [q \in Requests |-> q # r /\ pc[q] # "idle"]
    BY DEF Commit
  <2>2. \A q \in Requests : (q # r /\ pc[q] # "idle") \in BOOLEAN
    OBVIOUS
  <2>3. QED
    BY <2>1, <2>2
<1>4. Forget(r)
  BY DEF Commit
<1>5. QED
  BY <1>1, <1>2, <1>3, <1>4, ForgetTypes DEF TypeOK

\* So does a failure.
LEMMA FailTypes ==
    ASSUME TypeOK, NEW r \in Requests, Fail(r)
    PROVE  TypeOK'
<1>1. Forget(r) /\ overtaken' = [overtaken EXCEPT ![r] = FALSE] /\ UNCHANGED <<users, keys>>
  BY DEF Fail
<1>2. overtaken' \in [Requests -> BOOLEAN]
  BY <1>1 DEF TypeOK
<1>3. QED
  BY <1>1, <1>2, ForgetTypes DEF TypeOK, Ids

-----------------------------------------------------------------------------
(* What is loaded, checked and staged stays true until somebody commits.   *)

\* Of a request that does nothing in the step, with the tables as they were.
LEMMA SameNowKept ==
    ASSUME UNCHANGED <<users, keys>>, NEW r, SameNow(r),
           pc'[r] = pc[r], req'[r] = req[r], mine'[r] = mine[r], plan'[r] = plan[r]
    PROVE  SameNow(r)'
<1>1. /\ ActiveAdmins' = ActiveAdmins
      /\ Loaded(req[r].op, req[r].target)' = Loaded(req[r].op, req[r].target)
      /\ Row(r)' = Row(r) /\ SeenKeys(r)' = SeenKeys(r)
  BY DEF ActiveAdmins, Ids, Loaded, Row, SeenKeys, KeysOf
<1>2. Assigned(r)' = Assigned(r)
  BY <1>1 DEF Assigned
<1>3. Changed(r)' = Changed(r) /\ \A k : Removed(r, k)' = Removed(r, k)
  BY <1>1, <1>2 DEF Changed, Removed
<1>4. Allowed(r)' = Allowed(r)
  BY <1>1 DEF Allowed, LastAdmin, OnlyFactor
<1>5. QED
  BY <1>1, <1>3, <1>4 DEF SameNow

\* Of the request that is admitted.
LEMMA AdmitFresh ==
    ASSUME TypeOK, NEW r \in Requests, Admit(r)
    PROVE  SameNow(r)' \/ req'[r].op = "create"
<1>1. PICK op \in Ops, u \in Ids, t \in Ids :
        /\ Admitted(op, u) /\ MayBeAbout(op, u, t)
        /\ req' = [req EXCEPT ![r] = [op |-> op, target |-> IF op = "create" THEN 0 ELSE t]]
        /\ mine' = [mine EXCEPT ![r] = IF t = u THEN Loaded(op, u) ELSE NoRow]
  BY DEF Admit, Ops
<1>2. pc'[r] = "admitted" /\ UNCHANGED <<users, keys>>
  BY DEF Admit, TypeOK
<1>3. req'[r] = [op |-> op, target |-> IF op = "create" THEN 0 ELSE t]
  BY <1>1 DEF TypeOK
<1>4. mine'[r] = IF t = u THEN Loaded(op, u) ELSE NoRow
  BY <1>1 DEF TypeOK
<1>5. CASE op # "create"
  <2>1. req'[r].op = op /\ req'[r].target = t
    BY <1>3, <1>5
  <2>2. mine'[r] # NoRow => mine'[r] = Loaded(op, t)'
    BY <1>2, <1>4 DEF Loaded, KeysOf
  <2>3. op = "toggle" => ActiveAdmins' \ {t} # {}
    <3>1. ASSUME op = "toggle" PROVE u \in ActiveAdmins /\ u # t
      BY <1>1, <3>1 DEF Admitted, MayBeAbout, ActiveAdmins, AdminOps, EnrolOps
    <3>2. ActiveAdmins' = ActiveAdmins
      BY <1>2 DEF ActiveAdmins, Ids
    <3>3. QED
      BY <3>1, <3>2
  <2>4. QED
    BY <1>2, <2>1, <2>2, <2>3 DEF SameNow
<1>6. CASE op = "create"
  BY <1>3, <1>6
<1>7. QED
  BY <1>5, <1>6

\* What the handler finds in the rows it loaded it finds in the table.
LEMMA RowFacts ==
    ASSUME NEW r, SameNow(r), pc[r] = "admitted", req[r].op \in Ops \ {"create"}
    PROVE  /\ \A c \in Columns(req[r].op) : Row(r)[c] = users[req[r].target][c]
           /\ SeenKeys(r) = KeysOf(req[r].target)
<1> DEFINE op == req[r].op
           t == req[r].target
<1>1. CASE mine[r] = NoRow
  BY <1>1 DEF Row, SeenKeys
<1>2. CASE mine[r] # NoRow
  <2>1. mine[r] = Loaded(op, t)
    BY <1>2 DEF SameNow
  <2>2. /\ mine[r].row = [c \in Columns(op) |-> users[t][c]]
        /\ mine[r].keys = {} \/ mine[r].keys = {KeysOf(t)}
    BY <2>1 DEF Loaded
  <2>3. SeenKeys(r) = KeysOf(t)
    BY <1>2, <2>2 DEF SeenKeys
  <2>4. Row(r) = [c \in Columns(op) |-> users[t][c]]
    BY <1>2, <2>2 DEF Row
  <2>5. QED
    BY <2>3, <2>4
<1>3. QED
  BY <1>1, <1>2

\* Of the request whose handler has made its checks.
LEMMA StageFresh ==
    ASSUME TypeOK, NEW r \in Requests, Stage(r), SameNow(r), req[r].op \in Ops \ {"create"}
    PROVE  SameNow(r)'
<1> DEFINE op == req[r].op
           t == req[r].target
<1>1. /\ pc[r] = "admitted" /\ pc'[r] = "staged" /\ mine'[r] = NoRow /\ Allowed(r)
      /\ req' = req /\ UNCHANGED <<users, keys>>
  BY DEF Stage, TypeOK
<1>2. PICK chosen \in Passkeys :
        plan'[r].set = Changed(r) /\ plan'[r].gone = Removed(r, chosen)
  BY DEF Stage, TypeOK
<1>3. op \in Ops \ {"create"}
  OBVIOUS
<1>4. /\ \A c \in Columns(op) : Row(r)[c] = users[t][c]
      /\ SeenKeys(r) = KeysOf(t)
  BY <1>1, <1>3, RowFacts
<1>5. Row(r)' = users[t] /\ SeenKeys(r)' = SeenKeys(r)
  BY <1>1, <1>4 DEF Row, SeenKeys, KeysOf
<1>6. \A c \in Columns(op) : Row(r)'[c] = Row(r)[c]
  BY <1>4, <1>5
<1> HIDE DEF t
<1>7. Assigned(r)' = Assigned(r) /\ DOMAIN Assigned(r) \subseteq Columns(op)
  <2>1. PICK old, new : old = Row(r) /\ new = Row(r)'
    OBVIOUS
  <2>2. op = "toggle" => old.disabled = new.disabled
    BY <1>6, <2>1, ColumnsFacts
  <2>3. Assigned(r)' = Assigned(r)
    BY <1>1, <2>1, <2>2 DEF Assigned
  <2>4. DOMAIN Assigned(r) \subseteq Columns(op)
    <3>1. CASE op \in {"delete", "remove_key", "add_key"}
      <4>1. Assigned(r) = <<>>
        BY <3>1, AssignedFacts
      <4>2. DOMAIN Assigned(r) = {}
        BY <4>1
      <4>3. QED
        BY <4>2
    <3>2. CASE op \in {"promote", "demote"}
      BY <3>2, AssignedFacts, ColumnsFacts
    <3>3. CASE op = "toggle"
      BY <3>3, AssignedFacts, ColumnsFacts
    <3>4. CASE op \in {"reset_mfa", "remove_totp"}
      BY <3>4, AssignedFacts, ColumnsFacts
    <3>5. CASE op \in {"show_secret", "confirm_totp"}
      BY <3>5, AssignedFacts, ColumnsFacts
    <3>6. QED
      BY <1>3, <3>1, <3>2, <3>3, <3>4, <3>5 DEF Ops, AdminOps, ProfileOps, EnrolOps
  <2>5. QED
    BY <2>3, <2>4
<1>8. Changed(r)' = Changed(r)
  <2>1. {c \in DOMAIN Assigned(r) : Assigned(r)[c] # Row(r)[c]} =
        {c \in DOMAIN Assigned(r) : Assigned(r)[c] # Row(r)'[c]}
    BY <1>6, <1>7
  <2>2. QED
    BY <1>7, <2>1 DEF Changed
<1>9. \A k : Removed(r, k)' = Removed(r, k)
  BY <1>1, <1>5 DEF Removed
<1>10. Allowed(r)'
  <2>1. PICK old, new : old = Row(r) /\ new = Row(r)'
    OBVIOUS
  <2>2. /\ op \in {"demote", "delete"} => old.role = new.role
        /\ op = "remove_key" => old.confirmed = new.confirmed
        /\ op = "confirm_totp" => old.secret = new.secret
    BY <1>6, <2>1, ColumnsFacts
  <2>3. ActiveAdmins' = ActiveAdmins
    BY <1>1 DEF ActiveAdmins, Ids
  <2>4. QED
    BY <1>1, <1>5, <2>1, <2>2, <2>3 DEF Allowed, LastAdmin, OnlyFactor
<1>11. op = "toggle" => ActiveAdmins' \ {req'[r].target} # {}
  BY <1>1 DEF SameNow, ActiveAdmins, Ids
<1>12. QED
  BY <1>1, <1>2, <1>8, <1>9, <1>10, <1>11 DEF SameNow

\* A request that ends leaves the others alone.
LEMMA ForgetOthers ==
    ASSUME TypeOK, NEW r \in Requests, Forget(r), NEW q \in Requests \ {r}
    PROVE  /\ pc'[r] = "idle"
           /\ pc'[q] = pc[q] /\ req'[q] = req[q] /\ mine'[q] = mine[q] /\ plan'[q] = plan[q]
BY DEF TypeOK, Forget

\* Every step keeps it so, for the request that acts and for all others.
LEMMA FreshStep ==
    ASSUME Inv, [Next]_vars
    PROVE  TypeOK' /\ \A q \in Requests : Fresh(q)'
<1>1. ASSUME NEW r \in Requests, Admit(r)
      PROVE  TypeOK' /\ \A q \in Requests : Fresh(q)'
  <2>1. TypeOK'
    BY <1>1, AdmitTypes DEF Inv
  <2>2. Fresh(r)'
    <3>1. SameNow(r)' \/ req'[r].op = "create"
      BY <1>1, AdmitFresh DEF Inv
    <3>2. req'[r].op \in Ops
      <4>1. PICK op \in Ops, t \in Ids :
              req' = [req EXCEPT ![r] = [op |-> op, target |-> IF op = "create" THEN 0 ELSE t]]
        BY <1>1 DEF Admit, Ops
      <4>2. req'[r] = [op |-> op, target |-> IF op = "create" THEN 0 ELSE t]
        BY <4>1 DEF Inv, TypeOK
      <4>3. QED
        BY <4>2
    <3>3. QED
      BY <3>1, <3>2 DEF Fresh
  <2>3. ASSUME NEW q \in Requests \ {r} PROVE Fresh(q)'
    <3>1. /\ pc'[q] = pc[q] /\ req'[q] = req[q] /\ mine'[q] = mine[q] /\ plan'[q] = plan[q]
          /\ overtaken'[q] = overtaken[q] /\ UNCHANGED <<users, keys>>
      BY <1>1 DEF Admit, Inv, TypeOK
    <3>2. Fresh(q)
      BY DEF Inv
    <3>3. QED
      BY <3>1, <3>2, SameNowKept DEF Fresh
  <2>4. QED
    BY <2>1, <2>2, <2>3
<1>2. ASSUME NEW r \in Requests, Stage(r)
      PROVE  TypeOK' /\ \A q \in Requests : Fresh(q)'
  <2>1. TypeOK'
    BY <1>2, StageTypes DEF Inv
  <2>2. Fresh(r)'
    <3>1. Fresh(r) /\ pc[r] = "admitted" /\ req'[r] = req[r] /\ overtaken'[r] = overtaken[r]
      BY <1>2 DEF Stage, Inv
    <3>2. ASSUME ~overtaken[r], req[r].op # "create" PROVE SameNow(r)'
      BY <1>2, <3>1, <3>2, StageFresh DEF Fresh, Inv
    <3>3. QED
      BY <3>1, <3>2 DEF Fresh
  <2>3. ASSUME NEW q \in Requests \ {r} PROVE Fresh(q)'
    <3>1. /\ pc'[q] = pc[q] /\ req'[q] = req[q] /\ mine'[q] = mine[q] /\ plan'[q] = plan[q]
          /\ overtaken'[q] = overtaken[q] /\ UNCHANGED <<users, keys>>
      BY <1>2 DEF Stage, Inv, TypeOK
    <3>2. Fresh(q)
      BY DEF Inv
    <3>3. QED
      BY <3>1, <3>2, SameNowKept DEF Fresh
  <2>4. QED
    BY <2>1, <2>2, <2>3
<1>3. ASSUME NEW r \in Requests, Fail(r)
      PROVE  TypeOK' /\ \A q \in Requests : Fresh(q)'
  <2>1. TypeOK' /\ Forget(r) /\ UNCHANGED <<users, keys>>
    BY <1>3, FailTypes DEF Inv, Fail
  <2>2. Fresh(r)'
    BY <2>1 DEF Fresh, Forget, Inv, TypeOK
  <2>3. ASSUME NEW q \in Requests \ {r} PROVE Fresh(q)'
    <3>1. /\ pc'[q] = pc[q] /\ req'[q] = req[q] /\ mine'[q] = mine[q] /\ plan'[q] = plan[q]
      BY <2>1, ForgetOthers DEF Inv
    <3>2. overtaken'[q] = overtaken[q]
      BY <1>3 DEF Fail, Inv, TypeOK
    <3>3. Fresh(q)
      BY DEF Inv
    <3>4. QED
      BY <2>1, <3>1, <3>2, <3>3, SameNowKept DEF Fresh
  <2>4. QED
    BY <2>1, <2>2, <2>3
<1>4. ASSUME NEW r \in Requests, Commit(r)
      PROVE  TypeOK' /\ \A q \in Requests : Fresh(q)'
  <2>1. TypeOK' /\ Forget(r) /\ overtaken' = [q \in Requests |-> q # r /\ pc[q] # "idle"]
    BY <1>4, CommitTypes DEF Inv, Commit
  <2>2. Fresh(r)'
    BY <2>1 DEF Fresh, Forget, Inv, TypeOK
  <2>3. ASSUME NEW q \in Requests \ {r} PROVE Fresh(q)'
    <3>1. pc'[q] = pc[q] /\ req'[q] = req[q]
      BY <2>1, ForgetOthers DEF Inv
    <3>2. pc[q] # "idle" => overtaken'[q]
      BY <2>1
    <3>3. Fresh(q)
      BY DEF Inv
    <3>4. QED
      BY <3>1, <3>2, <3>3 DEF Fresh
  <2>4. QED
    BY <2>1, <2>2, <2>3
<1>5. ASSUME UNCHANGED vars
      PROVE  TypeOK' /\ \A q \in Requests : Fresh(q)'
  <2>1. UNCHANGED <<users, keys, pc, req, mine, plan, overtaken>>
    BY <1>5 DEF vars
  <2>2. TypeOK'
    BY <2>1 DEF Inv, TypeOK, Ids
  <2>3. ASSUME NEW q \in Requests PROVE Fresh(q)'
    <3>1. Fresh(q)
      BY DEF Inv
    <3>2. QED
      BY <2>1, <3>1, SameNowKept DEF Fresh
  <2>4. QED
    BY <2>2, <2>3
<1>6. QED
  BY <1>1, <1>2, <1>3, <1>4, <1>5 DEF Next, Stopped

\* In every reachable state the tables are of their types and what a request has
\* loaded, checked and staged holds now, unless another one has committed since
\* it was admitted.
THEOREM AccountsInv == Spec => []Inv
<1>1. Init => Inv
  <2>1. ASSUME Init PROVE \A r \in Requests : Fresh(r)
    BY <2>1 DEF Init, Fresh
  <2>2. QED
    BY <2>1, TypeInit DEF Inv
<1>2. Inv /\ [Next]_vars => Inv'
  BY FreshStep DEF Inv
<1>3. QED
  BY <1>1, <1>2, PTL DEF Spec

-----------------------------------------------------------------------------
(* What a commit does that was not overtaken.                              *)

\* Other users keep their rows.
LEMMA OtherRows ==
    ASSUME TypeOK, NEW r \in Requests, Commit(r), NEW u \in Ids, u # req[r].target
    PROVE  u \in Ids' /\ users'[u] = users[u]
<1> DEFINE t == req[r].target
<1>1. UsersAfter(req[r].op, t, plan[r].set)
  BY CommitUsers
<1>2. CASE req[r].op = "create"
  <2>1. PICK role \in Roles : users' = WithUser(NewUser(role))
    BY <1>1, <1>2 DEF UsersAfter
  <2>2. users' = [v \in Ids \cup {NextId} |-> IF v = NextId THEN NewUser(role) ELSE users[v]]
    BY <2>1 DEF WithUser
  <2>3. QED
    BY <2>2, NextIdFacts DEF Ids
<1>3. CASE req[r].op = "delete"
  BY <1>1, <1>3 DEF UsersAfter, Ids
<1>4. CASE req[r].op \notin {"create", "delete"}
  BY <1>1, <1>4 DEF UsersAfter, Ids
<1>5. QED
  BY <1>2, <1>3, <1>4

\* The user the request is about has the assigned columns and keeps the others.
LEMMA TargetRow ==
    ASSUME TypeOK, NEW r \in Requests, Commit(r), SameNow(r),
           req[r].op \notin {"create", "delete"}, req[r].target \in Ids
    PROVE  /\ req[r].target \in Ids'
           /\ \A c \in {"role", "disabled", "secret", "confirmed"} :
                 users'[req[r].target][c] =
                    IF c \in DOMAIN Assigned(r) THEN Assigned(r)[c]
                    ELSE users[req[r].target][c]
<1> DEFINE t == req[r].target
           row == users[t]
<1>1. pc[r] = "staged" /\ users' = [u \in Ids |-> IF u = t THEN Set(users[u], plan[r].set)
                                                  ELSE users[u]]
  BY DEF Commit
<1>2. t \in Ids' /\ users'[t] = Set(row, plan[r].set)
  BY <1>1 DEF Ids
<1>3. Row(r) = row /\ plan[r].set = Changed(r)
  BY <1>1 DEF SameNow, Row
<1>4. DOMAIN row = {"role", "disabled", "secret", "confirmed"}
  BY DEF TypeOK, UserRows
<1> HIDE DEF row
<1>5. Set(row, Changed(r)) =
        [c \in {"role", "disabled", "secret", "confirmed"} |->
            IF c \in DOMAIN Changed(r) THEN Changed(r)[c] ELSE row[c]]
  BY <1>4 DEF Set
<1>6. /\ DOMAIN Changed(r) = {c \in DOMAIN Assigned(r) : Assigned(r)[c] # row[c]}
      /\ \A c \in DOMAIN Changed(r) : Changed(r)[c] = Assigned(r)[c]
  BY <1>3 DEF Changed
<1>7. \A c \in {"role", "disabled", "secret", "confirmed"} :
        Set(row, Changed(r))[c] = IF c \in DOMAIN Assigned(r) THEN Assigned(r)[c] ELSE row[c]
  BY <1>5, <1>6
<1>8. QED
  BY <1>2, <1>3, <1>7 DEF row

\* Only a commit changes the tables.
LEMMA OnlyCommits ==
    ASSUME TypeOK, [Next]_vars, ~UNCHANGED <<users, keys>>
    PROVE  \E r \in Requests : Commit(r) /\ Commits(r)
<1>1. PICK r \in Requests : Commit(r)
  BY DEF Next, Admit, Stage, Fail, Stopped, vars
<1>2. pc[r] = "staged" /\ pc'[r] = "idle" /\ overtaken'[r] = FALSE
  <2>1. /\ pc[r] = "staged" /\ Forget(r)
        /\ overtaken' = [q \in Requests |-> q # r /\ pc[q] # "idle"]
    BY <1>1 DEF Commit
  <2>2. QED
    BY <2>1 DEF Forget, TypeOK
<1>3. QED
  BY <1>1, <1>2 DEF Commits

\* A commit that was not overtaken is what it would be now.
LEMMA CommitSameNow ==
    ASSUME Inv, NEW r \in Requests, Commit(r), ~overtaken[r]
    PROVE  /\ req[r].op \in Ops
           /\ req[r].op # "create" => SameNow(r)
           /\ req[r].op = "create" => req[r].target = 0
<1>1. Fresh(r) /\ pc[r] = "staged"
  BY DEF Inv, Commit
<1>2. PICK q \in Asked : q = req[r]
  BY DEF Inv, TypeOK
<1>3. q.op = "create" => q.target = 0
  BY AskedFacts
<1>4. QED
  BY <1>1, <1>2, <1>3 DEF Fresh

\* If the only active admin is whom the commit is about, it is one still.
LEMMA OnlyAdminStays ==
    ASSUME Inv, NEW r \in Requests, Commit(r), ~overtaken[r],
           ActiveAdmins = {req[r].target}
    PROVE  req[r].target \in ActiveAdmins'
<1> DEFINE op == req[r].op
           t == req[r].target
<1>1. TypeOK /\ pc[r] = "staged"
  BY DEF Inv, Commit
<1>2. t \in Ids /\ users[t].role = "admin" /\ ~users[t].disabled
  BY DEF ActiveAdmins
<1>3. op # "create"
  <2>1. 0 \notin Ids
    BY <1>1 DEF TypeOK
  <2>2. QED
    BY <1>2, <2>1, CommitSameNow
<1>4. SameNow(r) /\ op \in Ops
  BY <1>3, CommitSameNow
<1>5. Row(r) = users[t]
  BY <1>1, <1>4 DEF SameNow, Row
<1>6. op \notin {"demote", "delete"}
  <2>1. Cardinality(ActiveAdmins) = 1
    BY FS_Singleton
  <2>2. LastAdmin(Row(r))
    BY <1>2, <1>5, <2>1 DEF LastAdmin
  <2>3. QED
    BY <1>1, <1>4, <2>2 DEF SameNow, Allowed
<1>7. op # "toggle"
  BY <1>4 DEF SameNow
<1>8. Assigned(r) = [role |-> "admin"] \/ DOMAIN Assigned(r) \subseteq {"secret", "confirmed"}
  <2>1. CASE op = "promote"
    BY <2>1, AssignedFacts
  <2>2. CASE op \in {"remove_key", "add_key"}
    <3>1. Assigned(r) = <<>>
      BY <2>2, AssignedFacts
    <3>2. DOMAIN Assigned(r) = {}
      BY <3>1
    <3>3. QED
      BY <3>2
  <2>3. CASE op \in {"reset_mfa", "remove_totp"}
    BY <2>3, AssignedFacts
  <2>4. CASE op \in {"show_secret", "confirm_totp"}
    BY <2>4, AssignedFacts
  <2>5. QED
    BY <1>3, <1>4, <1>6, <1>7, <2>1, <2>2, <2>3, <2>4 DEF Ops, AdminOps, ProfileOps, EnrolOps
<1>9. t \in Ids' /\ users'[t]["role"] = "admin" /\ users'[t]["disabled"] = users[t]["disabled"]
  <2>1. /\ t \in Ids'
        /\ \A c \in {"role", "disabled", "secret", "confirmed"} :
              users'[t][c] = IF c \in DOMAIN Assigned(r) THEN Assigned(r)[c] ELSE users[t][c]
    BY <1>1, <1>2, <1>3, <1>4, <1>6, TargetRow
  <2>2. CASE Assigned(r) = [role |-> "admin"]
    BY <2>1, <2>2
  <2>3. CASE DOMAIN Assigned(r) \subseteq {"secret", "confirmed"}
    BY <1>2, <2>1, <2>3
  <2>4. QED
    BY <1>8, <2>2, <2>3
<1>10. QED
  BY <1>2, <1>9 DEF ActiveAdmins

\* A commit that was not overtaken leaves an active admin.
LEMMA AdminStays ==
    ASSUME Inv, NEW r \in Requests, Commit(r), ~overtaken[r], ActiveAdmins # {}
    PROVE  ActiveAdmins' # {}
<1> DEFINE t == req[r].target
<1>1. CASE \E b \in ActiveAdmins : b # t
  <2>1. PICK b \in ActiveAdmins : b # t
    BY <1>1
  <2>2. b \in Ids /\ users[b].role = "admin" /\ ~users[b].disabled
    BY DEF ActiveAdmins
  <2>3. b \in Ids' /\ users'[b] = users[b]
    BY <2>1, <2>2, OtherRows DEF Inv
  <2>4. QED
    BY <2>2, <2>3 DEF ActiveAdmins
<1>2. CASE \A b \in ActiveAdmins : b = t
  <2>1. ActiveAdmins = {t}
    BY <1>2
  <2>2. QED
    BY <2>1, OnlyAdminStays
<1>3. QED
  BY <1>1, <1>2

\* What a commit does to the passkeys.
LEMMA KeysAfter ==
    ASSUME NEW r, Commit(r), NEW u
    PROVE  /\ \A k \in KeysOf(u) :
                 u # req[r].target \/ k \notin plan[r].gone => k \in KeysOf(u)'
           /\ req[r].op = "add_key" /\ u = req[r].target => KeysOf(u)' # {}
<1> DEFINE t == req[r].target
<1>1. CASE req[r].op = "add_key"
  <2>1. PICK k \in Passkeys : keys' = keys \cup {<<t, k>>}
    BY <1>1 DEF Commit
  <2>2. (u = t => k \in KeysOf(u)') /\ \A j \in KeysOf(u) : j \in KeysOf(u)'
    BY <2>1 DEF KeysOf
  <2>3. QED
    BY <2>2
<1>2. CASE req[r].op # "add_key"
  <2>1. keys' = keys \ ({t} \X plan[r].gone)
    BY <1>2 DEF Commit
  <2>2. \A k \in KeysOf(u) : u # t \/ k \notin plan[r].gone => k \in KeysOf(u)'
    BY <2>1 DEF KeysOf
  <2>3. QED
    BY <1>2, <2>2
<1>3. QED
  BY <1>1, <1>2

\* A commit that was not overtaken and resets nobody leaves a user who is there
\* before and after a factor.
LEMMA FactorStays ==
    ASSUME Inv, NEW r \in Requests, Commit(r), ~overtaken[r], req[r].op # "reset_mfa",
           NEW u \in Ids \cap Ids', HasMfa(u)
    PROVE  HasMfa(u)'
<1> DEFINE op == req[r].op
           t == req[r].target
<1>1. TypeOK /\ pc[r] = "staged"
  BY DEF Inv, Commit
<1>2. CASE u # t
  <2>1. users'[u] = users[u]
    BY <1>1, <1>2, OtherRows
  <2>2. KeysOf(u) \subseteq KeysOf(u)'
    BY <1>2, KeysAfter
  <2>3. QED
    BY <2>1, <2>2 DEF HasMfa
<1>3. CASE u = t
  <2>1. op \notin {"create", "delete"}
    <3>1. CASE op = "create"
      <4>1. 0 \notin Ids
        BY <1>1 DEF TypeOK
      <4>2. QED
        BY <1>3, <3>1, <4>1, CommitSameNow
    <3>2. CASE op = "delete"
      <4>1. users' = [v \in Ids \ {t} |-> users[v]]
        BY <3>2 DEF Commit
      <4>2. QED
        BY <1>3, <4>1 DEF Ids
    <3>3. QED
      BY <3>1, <3>2
  <2>2. SameNow(r) /\ op \in Ops
    BY <2>1, CommitSameNow
  <2>3. Row(r) = users[t] /\ SeenKeys(r) = KeysOf(t) /\ Allowed(r)
    BY <1>1, <2>2 DEF SameNow, Row, SeenKeys
  <2>4. PICK chosen \in Passkeys : plan[r].gone = Removed(r, chosen)
    BY <1>1, <2>2 DEF SameNow
  <2>5. users'[t]["confirmed"] = IF "confirmed" \in DOMAIN Assigned(r)
                                 THEN Assigned(r)["confirmed"] ELSE users[t]["confirmed"]
    BY <1>1, <1>3, <2>1, <2>2, TargetRow
  <2>6. CASE op = "remove_key"
    <3>1. plan[r].gone \subseteq {chosen}
      BY <2>4, <2>6, RemovedFacts
    <3>2. CASE users[t].confirmed
      <4>1. Assigned(r) = <<>>
        BY <2>6, AssignedFacts
      <4>2. DOMAIN Assigned(r) = {}
        BY <4>1
      <4>3. QED
        BY <1>3, <2>5, <3>2, <4>2 DEF HasMfa
    <3>3. CASE ~users[t].confirmed
      <4>1. KeysOf(t) # {} /\ ~(Cardinality(KeysOf(t)) <= 1)
        BY <2>3, <2>6, <3>3 DEF Allowed, OnlyFactor
      <4>2. PICK k \in KeysOf(t) : k # chosen
        <5>1. ASSUME KeysOf(t) \subseteq {chosen} PROVE FALSE
          <6>1. KeysOf(t) = {chosen}
            BY <4>1, <5>1
          <6>2. Cardinality(KeysOf(t)) = 1
            BY <6>1, FS_Singleton
          <6>3. QED
            BY <4>1, <6>2
        <5>2. QED
          BY <5>1
      <4>3. k \in KeysOf(u)'
        BY <1>3, <3>1, <4>2, KeysAfter
      <4>4. QED
        BY <4>3 DEF HasMfa
    <3>4. QED
      BY <3>2, <3>3
  <2>7. CASE op = "remove_totp"
    <3>1. KeysOf(t) # {}
      BY <2>3, <2>7 DEF Allowed
    <3>2. plan[r].gone = {}
      BY <2>4, <2>7, RemovedFacts
    <3>3. KeysOf(u)' # {}
      BY <1>3, <3>1, <3>2, KeysAfter
    <3>4. QED
      BY <3>3 DEF HasMfa
  <2>8. CASE op = "add_key"
    BY <1>3, <2>8, KeysAfter DEF HasMfa
  <2>9. CASE op \in {"promote", "demote", "toggle", "show_secret", "confirm_totp"}
    <3>1. plan[r].gone = {}
      BY <2>4, <2>9, RemovedFacts
    <3>2. KeysOf(u) \subseteq KeysOf(u)'
      BY <3>1, KeysAfter
    <3>3. users[t]["confirmed"] => users'[t]["confirmed"]
      <4>1. CASE op = "confirm_totp"
        BY <2>5, <4>1, AssignedFacts
      <4>2. CASE op \in {"promote", "demote"}
        BY <2>5, <4>2, AssignedFacts
      <4>3. CASE op = "toggle"
        BY <2>5, <4>3, AssignedFacts
      <4>4. CASE op = "show_secret"
        BY <2>5, <4>4, AssignedFacts
      <4>5. QED
        BY <2>9, <4>1, <4>2, <4>3, <4>4
    <3>4. QED
      BY <1>3, <3>2, <3>3 DEF HasMfa
  <2>10. QED
    BY <2>1, <2>2, <2>6, <2>7, <2>8, <2>9 DEF Ops, AdminOps, ProfileOps, EnrolOps
<1>4. QED
  BY <1>2, <1>3

\* A commit that was not overtaken confirms no user who has no secret, and takes
\* no secret from one who is confirmed.
LEMMA SecretStays ==
    ASSUME Inv, NEW r \in Requests, Commit(r), ~overtaken[r],
           NEW u \in Ids', users'[u].confirmed, ~users'[u].secret
    PROVE  u \in Ids /\ users[u].confirmed /\ ~users[u].secret
<1> DEFINE op == req[r].op
           t == req[r].target
<1>1. TypeOK /\ pc[r] = "staged"
  BY DEF Inv, Commit
<1>2. CASE u \notin Ids
  <2>1. UsersAfter(op, t, plan[r].set)
    BY CommitUsers
  <2>2. op = "create"
    BY <1>2, <2>1 DEF UsersAfter, Ids
  <2>3. PICK role \in Roles :
          users' = [v \in Ids \cup {NextId} |-> IF v = NextId THEN NewUser(role) ELSE users[v]]
    BY <2>1, <2>2 DEF UsersAfter, WithUser
  <2>4. users'[u] = NewUser(role)
    BY <1>2, <2>3 DEF Ids
  <2>5. QED
    BY <2>4 DEF NewUser
<1>3. CASE u \in Ids /\ u # t
  <2>1. users'[u] = users[u]
    BY <1>1, <1>3, OtherRows
  <2>2. QED
    BY <1>3, <2>1
<1>4. CASE u \in Ids /\ u = t
  <2>1. op \notin {"create", "delete"}
    <3>1. CASE op = "create"
      <4>1. 0 \notin Ids
        BY <1>1 DEF TypeOK
      <4>2. QED
        BY <1>4, <3>1, <4>1, CommitSameNow
    <3>2. CASE op = "delete"
      <4>1. users' = [v \in Ids \ {t} |-> users[v]]
        BY <3>2 DEF Commit
      <4>2. QED
        BY <1>4, <4>1 DEF Ids
    <3>3. QED
      BY <3>1, <3>2
  <2>2. SameNow(r) /\ op \in Ops
    BY <2>1, CommitSameNow
  <2>3. /\ users'[t]["confirmed"] = IF "confirmed" \in DOMAIN Assigned(r)
                                    THEN Assigned(r)["confirmed"] ELSE users[t]["confirmed"]
        /\ users'[t]["secret"] = IF "secret" \in DOMAIN Assigned(r)
                                 THEN Assigned(r)["secret"] ELSE users[t]["secret"]
    BY <1>1, <1>4, <2>1, <2>2, TargetRow
  <2>4. op # "confirm_totp"
    <3>1. ASSUME op = "confirm_totp" PROVE FALSE
      <4>1. Row(r) = users[t] /\ Allowed(r)
        BY <1>1, <2>2 DEF SameNow, Row
      <4>2. users[t].secret
        BY <3>1, <4>1 DEF Allowed
      <4>3. users'[t]["secret"] = users[t]["secret"]
        BY <2>3, <3>1, AssignedFacts
      <4>4. QED
        BY <1>4, <4>2, <4>3
    <3>2. QED
      BY <3>1
  <2>5. op \notin {"reset_mfa", "remove_totp"}
    <3>1. ASSUME op \in {"reset_mfa", "remove_totp"} PROVE FALSE
      <4>1. users'[t]["confirmed"] = FALSE
        BY <2>3, <3>1, AssignedFacts
      <4>2. QED
        BY <1>4, <4>1
    <3>2. QED
      BY <3>1
  <2>6. op # "show_secret"
    <3>1. ASSUME op = "show_secret" PROVE FALSE
      <4>1. users'[t]["secret"] = TRUE
        BY <2>3, <3>1, AssignedFacts
      <4>2. QED
        BY <1>4, <4>1
    <3>2. QED
      BY <3>1
  <2>7. DOMAIN Assigned(r) \subseteq {"role", "disabled"}
    <3>1. CASE op \in {"remove_key", "add_key"}
      <4>1. Assigned(r) = <<>>
        BY <3>1, AssignedFacts
      <4>2. DOMAIN Assigned(r) = {}
        BY <4>1
      <4>3. QED
        BY <4>2
    <3>2. CASE op \in {"promote", "demote"}
      BY <3>2, AssignedFacts
    <3>3. CASE op = "toggle"
      BY <3>3, AssignedFacts
    <3>4. QED
      BY <2>1, <2>2, <2>4, <2>5, <2>6, <3>1, <3>2, <3>3
         DEF Ops, AdminOps, ProfileOps, EnrolOps
  <2>8. /\ users'[t]["confirmed"] = users[t]["confirmed"]
        /\ users'[t]["secret"] = users[t]["secret"]
    BY <2>3, <2>7
  <2>9. QED
    BY <1>4, <2>8
<1>5. QED
  BY <1>2, <1>3, <1>4

-----------------------------------------------------------------------------
(* The theorems.                                                           *)

\* Demotions, deletions and toggles in any order and interleaving leave an active
\* admin, but for a request that another one overtook between its admission and
\* its commit.
THEOREM AccountsLastAdminStays == Spec => LastAdminStays
<1>1. Inv /\ [Next]_vars =>
        [ActiveAdmins # {} /\ ActiveAdmins' = {} =>
            \E r \in Requests : Commits(r) /\ overtaken[r]]_vars
  <2> SUFFICES ASSUME Inv, [Next]_vars, ActiveAdmins # {}, ActiveAdmins' = {}
               PROVE  \E r \in Requests : Commits(r) /\ overtaken[r]
    OBVIOUS
  <2>1. ~UNCHANGED <<users, keys>>
    BY DEF ActiveAdmins, Ids
  <2>2. PICK r \in Requests : Commit(r) /\ Commits(r)
    BY <2>1, OnlyCommits DEF Inv
  <2>3. overtaken[r]
    BY <2>2, AdminStays
  <2>4. QED
    BY <2>2, <2>3
<1>2. QED
  BY <1>1, AccountsInv, PTL DEF Spec, LastAdminStays

\* Nobody who has a second factor is left without one but by a reset or by a
\* request that another one overtook.
THEOREM AccountsLastFactorStays == Spec => LastFactorStays
<1>1. Inv /\ [Next]_vars =>
        [\A u \in Ids \cap Ids' : HasMfa(u) /\ ~HasMfa(u)' =>
            \E r \in Requests : Commits(r) /\ (overtaken[r] \/ req[r].op = "reset_mfa")]_vars
  <2> SUFFICES ASSUME Inv, [Next]_vars, NEW u \in Ids \cap Ids', HasMfa(u), ~HasMfa(u)'
               PROVE  \E r \in Requests :
                         Commits(r) /\ (overtaken[r] \/ req[r].op = "reset_mfa")
    OBVIOUS
  <2>1. ~UNCHANGED <<users, keys>>
    BY DEF HasMfa, KeysOf
  <2>2. PICK r \in Requests : Commit(r) /\ Commits(r)
    BY <2>1, OnlyCommits DEF Inv
  <2>3. overtaken[r] \/ req[r].op = "reset_mfa"
    BY <2>2, FactorStays
  <2>4. QED
    BY <2>2, <2>3
<1>2. QED
  BY <1>1, AccountsInv, PTL DEF Spec, LastFactorStays

\* TOTP becomes confirmed only where there is a secret, and a confirmed user's
\* secret goes only together with the confirmation, unless a request was
\* overtaken.
THEOREM AccountsConfirmedHasSecret == Spec => ConfirmedHasSecret
<1>1. Inv /\ [Next]_vars =>
        [\A u \in Ids' : users'[u].confirmed /\ ~users'[u].secret =>
            \/ u \in Ids /\ users[u].confirmed /\ ~users[u].secret
            \/ \E r \in Requests : Commits(r) /\ overtaken[r]]_vars
  <2> SUFFICES ASSUME Inv, [Next]_vars, NEW u \in Ids', users'[u].confirmed, ~users'[u].secret,
                      ~(u \in Ids /\ users[u].confirmed /\ ~users[u].secret)
               PROVE  \E r \in Requests : Commits(r) /\ overtaken[r]
    OBVIOUS
  <2>1. ~UNCHANGED <<users, keys>>
    BY DEF Ids
  <2>2. PICK r \in Requests : Commit(r) /\ Commits(r)
    BY <2>1, OnlyCommits DEF Inv
  <2>3. overtaken[r]
    BY <2>2, SecretStays
  <2>4. QED
    BY <2>2, <2>3
<1>2. QED
  BY <1>1, AccountsInv, PTL DEF Spec, ConfirmedHasSecret
=============================================================================
