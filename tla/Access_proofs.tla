---------------------------- MODULE Access_proofs ----------------------------
(***************************************************************************)
(* Proofs about what is issued to people, for any names and addresses, any *)
(* number of requests and restores, and any restart.                       *)
(***************************************************************************)
EXTENDS Access, WellFoundedInduction, TLAPS

Rows ==
    [user : Nat, secret : Nat, scope : Scopes, revoked : BOOLEAN, used : BOOLEAN,
     who : Names, outgrown : BOOLEAN, late : BOOLEAN]
UserRows == [name : Names, role : {"operator", "admin"}, disabled : BOOLEAN]
Issued == [user : Nat, who : Names, late : BOOLEAN]
Entries == {"create", "call", "revoke"} \X Nat

Logins == [do : {"login"}, user : Nat, who : Names, late : BOOLEAN]
Mints ==
    [do : {"mint"}, user : Nat, who : Names, scope : Scopes, outgrown : BOOLEAN, late : BOOLEAN]
Revocations == [do : {"revoke"}, target : Nat, secret : Nat, late : BOOLEAN]
Calls ==
    [do : {"call"}, token : Nat, read : Rows, need : Scopes, target : Nat, aim : Rows,
     late : BOOLEAN]
Asks == Logins \cup Mints \cup Revocations \cup Calls

Few(S) == \E n \in Nat : S \subseteq 1 .. n
Table(f, R) == f \in [DOMAIN f -> R] /\ Few(DOMAIN f)

\* The types of all variables; ids in use are bounded.
TypeOK ==
    /\ Table(users, UserRows)
    /\ sessions \subseteq Issued
    /\ Table(tokens, Rows)
    /\ log \subseteq Entries
    /\ backup # NoBackup =>
          /\ Table(backup.users, UserRows) /\ Table(backup.tokens, Rows)
          /\ backup.log \subseteq Entries
    /\ ask \in Asks \cup {NoAsk}
    /\ generated \in Nat
    /\ past \in [deleted : SUBSET Nat, opened : BOOLEAN]
-----------------------------------------------------------------------------
(* Tables.                                                                 *)

\* A nonempty set of natural numbers up to n has a greatest element: the least
\* of its upper bounds, by well-foundedness of <.
LEMMA MaxExists ==
    ASSUME NEW n \in Nat, NEW S, S \subseteq 0..n, S # {}
    PROVE  \E m \in S : \A k \in S : k <= m
<1> DEFINE R == OpToRel(<, Nat)
           Above == {b \in Nat : \A k \in S : k <= b}
<1>1. \A x, y \in Nat : x < y => <<x, y>> \in R
  BY DEF OpToRel
<1>2. IsWellFoundedOn(R, Nat)
  BY NatLessThanWellFounded
<1> HIDE DEF R
<1>3. n \in Above /\ Above \subseteq Nat
  OBVIOUS
<1>4. PICK m \in Above : \A b \in Above : <<b, m>> \notin R
  <2> HIDE DEF Above
  <2>1. QED
    BY <1>2, <1>3, WFMin
<1>5. \A b \in Above : ~(b < m)
  BY <1>1, <1>4
<1>6. m \in S
  <2>1. SUFFICES ASSUME m \notin S PROVE FALSE
    OBVIOUS
  <2>2. m \in Nat /\ \A k \in S : k \in Nat /\ k <= m /\ k # m
    BY <2>1
  <2>3. m # 0
    <3>1. PICK k \in S : k \in Nat /\ k <= m /\ k # m
      BY <2>2
    <3>2. QED
      BY <3>1, <2>2
  <2>4. m - 1 \in Nat /\ m - 1 < m /\ \A k \in S : k <= m - 1
    <3>1. \A k \in Nat : k <= m /\ k # m => k <= m - 1
      BY <2>2
    <3>2. m - 1 \in Nat /\ m - 1 < m
      BY <2>2, <2>3
    <3>3. QED
      BY <2>2, <3>1, <3>2
  <2>5. QED
    BY <1>5, <2>4
<1>7. QED
  BY <1>6

\* A new id is larger than all ids in use.
LEMMA NextIdFacts ==
    ASSUME NEW S, Few(S)
    PROVE  /\ NextId(S) \in Nat \ {0} /\ NextId(S) \notin S
           /\ Few(S \cup {NextId(S)})
<1>1. PICK n \in Nat : S \subseteq 1 .. n
  BY DEF Few
<1>2. NextId(S) \in Nat \ {0} /\ \A j \in S : j < NextId(S)
  <2>1. CASE S = {}
    BY <2>1 DEF NextId
  <2>2. CASE S # {}
    <3> DEFINE m == CHOOSE i \in S : \A j \in S : j <= i
    <3>1. m \in S /\ \A j \in S : j <= m
      <4>1. S \subseteq 0 .. n
        BY <1>1
      <4>2. \E i \in S : \A j \in S : j <= i
        BY <2>2, <4>1, MaxExists
      <4>3. QED
        BY <4>2
    <3>2. NextId(S) = 1 + m
      BY <2>2 DEF NextId
    <3> HIDE DEF m
    <3>3. QED
      BY <1>1, <3>1, <3>2
  <2>3. QED
    BY <2>1, <2>2
<1>3. NextId(S) \notin S
  BY <1>1, <1>2
<1>4. Few(S \cup {NextId(S)})
  <2> DEFINE x == NextId(S)
  <2> HIDE DEF x
  <2>1. x \in Nat /\ 1 <= x /\ \A j \in S : j < x
    BY <1>2 DEF x
  <2>2. S \cup {x} \subseteq 1 .. x
    BY <1>1, <2>1
  <2>3. QED
    BY <2>1, <2>2 DEF Few, x
<1>5. QED
  BY <1>2, <1>3, <1>4

\* Inserting adds one row, with a new id, and leaves the others.
LEMMA WithFacts ==
    ASSUME NEW f, NEW R, Table(f, R), NEW row \in R
    PROVE  /\ Table(With(f, row), R)
           /\ NextId(DOMAIN f) \notin DOMAIN f
           /\ DOMAIN With(f, row) = DOMAIN f \cup {NextId(DOMAIN f)}
           /\ With(f, row)[NextId(DOMAIN f)] = row
           /\ \A i \in DOMAIN f : With(f, row)[i] = f[i]
<1> DEFINE new == NextId(DOMAIN f)
<1>1. new \notin DOMAIN f /\ Few(DOMAIN f \cup {new})
  BY NextIdFacts DEF Table
<1> HIDE DEF new
<1>2. With(f, row) = [i \in DOMAIN f \cup {new} |-> IF i = new THEN row ELSE f[i]]
  BY DEF With, new
<1>3. \A i \in DOMAIN f : f[i] \in R
  BY DEF Table
<1>4. DOMAIN With(f, row) = DOMAIN f \cup {new}
  BY <1>2
<1>5. \A i \in DOMAIN f \cup {new} : With(f, row)[i] = IF i = new THEN row ELSE f[i]
  BY <1>2
<1>6. With(f, row) \in [DOMAIN f \cup {new} -> R]
  BY <1>2, <1>3
<1>7. QED
  BY <1>1, <1>4, <1>5, <1>6 DEF new, Table

\* Rows that go leave a table.
LEMMA FewerFacts ==
    ASSUME NEW f, NEW R, Table(f, R), NEW S
    PROVE  Table([i \in DOMAIN f \ S |-> f[i]], R)
<1>1. Few(DOMAIN f \ S)
  BY DEF Table, Few
<1>2. QED
  BY <1>1 DEF Table

\* Changing a row leaves the others.
LEMMA ExceptFacts ==
    ASSUME NEW f, NEW R, Table(f, R), NEW i \in DOMAIN f, NEW row \in R
    PROVE  /\ Table([f EXCEPT ![i] = row], R)
           /\ DOMAIN [f EXCEPT ![i] = row] = DOMAIN f
           /\ [f EXCEPT ![i] = row][i] = row
           /\ \A j \in DOMAIN f \ {i} : [f EXCEPT ![i] = row][j] = f[j]
BY DEF Table

\* Rows of a table are of its type and have numbers.
LEMMA RowFacts ==
    ASSUME NEW f, NEW R, Table(f, R), NEW i \in DOMAIN f
    PROVE  f[i] \in R /\ i \in Nat
BY DEF Table, Few
-----------------------------------------------------------------------------
(* What requests write.                                                    *)

\* What may be asked for.
LEMMA AskedForms ==
    ASSUME TypeOK, NEW a \in Asked
    PROVE  \/ \E u \in Ids : a = Login(u)
           \/ \E u \in SignedIn : \E s \in MayMint(users[u].role) : a = Mint(u, s)
           \/ \E t \in Tokens : a = Revoke(t)
           \/ \E t \in Tokens, need \in Scopes, x \in Tokens : a = Call(t, need, x)
<1>1. Accepted \subseteq Tokens
  BY DEF Accepted
<1>2. "read" \in Scopes /\ "write" \in Scopes /\ "admin" \in Scopes
  BY DEF Scopes, Rank
<1>3. \/ a \in {Login(u) : u \in {v \in Ids : ~users[v].disabled}}
      \/ \E u \in SignedIn : a \in {Mint(u, s) : s \in MayMint(users[u].role)}
      \/ a \in {Revoke(t) : t \in {x \in Tokens : tokens[x].user \in SignedIn /\ ~tokens[x].revoked}}
      \/ \E t \in Accepted :
            a \in {Call(t, "read", t), Call(t, "admin", t)} \cup {Call(t, "write", x) : x \in Tokens}
  BY DEF Asked
<1>4. CASE a \in {Login(u) : u \in {v \in Ids : ~users[v].disabled}}
  BY <1>4
<1>5. CASE \E u \in SignedIn : a \in {Mint(u, s) : s \in MayMint(users[u].role)}
  BY <1>5
<1>6. CASE a \in {Revoke(t) : t \in {x \in Tokens : tokens[x].user \in SignedIn /\ ~tokens[x].revoked}}
  BY <1>6
<1>7. CASE \E t \in Accepted :
            a \in {Call(t, "read", t), Call(t, "admin", t)} \cup {Call(t, "write", x) : x \in Tokens}
  BY <1>1, <1>2, <1>7
<1>8. QED
  BY <1>3, <1>4, <1>5, <1>6, <1>7

\* What is asked for is well formed, and what it is about is there.
LEMMA AskedFacts ==
    ASSUME TypeOK, NEW a \in Asked
    PROVE  a \in Asks /\ StillThere(a)
<1>1. SignedIn \subseteq Ids /\ Accepted \subseteq Tokens /\ Ids \subseteq Nat /\ Tokens \subseteq Nat
  BY DEF SignedIn, Accepted, TypeOK, Table, Few, Ids, Tokens
<1>2. \A u \in Ids : users[u] \in UserRows
  BY DEF TypeOK, Table, Ids
<1>3. \A t \in Tokens : tokens[t] \in Rows
  BY DEF TypeOK, Table, Tokens
<1>4. CASE \E u \in Ids : a = Login(u)
  <2>1. PICK u \in Ids : a = Login(u)
    BY <1>4
  <2>2. a \in Logins
    BY <1>1, <1>2, <2>1 DEF Login, Logins, UserRows
  <2>3. QED
    BY <2>2 DEF Logins, Asks, StillThere
<1>5. CASE \E u \in SignedIn : \E s \in MayMint(users[u].role) : a = Mint(u, s)
  <2> PICK u \in SignedIn : \E s \in MayMint(users[u].role) : a = Mint(u, s)
    BY <1>5
  <2>1. PICK s \in MayMint(users[u].role) : a = Mint(u, s)
    OBVIOUS
  <2>2. s \in Scopes
    BY DEF MayMint
  <2>3. a \in Mints
    BY <1>1, <1>2, <2>1, <2>2 DEF Mint, Mints, UserRows
  <2>4. QED
    BY <2>3 DEF Mints, Asks, StillThere
<1>6. CASE \E t \in Tokens : a = Revoke(t)
  <2>1. PICK t \in Tokens : a = Revoke(t)
    BY <1>6
  <2>2. a \in Revocations /\ a.target = t
    BY <1>1, <1>3, <2>1 DEF Revoke, Revocations, Rows
  <2>3. QED
    BY <2>2 DEF Revocations, Asks, StillThere
<1>7. CASE \E t \in Tokens, need \in Scopes, x \in Tokens : a = Call(t, need, x)
  <2>1. PICK t \in Tokens, need \in Scopes, x \in Tokens : a = Call(t, need, x)
    BY <1>7
  <2>2. a \in Calls /\ a.token = t /\ a.target = x
    BY <1>1, <1>3, <2>1 DEF Call, Calls
  <2>3. QED
    BY <2>2 DEF Calls, Asks, StillThere
<1>8. QED
  BY <1>4, <1>5, <1>6, <1>7, AskedForms

\* How a row of the tokens table may change but for a restore.
Marked(x, y) ==
    /\ y \in Rows
    /\ y.user = x.user /\ y.secret = x.secret /\ y.scope = x.scope /\ y.who = x.who
    /\ (x.revoked => y.revoked) /\ (x.late => y.late) /\ (x.outgrown => y.outgrown)

\* Using and revoking mark the row.
LEMMA MarkFacts ==
    ASSUME TypeOK, NEW a \in Asks
    PROVE  /\ a \in Calls /\ a.token \in Tokens =>
                 Marked(tokens[a.token], Used(a)) /\ Used(a).used
                 /\ (Used(a).revoked <=> tokens[a.token].revoked)
                 /\ (Used(a).late <=> tokens[a.token].late \/ a.late)
                 /\ (Used(a).outgrown <=> tokens[a.token].outgrown)
           /\ a \in Calls \cup Revocations => \A row \in Rows :
                 /\ Marked(row, Revoked(row, a)) /\ Revoked(row, a).revoked
                 /\ (Revoked(row, a).used <=> row.used)
                 /\ (Revoked(row, a).late <=> row.late \/ a.late)
                 /\ (Revoked(row, a).outgrown <=> row.outgrown)
<1>1. ASSUME a \in Calls, a.token \in Tokens
      PROVE  Marked(tokens[a.token], Used(a)) /\ Used(a).used
             /\ (Used(a).revoked <=> tokens[a.token].revoked)
             /\ (Used(a).late <=> tokens[a.token].late \/ a.late)
             /\ (Used(a).outgrown <=> tokens[a.token].outgrown)
  <2>1. tokens[a.token] \in Rows /\ a.late \in BOOLEAN
    BY <1>1, RowFacts DEF TypeOK, Tokens, Calls
  <2>2. QED
    BY <2>1 DEF Used, Marked, Rows
<1>2. ASSUME a \in Calls \cup Revocations, NEW row \in Rows
      PROVE  /\ Marked(row, Revoked(row, a)) /\ Revoked(row, a).revoked
             /\ (Revoked(row, a).used <=> row.used)
             /\ (Revoked(row, a).late <=> row.late \/ a.late)
             /\ (Revoked(row, a).outgrown <=> row.outgrown)
  <2>1. a.late \in BOOLEAN
    BY <1>2 DEF Calls, Revocations
  <2>2. QED
    BY <2>1 DEF Revoked, Marked, Rows
<1>3. QED
  BY <1>1, <1>2

\* The tokens that a request uses and revokes, and what it tells the log.
Uses(a) == IF a \in Calls THEN {a.token} ELSE {}
Ends(a) == IF a \in Revocations \/ (a \in Calls /\ Revokes(a)) THEN {a.target} ELSE {}

Told(a) ==
    {<<"create", generated + 1>> : i \in {j \in {a} : j \in Mints}}
    \cup {<<"call", i.read.secret>> : i \in {j \in {a} : j \in Calls}}
    \cup {<<"revoke", i.secret>> : i \in {j \in {a} : j \in Revocations}}
    \cup {<<"revoke", i.aim.secret>> : i \in {j \in {a} : j \in Calls /\ Revokes(j)}}

Minted(a) ==
    [user |-> a.user, secret |-> generated + 1, scope |-> a.scope, revoked |-> FALSE,
     used |-> FALSE, who |-> a.who, outgrown |-> a.outgrown, late |-> a.late]

\* What a request does to a row that is there already.
Touched(a, t) ==
    /\ Marked(tokens[t], tokens'[t])
    /\ tokens'[t].used <=> tokens[t].used \/ t \in Uses(a)
    /\ tokens'[t].revoked <=> tokens[t].revoked \/ t \in Ends(a)
    /\ tokens'[t].late <=> tokens[t].late \/ (a.late /\ t \in Uses(a) \cup Ends(a))
    /\ tokens'[t].outgrown <=> tokens[t].outgrown

\* What a request does to all tables.
Written(a) ==
    /\ users' = users /\ allow' = allow
    /\ sessions' = sessions \cup
           {[user |-> i.user, who |-> i.who, late |-> i.late] : i \in {j \in {a} : j \in Logins}}
    /\ Table(tokens', Rows)
    /\ \A t \in Tokens : t \in Tokens' /\ Touched(a, t)
    /\ Tokens' \subseteq Tokens \cup {NextId(Tokens)}
    /\ \A t \in Tokens' \ Tokens : a \in Mints /\ tokens'[t] = Minted(a)
    /\ log' = log \cup Told(a)
    /\ generated' = IF a \in Mints THEN generated + 1 ELSE generated

\* A row that nobody writes is as it was.
LEMMA SameRow ==
    ASSUME TypeOK, NEW t \in Tokens
    PROVE  Marked(tokens[t], tokens[t])
BY RowFacts DEF TypeOK, Tokens, Marked

\* Requests are of one kind each.
LEMMA Kinds ==
    /\ \A a \in Logins : a.do = "login" /\ a \notin Mints \cup Revocations \cup Calls
    /\ \A a \in Mints : a.do = "mint" /\ a \notin Logins \cup Revocations \cup Calls
    /\ \A a \in Revocations : a.do = "revoke" /\ a \notin Logins \cup Mints \cup Calls
    /\ \A a \in Calls : a.do = "call" /\ a \notin Logins \cup Mints \cup Revocations
    /\ NoAsk \notin Asks
<1>1. /\ \A a \in Logins : a.do = "login"
      /\ \A a \in Mints : a.do = "mint"
      /\ \A a \in Revocations : a.do = "revoke"
      /\ \A a \in Calls : a.do = "call"
      /\ NoAsk.do = "none"
  BY DEF Logins, Mints, Revocations, Calls, NoAsk
<1>2. QED
  BY <1>1 DEF Asks

LEMMA LoginWritten ==
    ASSUME TypeOK, NEW a \in Logins, Write(a)
    PROVE  Written(a)
<1>1. a.do = "login" /\ a \notin Mints \cup Revocations \cup Calls
  BY Kinds
<1>2. /\ sessions' = sessions \cup {[user |-> a.user, who |-> a.who, late |-> a.late]}
      /\ users' = users /\ tokens' = tokens /\ allow' = allow /\ log' = log
      /\ generated' = generated
  BY <1>1 DEF Write, tables
<1>3. Uses(a) = {} /\ Ends(a) = {} /\ Told(a) = {}
  BY <1>1 DEF Uses, Ends, Told
<1>4. \A t \in Tokens : t \in Tokens' /\ Touched(a, t)
  BY <1>2, <1>3, SameRow DEF Touched, Tokens
<1>5. QED
  BY <1>1, <1>2, <1>3, <1>4 DEF Written, TypeOK, Tokens

LEMMA MintWritten ==
    ASSUME TypeOK, NEW a \in Mints, Write(a)
    PROVE  Written(a)
<1>1. a.do = "mint" /\ a \notin Logins \cup Revocations \cup Calls
  BY Kinds
<1>2. /\ generated' = generated + 1
      /\ tokens' = With(tokens, Minted(a))
      /\ log' = log \cup {<<"create", generated + 1>>}
      /\ users' = users /\ allow' = allow /\ sessions' = sessions
  BY <1>1 DEF Write, Minted
<1>3. Uses(a) = {} /\ Ends(a) = {} /\ Told(a) = {<<"create", generated + 1>>}
  BY <1>1 DEF Uses, Ends, Told
<1>4. Minted(a) \in Rows
  BY DEF Minted, Mints, Rows, TypeOK
<1>5. /\ Table(tokens', Rows) /\ Tokens' = Tokens \cup {NextId(Tokens)}
      /\ tokens'[NextId(Tokens)] = Minted(a)
      /\ \A t \in Tokens : tokens'[t] = tokens[t]
  <2> DEFINE row == Minted(a)
  <2> HIDE DEF row
  <2>1. Table(tokens, Rows) /\ row \in Rows /\ tokens' = With(tokens, row)
    BY <1>2, <1>4 DEF TypeOK, row
  <2>2. /\ Table(With(tokens, row), Rows)
        /\ DOMAIN With(tokens, row) = Tokens \cup {NextId(Tokens)}
        /\ With(tokens, row)[NextId(Tokens)] = row
        /\ \A t \in Tokens : With(tokens, row)[t] = tokens[t]
    <3> DEFINE f == tokens
    <3> HIDE DEF f
    <3>1. Table(f, Rows)
      BY <2>1 DEF f
    <3>2. /\ Table(With(f, row), Rows)
          /\ DOMAIN With(f, row) = DOMAIN f \cup {NextId(DOMAIN f)}
          /\ With(f, row)[NextId(DOMAIN f)] = row
          /\ \A i \in DOMAIN f : With(f, row)[i] = f[i]
      BY <2>1, <3>1, WithFacts
    <3>3. QED
      BY <3>2 DEF f, Tokens
  <2>3. QED
    BY <2>1, <2>2 DEF Tokens, row
<1>6. \A t \in Tokens : t \in Tokens' /\ Touched(a, t)
  BY <1>3, <1>5, SameRow DEF Touched
<1>7. QED
  BY <1>1, <1>2, <1>3, <1>5, <1>6 DEF Written, TypeOK

LEMMA RevokeWritten ==
    ASSUME TypeOK, NEW a \in Revocations, StillThere(a), Write(a)
    PROVE  Written(a)
<1>1. a.do = "revoke" /\ a \notin Logins \cup Mints \cup Calls
  BY Kinds
<1>2. /\ tokens' = [tokens EXCEPT ![a.target] = Revoked(tokens[a.target], a)]
      /\ log' = log \cup {<<"revoke", a.secret>>}
      /\ users' = users /\ allow' = allow /\ sessions' = sessions
      /\ generated' = generated
  BY <1>1 DEF Write
<1>3. Uses(a) = {} /\ Ends(a) = {a.target} /\ Told(a) = {<<"revoke", a.secret>>}
  BY <1>1 DEF Uses, Ends, Told
<1>4. a.target \in Tokens
  BY <1>1 DEF StillThere
<1>5. LET row == Revoked(tokens[a.target], a) IN
      /\ Marked(tokens[a.target], row) /\ row.revoked
      /\ (row.used <=> tokens[a.target].used)
      /\ (row.late <=> tokens[a.target].late \/ a.late)
      /\ (row.outgrown <=> tokens[a.target].outgrown)
  BY <1>4, MarkFacts, RowFacts DEF Asks, TypeOK, Tokens
<1>6. Revoked(tokens[a.target], a) \in Rows
  BY <1>5 DEF Marked
<1>7. /\ Table(tokens', Rows) /\ Tokens' = Tokens
      /\ tokens'[a.target] = Revoked(tokens[a.target], a)
      /\ \A t \in Tokens \ {a.target} : tokens'[t] = tokens[t]
  <2> DEFINE row == Revoked(tokens[a.target], a)
  <2> HIDE DEF row
  <2>1. /\ Table(tokens, Rows) /\ a.target \in DOMAIN tokens /\ row \in Rows
        /\ tokens' = [tokens EXCEPT ![a.target] = row]
    BY <1>2, <1>4, <1>6 DEF TypeOK, Tokens, row
  <2>2. /\ Table([tokens EXCEPT ![a.target] = row], Rows)
        /\ DOMAIN [tokens EXCEPT ![a.target] = row] = DOMAIN tokens
        /\ [tokens EXCEPT ![a.target] = row][a.target] = row
        /\ \A j \in DOMAIN tokens \ {a.target} :
              [tokens EXCEPT ![a.target] = row][j] = tokens[j]
    BY <2>1, ExceptFacts
  <2>3. QED
    BY <2>1, <2>2 DEF Tokens, row
<1>8. \A t \in Tokens : t \in Tokens' /\ Touched(a, t)
  <2>1. ASSUME NEW t \in Tokens \ {a.target} PROVE Touched(a, t)
    BY <1>3, <1>7, SameRow DEF Touched
  <2>2. Touched(a, a.target)
    BY <1>3, <1>5, <1>7 DEF Touched
  <2>3. QED
    BY <1>7, <2>1, <2>2
<1>9. QED
  BY <1>1, <1>2, <1>3, <1>7, <1>8 DEF Written, TypeOK

\* A call marks its own token, and the one it revokes.
LEMMA CallWritten ==
    ASSUME TypeOK, NEW a \in Calls, StillThere(a), Write(a)
    PROVE  Written(a)
<1> DEFINE called == [tokens EXCEPT ![a.token] = Used(a)]
           ended == [called EXCEPT ![a.target] = Revoked(called[a.target], a)]
<1>1. a.do = "call" /\ a \notin Logins \cup Mints \cup Revocations
  BY Kinds
<1>2. /\ Served(a)
      /\ tokens' = IF Revokes(a) THEN ended ELSE called
      /\ log' = log \cup {<<"call", a.read.secret>>}
                    \cup (IF Revokes(a) THEN {<<"revoke", a.aim.secret>>} ELSE {})
      /\ users' = users /\ allow' = allow /\ sessions' = sessions
      /\ generated' = generated
  BY <1>1 DEF Write
<1>3. Uses(a) = {a.token} /\ Ends(a) = IF Revokes(a) THEN {a.target} ELSE {}
  BY <1>1 DEF Uses, Ends
<1>4. Told(a) = {<<"call", a.read.secret>>}
                    \cup (IF Revokes(a) THEN {<<"revoke", a.aim.secret>>} ELSE {})
  BY <1>1 DEF Told
<1>5. a.token \in Tokens /\ (Revokes(a) => a.target \in Tokens)
  BY <1>1 DEF StillThere
<1>6. /\ Marked(tokens[a.token], Used(a)) /\ Used(a).used
      /\ (Used(a).revoked <=> tokens[a.token].revoked)
      /\ (Used(a).late <=> tokens[a.token].late \/ a.late)
      /\ (Used(a).outgrown <=> tokens[a.token].outgrown)
  BY <1>5, MarkFacts DEF Asks
<1>7. Used(a) \in Rows
  BY <1>6 DEF Marked
<1>8. /\ Table(called, Rows) /\ DOMAIN called = Tokens
      /\ called[a.token] = Used(a)
      /\ \A t \in Tokens \ {a.token} : called[t] = tokens[t]
  <2> DEFINE row == Used(a)
  <2> HIDE DEF row
  <2>1. Table(tokens, Rows) /\ a.token \in DOMAIN tokens /\ row \in Rows
    BY <1>5, <1>7 DEF TypeOK, Tokens, row
  <2>2. /\ Table([tokens EXCEPT ![a.token] = row], Rows)
        /\ DOMAIN [tokens EXCEPT ![a.token] = row] = DOMAIN tokens
        /\ [tokens EXCEPT ![a.token] = row][a.token] = row
        /\ \A j \in DOMAIN tokens \ {a.token} : [tokens EXCEPT ![a.token] = row][j] = tokens[j]
    BY <2>1, ExceptFacts
  <2>3. QED
    BY <2>2 DEF Tokens, row
<1> HIDE DEF called
<1>9. \A t \in Tokens :
         /\ called[t] \in Rows /\ Marked(tokens[t], called[t])
         /\ called[t].used <=> tokens[t].used \/ t = a.token
         /\ called[t].revoked <=> tokens[t].revoked
         /\ called[t].late <=> tokens[t].late \/ (a.late /\ t = a.token)
         /\ called[t].outgrown <=> tokens[t].outgrown
  <2>1. ASSUME NEW t \in Tokens \ {a.token}
        PROVE  Marked(tokens[t], called[t]) /\ called[t] = tokens[t]
    BY <1>8, SameRow
  <2>2. QED
    BY <1>6, <1>8, <2>1 DEF Marked
<1>10. CASE ~Revokes(a)
  <2>1. tokens' = called
    BY <1>2, <1>10
  <2>2. \A t \in Tokens : t \in Tokens' /\ Touched(a, t)
    BY <1>3, <1>8, <1>9, <1>10, <2>1 DEF Touched, Tokens
  <2>3. Tokens' = Tokens /\ Table(tokens', Rows)
    BY <1>8, <2>1 DEF Tokens
  <2>4. QED
    BY <1>1, <1>2, <1>4, <2>2, <2>3 DEF Written
<1>11. CASE Revokes(a)
  <2> DEFINE row == Revoked(called[a.target], a)
  <2>1. /\ Marked(called[a.target], row) /\ row.revoked
        /\ (row.used <=> called[a.target].used)
        /\ (row.late <=> called[a.target].late \/ a.late)
        /\ (row.outgrown <=> called[a.target].outgrown)
    BY <1>5, <1>9, <1>11, MarkFacts DEF Asks
  <2> HIDE DEF row
  <2>2. row \in Rows
    BY <2>1 DEF Marked
  <2>3. /\ Table(called, Rows) /\ a.target \in DOMAIN called
        /\ tokens' = [called EXCEPT ![a.target] = row]
    BY <1>2, <1>5, <1>8, <1>11 DEF row
  <2>4. /\ Table([called EXCEPT ![a.target] = row], Rows)
        /\ DOMAIN [called EXCEPT ![a.target] = row] = DOMAIN called
        /\ [called EXCEPT ![a.target] = row][a.target] = row
        /\ \A j \in DOMAIN called \ {a.target} : [called EXCEPT ![a.target] = row][j] = called[j]
    BY <2>2, <2>3, ExceptFacts
  <2>5. /\ Table(tokens', Rows) /\ Tokens' = Tokens
        /\ tokens'[a.target] = row
        /\ \A t \in Tokens \ {a.target} : tokens'[t] = called[t]
    BY <1>8, <2>3, <2>4 DEF Tokens
  <2>6. \A t \in Tokens : t \in Tokens' /\ Touched(a, t)
    <3>1. ASSUME NEW t \in Tokens \ {a.target} PROVE Touched(a, t)
      BY <1>3, <1>9, <1>11, <2>5 DEF Touched
    <3>2. Touched(a, a.target)
      BY <1>3, <1>5, <1>9, <1>11, <2>1, <2>5 DEF Touched, Marked
    <3>3. QED
      BY <2>5, <3>1, <3>2
  <2>7. QED
    BY <1>1, <1>2, <1>4, <2>5, <2>6 DEF Written
<1>12. QED
  BY <1>10, <1>11

\* What a request writes that is asked for.
LEMMA WriteFacts ==
    ASSUME TypeOK, NEW a \in Asks, StillThere(a), Write(a)
    PROVE  Written(a)
BY LoginWritten, MintWritten, RevokeWritten, CallWritten DEF Asks
-----------------------------------------------------------------------------
(* Types.                                                                  *)

LEMMA TypeInit == Init => TypeOK
<1> SUFFICES ASSUME Init PROVE TypeOK
  OBVIOUS
<1>1. Few({}) /\ Few(1 .. 2) /\ Few(1 .. 1)
  <2>1. {} \subseteq 1 .. 0 /\ 1 .. 2 \subseteq 1 .. 2 /\ 1 .. 1 \subseteq 1 .. 1
    OBVIOUS
  <2>2. QED
    BY <2>1 DEF Few
<1>2. \A n \in Names, r \in {"operator", "admin"} : NewUser(n, r) \in UserRows
  BY DEF NewUser, UserRows
<1>3. tokens = <<>> /\ log = {} /\ ask = NoAsk /\ generated = 0
  BY DEF Init
<1>4. past \in [deleted : SUBSET Nat, opened : BOOLEAN]
  <2>1. \A b \in BOOLEAN :
           [deleted |-> {}, opened |-> b] \in [deleted : SUBSET Nat, opened : BOOLEAN]
    OBVIOUS
  <2>2. \E b \in BOOLEAN : past = [deleted |-> {}, opened |-> b]
    BY Zenon DEF Init
  <2>3. QED
    BY <2>1, <2>2
<1>5. \A R : Table(<<>>, R)
  BY <1>1 DEF Table
<1>6. CASE users = <<>> /\ sessions = {} /\ backup = NoBackup
  BY <1>3, <1>4, <1>5, <1>6 DEF TypeOK
<1>7. CASE /\ backup = [users |-> <<NewUser(Bootstrap, "admin")>>, tokens |-> <<>>,
                        allow |-> Seeded, log |-> {}]
           /\ \E n \in Names \ {Bootstrap}, role \in {"operator", "admin"} :
                /\ users = <<NewUser(Bootstrap, "admin"), NewUser(n, role)>>
                /\ sessions = {[user |-> 1, who |-> Bootstrap, late |-> FALSE],
                               [user |-> 2, who |-> n, late |-> FALSE]}
  <2>1. PICK n \in Names, role \in {"operator", "admin"} :
                /\ users = <<NewUser(Bootstrap, "admin"), NewUser(n, role)>>
                /\ sessions = {[user |-> 1, who |-> Bootstrap, late |-> FALSE],
                               [user |-> 2, who |-> n, late |-> FALSE]}
    BY <1>7
  <2>2. NewUser(Bootstrap, "admin") \in UserRows /\ NewUser(n, role) \in UserRows
    BY <1>2, AccessAssumption
  <2>3. Table(users, UserRows)
    BY <1>1, <2>1, <2>2 DEF Table
  <2>4. Table(<<NewUser(Bootstrap, "admin")>>, UserRows)
    BY <1>1, <2>2 DEF Table
  <2>5. sessions \subseteq Issued
    BY <2>1, AccessAssumption DEF Issued
  <2>6. /\ backup.users = <<NewUser(Bootstrap, "admin")>> /\ backup.tokens = <<>>
        /\ backup.log = {}
    BY <1>7
  <2>7. QED
    BY <1>3, <1>4, <1>5, <2>3, <2>4, <2>5, <2>6 DEF TypeOK
<1>8. QED
  BY <1>6, <1>7 DEF Init

\* What a request writes is well typed.
LEMMA WrittenTypes ==
    ASSUME TypeOK, NEW a \in Asks, Written(a)
    PROVE  /\ Table(users', UserRows) /\ sessions' \subseteq Issued
           /\ Table(tokens', Rows) /\ log' \subseteq Entries /\ generated' \in Nat
<1>1. sessions' \subseteq Issued
  <2>1. \A i \in Logins : [user |-> i.user, who |-> i.who, late |-> i.late] \in Issued
    BY DEF Logins, Issued
  <2>2. QED
    BY <2>1 DEF Written, TypeOK
<1>2. log' \subseteq Entries
  <2>1. \A i \in Calls : i.read.secret \in Nat /\ i.aim.secret \in Nat
    BY DEF Calls, Rows
  <2>2. \A i \in Revocations : i.secret \in Nat
    BY DEF Revocations
  <2>3. generated + 1 \in Nat
    BY DEF TypeOK
  <2>4. \A kind \in {"create", "call", "revoke"}, n \in Nat : <<kind, n>> \in Entries
    BY DEF Entries
  <2>5. Told(a) \subseteq Entries
    BY <2>1, <2>2, <2>3, <2>4 DEF Told
  <2>6. QED
    BY <2>5 DEF Written, TypeOK
<1>3. generated' \in Nat
  BY DEF Written, TypeOK
<1>4. QED
  BY <1>1, <1>2, <1>3 DEF Written, TypeOK

LEMMA ServeTypes == TypeOK /\ Serve => TypeOK'
<1> SUFFICES ASSUME TypeOK, Serve PROVE TypeOK'
  OBVIOUS
<1>1. PICK a \in Asked : Write(a)
  BY DEF Serve
<1>2. a \in Asks /\ Written(a)
  BY <1>1, AskedFacts, WriteFacts
<1>3. backup' = backup /\ ask' = ask /\ past' = past
  BY DEF Serve
<1>4. QED
  BY <1>2, <1>3, WrittenTypes DEF TypeOK

LEMMA FinishTypes == TypeOK /\ Finish => TypeOK'
<1> SUFFICES ASSUME TypeOK, Finish PROVE TypeOK'
  OBVIOUS
<1>1. ask \in Asks /\ StillThere(ask) /\ Write(ask)
  BY DEF Finish, TypeOK
<1>2. Written(ask)
  BY <1>1, WriteFacts
<1>3. backup' = backup /\ ask' = NoAsk /\ past' = past
  BY DEF Finish
<1>4. QED
  BY <1>1, <1>2, <1>3, WrittenTypes DEF TypeOK

\* Creating an account is the only way to insert one.
LEMMA NewUserTypes ==
    ASSUME TypeOK, NEW n \in Names, NEW role \in {"operator", "admin"}
    PROVE  Table(With(users, NewUser(n, role)), UserRows)
<1> DEFINE row == NewUser(n, role)
<1>1. row \in UserRows
  BY DEF NewUser, UserRows
<1> HIDE DEF row
<1>2. Table(With(users, row), UserRows)
  BY <1>1, WithFacts DEF TypeOK
<1>3. QED
  BY <1>2 DEF row

LEMMA CreateUserTypes == TypeOK /\ CreateUser => TypeOK'
<1> SUFFICES ASSUME TypeOK, CreateUser PROVE TypeOK'
  OBVIOUS
<1>1. Table(users', UserRows)
  BY NewUserTypes DEF CreateUser
<1>2. QED
  BY <1>1 DEF CreateUser, TypeOK

LEMMA ToggleUserTypes == TypeOK /\ ToggleUser => TypeOK'
<1> SUFFICES ASSUME TypeOK, ToggleUser PROVE TypeOK'
  OBVIOUS
<1>1. PICK v \in Ids : users' = [users EXCEPT ![v].disabled = ~users[v].disabled]
  BY DEF ToggleUser
<1>2. Table(users', UserRows)
  BY <1>1 DEF TypeOK, Table, UserRows, Ids
<1>3. QED
  BY <1>2 DEF ToggleUser, TypeOK

\* A demotion marks the tokens of the user.
LEMMA SetRoleTypes == TypeOK /\ SetRole => TypeOK'
<1> SUFFICES ASSUME TypeOK, SetRole PROVE TypeOK'
  OBVIOUS
<1>1. PICK v \in Ids, role \in {"operator", "admin"} :
        /\ users' = [users EXCEPT ![v].role = role]
        /\ tokens' = [t \in Tokens |->
              IF tokens[t].user = v
              THEN [tokens[t] EXCEPT !.outgrown = tokens[t].outgrown \/ role # "admin"]
              ELSE tokens[t]]
        /\ ask' = IF ask.do = "mint" /\ ask.user = v
                  THEN [ask EXCEPT !.outgrown = ask.outgrown \/ role # "admin"] ELSE ask
        /\ UNCHANGED <<sessions, allow, log, backup, phase, generated, past>>
  BY DEF SetRole
<1>2. Table(users', UserRows)
  BY <1>1 DEF TypeOK, Table, UserRows, Ids
<1>3. Table(tokens', Rows)
  <2>1. \A t \in Tokens : tokens[t] \in Rows
    BY RowFacts DEF TypeOK, Tokens
  <2>2. \A t \in Tokens : [tokens[t] EXCEPT !.outgrown = tokens[t].outgrown \/ role # "admin"] \in Rows
    BY <2>1 DEF Rows
  <2>3. tokens' \in [Tokens -> Rows]
    BY <1>1, <2>1, <2>2
  <2>4. QED
    BY <2>3 DEF Table, TypeOK, Tokens
<1>4. ask' \in Asks \cup {NoAsk}
  <2>1. CASE ask.do = "mint"
    <3>1. ask \in Mints
      BY <2>1, Kinds DEF TypeOK, Asks, NoAsk
    <3>2. [ask EXCEPT !.outgrown = ask.outgrown \/ role # "admin"] \in Mints
      BY <3>1 DEF Mints
    <3>3. QED
      BY <1>1, <3>2 DEF Asks, TypeOK
  <2>2. CASE ask.do # "mint"
    BY <1>1, <2>2 DEF TypeOK
  <2>3. QED
    BY <2>1, <2>2
<1>5. QED
  BY <1>1, <1>2, <1>3, <1>4 DEF TypeOK

LEMMA DeleteUserTypes == TypeOK /\ DeleteUser => TypeOK'
<1> SUFFICES ASSUME TypeOK, DeleteUser PROVE TypeOK'
  OBVIOUS
<1>1. PICK v \in Ids :
        /\ users' = [i \in Ids \ {v} |-> users[i]]
        /\ past' = [past EXCEPT !.deleted = past.deleted \cup {v}]
  BY DEF DeleteUser
<1>2. Table(users', UserRows)
  BY <1>1, FewerFacts DEF TypeOK, Ids
<1>3. v \in Nat
  BY RowFacts DEF TypeOK, Ids
<1>4. past' \in [deleted : SUBSET Nat, opened : BOOLEAN]
  BY <1>1, <1>3 DEF TypeOK
<1>5. QED
  BY <1>2, <1>4 DEF DeleteUser, TypeOK

\* A backup is of the types of what is saved, and so is what it restores.
LEMMA RestoreTypes == TypeOK /\ Restore => TypeOK'
<1> SUFFICES ASSUME TypeOK, Restore PROVE TypeOK'
  OBVIOUS
<1>1. /\ backup # NoBackup /\ backup' \in {backup, Dumped}
      /\ users' = backup.users /\ tokens' = backup.tokens /\ log' = backup.log
      /\ sessions' = {}
      /\ ask' = IF ask = NoAsk THEN ask ELSE [ask EXCEPT !.late = TRUE]
      /\ past' = past
      /\ generated' = generated
  BY DEF Restore, RestoredLog, RestoredSessions
<1>2. /\ Dumped.users = users /\ Dumped.tokens = tokens /\ Dumped.log = log
  BY DEF Dumped
<1>3. \A a \in Asks : [a EXCEPT !.late = TRUE] \in Asks
  BY DEF Asks, Logins, Mints, Revocations, Calls
<1>4. past' \in [deleted : SUBSET Nat, opened : BOOLEAN]
  BY <1>1 DEF TypeOK
<1>5. ask' \in Asks \cup {NoAsk}
  BY <1>1, <1>3 DEF TypeOK
<1>6. QED
  BY <1>1, <1>2, <1>4, <1>5 DEF TypeOK

LEMMA BootstrapTypes == TypeOK /\ BootstrapAdmin => TypeOK'
<1> SUFFICES ASSUME TypeOK, BootstrapAdmin PROVE TypeOK'
  OBVIOUS
<1>1. Table(users', UserRows)
  BY NewUserTypes, AccessAssumption DEF BootstrapAdmin, TypeOK
<1>2. past' \in [deleted : SUBSET Nat, opened : BOOLEAN]
  BY DEF BootstrapAdmin, TypeOK
<1>3. QED
  BY <1>1, <1>2 DEF BootstrapAdmin, TypeOK

\* Every step keeps the types.
LEMMA TypeStep == TypeOK /\ [Next]_vars => TypeOK'
<1> SUFFICES ASSUME TypeOK, [Next]_vars PROVE TypeOK'
  OBVIOUS
<1>1. CASE Begin
  BY <1>1, AskedFacts DEF Begin, TypeOK, tables
<1>2. CASE Fail
  BY <1>2 DEF Fail, TypeOK, tables
<1>3. CASE ChangeAllowlist
  <2>1. past' \in [deleted : SUBSET Nat, opened : BOOLEAN]
    BY <1>3 DEF ChangeAllowlist, TypeOK
  <2>2. QED
    BY <1>3, <2>1 DEF ChangeAllowlist, TypeOK
<1>4. CASE EndSession
  BY <1>4 DEF EndSession, TypeOK, tables
<1>5. CASE TakeBackup
  <2>1. backup'.users = users /\ backup'.tokens = tokens /\ backup'.log = log
    BY <1>5 DEF TakeBackup, Dumped
  <2>2. QED
    BY <1>5, <2>1 DEF TakeBackup, TypeOK, tables
<1>6. CASE Stop
  BY <1>6 DEF Stop, TypeOK, tables
<1>7. CASE SeedAllowlist
  <2>1. past' \in [deleted : SUBSET Nat, opened : BOOLEAN]
    BY <1>7 DEF SeedAllowlist, TypeOK
  <2>2. QED
    BY <1>7, <2>1 DEF SeedAllowlist, TypeOK
<1>8. CASE UNCHANGED vars
  BY <1>8 DEF vars, TypeOK
<1>9. CASE Rest
  BY <1>8, <1>9 DEF Rest
<1>10. QED
  BY <1>1, <1>2, <1>3, <1>4, <1>5, <1>6, <1>7, <1>8, <1>9, ServeTypes, FinishTypes,
     CreateUserTypes, ToggleUserTypes, SetRoleTypes, DeleteUserTypes, RestoreTypes,
     BootstrapTypes DEF Next

\* Everything is of its type in every reachable state.
THEOREM AccessTypes == Spec => []TypeOK
BY TypeInit, TypeStep, PTL DEF Spec
-----------------------------------------------------------------------------
(* Owners.                                                                 *)

\* What was issued, against accounts U of which D have been deleted.
Owned(x, U, D) ==
    ~x.late => x.user \in DOMAIN U \cup D /\ (x.user \notin D => U[x.user].name = x.who)
Scoped(x, U, D) ==
    ~x.late /\ ~x.outgrown /\ x.scope = "admin" /\ x.user \notin D => U[x.user].role = "admin"
Own(T, U, D) == \A t \in DOMAIN T : Owned(T[t], U, D) /\ Scoped(T[t], U, D)

\* Sessions, tokens, those in the backup and the one on its way are their
\* owners', or were: an id in use is never one that was issued something and
\* not deleted, but for its owner's.
OwnInv ==
    /\ \A x \in sessions : Owned(x, users, past.deleted)
    /\ Own(tokens, users, past.deleted)
    /\ backup # NoBackup => Own(backup.tokens, backup.users, past.deleted)
    /\ ask.do \in {"login", "mint"} => Owned(ask, users, past.deleted)
    /\ ask.do = "mint" => Scoped(ask, users, past.deleted)

\* Accounts may come and go, if those that go are noted.
Kept(U, D, V, E) ==
    /\ D \subseteq E
    /\ \A i \in DOMAIN U \ E : i \in DOMAIN V /\ V[i].name = U[i].name /\ V[i].role = U[i].role

LEMMA KeptOwned ==
    ASSUME NEW x, NEW U, NEW D, NEW V, NEW E, Kept(U, D, V, E), Owned(x, U, D)
    PROVE  Owned(x, V, E) /\ (Scoped(x, U, D) => Scoped(x, V, E))
BY DEF Kept, Owned, Scoped

LEMMA KeptOwn ==
    ASSUME NEW T, NEW U, NEW D, NEW V, NEW E, Kept(U, D, V, E), Own(T, U, D)
    PROVE  Own(T, V, E)
BY KeptOwned DEF Own

LEMMA MarkedOwned ==
    ASSUME NEW x, NEW y, Marked(x, y), NEW U, NEW D, Owned(x, U, D), Scoped(x, U, D)
    PROVE  Owned(y, U, D) /\ Scoped(y, U, D)
BY DEF Marked, Owned, Scoped

LEMMA OwnInit == Init => OwnInv
<1> SUFFICES ASSUME Init PROVE OwnInv
  OBVIOUS
<1>1. tokens = <<>> /\ ask.do = "none" /\ past.deleted = {}
  BY DEF Init, NoAsk
<1>2. \A U, D : Own(<<>>, U, D)
  BY DEF Own
<1>3. backup # NoBackup => backup.tokens = <<>>
  BY DEF Init
<1>4. \A x \in sessions : Owned(x, users, {})
  <2>1. CASE sessions = {}
    BY <2>1
  <2>2. CASE \E n \in Names \ {Bootstrap}, role \in {"operator", "admin"} :
                /\ users = <<NewUser(Bootstrap, "admin"), NewUser(n, role)>>
                /\ sessions = {[user |-> 1, who |-> Bootstrap, late |-> FALSE],
                               [user |-> 2, who |-> n, late |-> FALSE]}
    BY <2>2 DEF Owned, NewUser
  <2>3. QED
    BY <2>1, <2>2 DEF Init
<1>5. QED
  BY <1>1, <1>2, <1>3, <1>4 DEF OwnInv

\* Steps that change accounts, and nothing that was issued.
LEMMA AccountsOwn ==
    ASSUME OwnInv, Kept(users, past.deleted, users', past'.deleted),
           UNCHANGED <<sessions, tokens, backup, ask>>
    PROVE  OwnInv'
<1>1. \A x \in sessions' : Owned(x, users', past'.deleted)
  BY KeptOwned DEF OwnInv
<1>2. Own(tokens', users', past'.deleted)
  BY KeptOwn DEF OwnInv
<1>3. backup' # NoBackup => Own(backup'.tokens, backup'.users, past'.deleted)
  <2>1. backup # NoBackup => Kept(backup.users, past.deleted, backup.users, past'.deleted)
    BY DEF Kept
  <2>2. QED
    BY <2>1, KeptOwn DEF OwnInv
<1>4. ask'.do \in {"login", "mint"} => Owned(ask', users', past'.deleted)
  BY KeptOwned DEF OwnInv
<1>5. ask'.do = "mint" => Scoped(ask', users', past'.deleted)
  BY KeptOwned DEF OwnInv
<1>6. QED
  BY <1>1, <1>2, <1>3, <1>4, <1>5 DEF OwnInv

\* What is asked for is asked for by who is there.
LEMMA AskedOwned ==
    ASSUME TypeOK, NEW a \in Asked
    PROVE  /\ a.do \in {"login", "mint"} => Owned(a, users, past.deleted)
           /\ a.do = "mint" => Scoped(a, users, past.deleted)
<1>1. CASE \E u \in Ids : a = Login(u)
  BY <1>1 DEF Login, Owned, Ids
<1>2. CASE \E u \in SignedIn : \E s \in MayMint(users[u].role) : a = Mint(u, s)
  <2> PICK u \in SignedIn : \E s \in MayMint(users[u].role) : a = Mint(u, s)
    BY <1>2
  <2>1. PICK s \in MayMint(users[u].role) : a = Mint(u, s)
    OBVIOUS
  <2>2. u \in Ids
    BY DEF SignedIn
  <2>3. users[u].role \in {"operator", "admin"}
    <3>1. Table(users, UserRows)
      BY DEF TypeOK
    <3>2. users[u] \in UserRows
      BY <2>2, <3>1, RowFacts DEF Ids
    <3>3. QED
      BY <3>2 DEF UserRows
  <2>4. s = "admin" => users[u].role = "admin"
    BY <2>3 DEF MayMint, Rank
  <2>5. QED
    BY <2>1, <2>2, <2>4 DEF Mint, Owned, Scoped, Ids
<1>3. CASE \E t \in Tokens : a = Revoke(t)
  BY <1>3 DEF Revoke
<1>4. CASE \E t \in Tokens, need \in Scopes, x \in Tokens : a = Call(t, need, x)
  BY <1>4 DEF Call
<1>5. QED
  BY <1>1, <1>2, <1>3, <1>4, AskedForms

\* What a request issues is its owner's.
LEMMA WrittenOwn ==
    ASSUME TypeOK, OwnInv, NEW a \in Asks, Written(a),
           a.do \in {"login", "mint"} => Owned(a, users, past.deleted),
           a.do = "mint" => Scoped(a, users, past.deleted), past' = past
    PROVE  /\ \A x \in sessions' : Owned(x, users', past'.deleted)
           /\ Own(tokens', users', past'.deleted)
           /\ users' = users /\ past'.deleted = past.deleted
<1>1. users' = users /\ past'.deleted = past.deleted
  BY DEF Written
<1>2. ASSUME NEW x \in sessions' PROVE Owned(x, users, past.deleted)
  <2>1. CASE x \in sessions
    BY <2>1 DEF OwnInv
  <2>2. CASE x \notin sessions
    <3>1. a \in Logins /\ x = [user |-> a.user, who |-> a.who, late |-> a.late]
      BY <2>2 DEF Written
    <3>2. Owned(a, users, past.deleted)
      BY <3>1, Kinds
    <3>3. QED
      BY <3>1, <3>2 DEF Owned
  <2>3. QED
    BY <2>1, <2>2
<1>3. ASSUME NEW t \in Tokens'
      PROVE  Owned(tokens'[t], users, past.deleted) /\ Scoped(tokens'[t], users, past.deleted)
  <2>1. CASE t \in Tokens
    <3>1. Marked(tokens[t], tokens'[t])
      BY <2>1 DEF Written, Touched
    <3>2. QED
      BY <2>1, <3>1, MarkedOwned DEF OwnInv, Own, Tokens
  <2>2. CASE t \notin Tokens
    <3>1. a \in Mints /\ tokens'[t] = Minted(a)
      BY <2>2 DEF Written
    <3>2. Owned(a, users, past.deleted) /\ Scoped(a, users, past.deleted)
      BY <3>1, Kinds
    <3>3. QED
      BY <3>1, <3>2 DEF Owned, Scoped, Minted
  <2>3. QED
    BY <2>1, <2>2
<1>4. QED
  BY <1>1, <1>2, <1>3 DEF Own, Tokens

LEMMA SetRoleOwn == TypeOK /\ OwnInv /\ SetRole => OwnInv'
<1> SUFFICES ASSUME TypeOK, OwnInv, SetRole PROVE OwnInv'
  OBVIOUS
<1>1. PICK v \in Ids, role \in {"operator", "admin"} :
        /\ users' = [users EXCEPT ![v].role = role]
        /\ tokens' = [t \in Tokens |->
              IF tokens[t].user = v
              THEN [tokens[t] EXCEPT !.outgrown = tokens[t].outgrown \/ role # "admin"]
              ELSE tokens[t]]
        /\ ask' = IF ask.do = "mint" /\ ask.user = v
                  THEN [ask EXCEPT !.outgrown = ask.outgrown \/ role # "admin"] ELSE ask
        /\ UNCHANGED <<sessions, allow, log, backup, phase, generated, past>>
  BY DEF SetRole
<1>2. /\ DOMAIN users' = DOMAIN users
      /\ \A i \in DOMAIN users : /\ users'[i].name = users[i].name
                                 /\ users'[i].role = IF i = v THEN role ELSE users[i].role
  <2>1. \A i \in DOMAIN users : users[i] \in UserRows
    BY RowFacts DEF TypeOK
  <2>2. QED
    BY <1>1, <2>1 DEF UserRows, Ids
<1> DEFINE D == past.deleted
<1>3. \A x : Owned(x, users, D) => Owned(x, users', D)
  BY <1>2 DEF Owned
<1>4. ASSUME NEW x, Owned(x, users, D), Scoped(x, users, D), x.user # v
      PROVE  Scoped(x, users', D)
  BY <1>2, <1>4 DEF Owned, Scoped
<1>5. ASSUME NEW x \in Rows \cup Mints, Owned(x, users, D), Scoped(x, users, D), x.user = v
      PROVE  LET y == [x EXCEPT !.outgrown = x.outgrown \/ role # "admin"] IN
             Owned(y, users', D) /\ Scoped(y, users', D)
  <2> DEFINE y == [x EXCEPT !.outgrown = x.outgrown \/ role # "admin"]
  <2>1. /\ y.user = x.user /\ y.who = x.who /\ y.late = x.late /\ y.scope = x.scope
        /\ y.outgrown = (x.outgrown \/ role # "admin")
    BY DEF Rows, Mints
  <2> HIDE DEF y
  <2>2. Owned(y, users', D)
    BY <1>3, <1>5, <2>1 DEF Owned
  <2>3. Scoped(y, users', D)
    BY <1>2, <1>5, <2>1 DEF Owned, Scoped
  <2>4. QED
    BY <2>2, <2>3 DEF y
<1>6. \A x \in sessions' : Owned(x, users', past'.deleted)
  BY <1>1, <1>3 DEF OwnInv
<1>7. Own(tokens', users', past'.deleted)
  <2>1. ASSUME NEW t \in Tokens
        PROVE  Owned(tokens'[t], users', D) /\ Scoped(tokens'[t], users', D)
    <3>1. tokens[t] \in Rows /\ Owned(tokens[t], users, D) /\ Scoped(tokens[t], users, D)
      BY RowFacts DEF TypeOK, OwnInv, Own, Tokens
    <3>2. CASE tokens[t].user = v
      BY <1>1, <1>5, <3>1, <3>2
    <3>3. CASE tokens[t].user # v
      BY <1>1, <1>3, <1>4, <3>1, <3>3
    <3>4. QED
      BY <3>2, <3>3
  <2>2. DOMAIN tokens' = Tokens /\ past' = past
    BY <1>1
  <2>3. QED
    BY <2>1, <2>2 DEF Own
<1>8. /\ ask'.do \in {"login", "mint"} => Owned(ask', users', past'.deleted)
      /\ ask'.do = "mint" => Scoped(ask', users', past'.deleted)
  <2>1. CASE ask.do = "mint" /\ ask.user = v
    <3>1. ask \in Mints
      BY <2>1, Kinds DEF TypeOK, Asks, NoAsk
    <3>2. ask' = [ask EXCEPT !.outgrown = ask.outgrown \/ role # "admin"]
      BY <1>1, <2>1
    <3>3. Owned(ask, users, D) /\ Scoped(ask, users, D)
      BY <2>1 DEF OwnInv
    <3>4. Owned(ask', users', D) /\ Scoped(ask', users', D)
      BY <1>5, <2>1, <3>1, <3>2, <3>3
    <3>5. QED
      BY <1>1, <3>4
  <2>2. CASE ask.do = "mint" /\ ask.user # v
    BY <1>1, <1>3, <1>4, <2>2 DEF OwnInv
  <2>3. CASE ask.do # "mint"
    BY <1>1, <1>3, <2>3 DEF OwnInv
  <2>4. QED
    BY <2>1, <2>2, <2>3
<1>9. backup' # NoBackup => Own(backup'.tokens, backup'.users, past'.deleted)
  BY <1>1 DEF OwnInv
<1>10. QED
  BY <1>6, <1>7, <1>8, <1>9 DEF OwnInv

\* A restore brings tokens along with the accounts they are of, and sessions of
\* nobody; the request it overtakes is late.
LEMMA RestoreOwn == TypeOK /\ OwnInv /\ Restore => OwnInv'
<1> SUFFICES ASSUME TypeOK, OwnInv, Restore PROVE OwnInv'
  OBVIOUS
<1>1. /\ backup # NoBackup /\ backup' \in {backup, Dumped}
      /\ users' = backup.users /\ tokens' = backup.tokens
      /\ sessions' = {}
      /\ ask' = IF ask = NoAsk THEN ask ELSE [ask EXCEPT !.late = TRUE]
      /\ past' = past
  BY DEF Restore, RestoredSessions
<1>2. Dumped.users = users /\ Dumped.tokens = tokens
  BY DEF Dumped
<1>3. past'.deleted = past.deleted
  BY <1>1 DEF TypeOK
<1>4. ask'.do # "none" => ask'.late
  <2>1. \A a \in Asks : [a EXCEPT !.late = TRUE].late
    BY DEF Asks, Logins, Mints, Revocations, Calls
  <2>2. QED
    BY <1>1, <2>1 DEF TypeOK, NoAsk
<1>5. QED
  BY <1>1, <1>2, <1>3, <1>4 DEF OwnInv, Owned, Scoped

\* Every step keeps owners.
LEMMA OwnStep == TypeOK /\ OwnInv /\ [Next]_vars => OwnInv'
<1> SUFFICES ASSUME TypeOK, OwnInv, [Next]_vars PROVE OwnInv'
  OBVIOUS
<1>1. CASE Serve
  <2>1. PICK a \in Asked : Write(a)
    BY <1>1 DEF Serve
  <2>2. a \in Asks /\ Written(a)
    BY <2>1, AskedFacts, WriteFacts
  <2>3. backup' = backup /\ ask' = ask /\ past' = past
    BY <1>1 DEF Serve
  <2>4. /\ \A x \in sessions' : Owned(x, users', past'.deleted)
        /\ Own(tokens', users', past'.deleted)
        /\ users' = users
    BY <2>1, <2>2, <2>3, AskedOwned, WrittenOwn
  <2>5. QED
    BY <2>3, <2>4 DEF OwnInv
<1>2. CASE Begin
  <2>1. ask' \in Asked
    BY <1>2 DEF Begin
  <2>2. /\ ask'.do \in {"login", "mint"} => Owned(ask', users, past.deleted)
        /\ ask'.do = "mint" => Scoped(ask', users, past.deleted)
    BY <2>1, AskedOwned
  <2>3. QED
    BY <1>2, <2>2 DEF Begin, OwnInv, tables
<1>3. CASE Finish
  <2>1. ask \in Asks /\ Written(ask)
    BY <1>3, WriteFacts DEF Finish, TypeOK
  <2>2. backup' = backup /\ ask'.do = "none" /\ past' = past
    BY <1>3 DEF Finish, NoAsk
  <2>3. QED
    BY <2>1, <2>2, WrittenOwn DEF OwnInv
<1>4. CASE CreateUser \/ BootstrapAdmin
  <2>1. \A n \in Names, role \in {"operator", "admin"} :
            Kept(users, past.deleted, With(users, NewUser(n, role)), past.deleted)
    <3>1. ASSUME NEW row \in UserRows
          PROVE  Kept(users, past.deleted, With(users, row), past.deleted)
      <4>1. Table(users, UserRows)
        BY DEF TypeOK
      <4>2. /\ DOMAIN With(users, row) = DOMAIN users \cup {NextId(DOMAIN users)}
            /\ \A i \in DOMAIN users : With(users, row)[i] = users[i]
        BY <4>1, WithFacts
      <4>3. \A i \in DOMAIN users : i \in DOMAIN With(users, row) /\ With(users, row)[i] = users[i]
        BY <4>2
      <4>4. QED
        BY <4>3 DEF Kept
    <3>2. \A n \in Names, role \in {"operator", "admin"} : NewUser(n, role) \in UserRows
      BY DEF NewUser, UserRows
    <3>3. QED
      BY <3>1, <3>2
  <2>2. Kept(users, past.deleted, users, past.deleted)
    BY DEF Kept
  <2>3. past'.deleted = past.deleted /\ UNCHANGED <<sessions, tokens, backup, ask>>
    BY <1>4 DEF CreateUser, BootstrapAdmin, TypeOK
  <2>4. Kept(users, past.deleted, users', past'.deleted)
    BY <1>4, <2>1, <2>2, <2>3, AccessAssumption DEF CreateUser, BootstrapAdmin
  <2>5. QED
    BY <2>3, <2>4, AccountsOwn
<1>5. CASE ToggleUser
  <2>1. PICK v \in Ids : users' = [users EXCEPT ![v].disabled = ~users[v].disabled]
    BY <1>5 DEF ToggleUser
  <2>2. \A i \in DOMAIN users : users[i] \in UserRows
    BY RowFacts DEF TypeOK
  <2>3. Kept(users, past.deleted, users', past'.deleted)
    BY <1>5, <2>1, <2>2 DEF Kept, UserRows, ToggleUser
  <2>4. QED
    BY <1>5, <2>3, AccountsOwn DEF ToggleUser
<1>6. CASE DeleteUser
  <2>1. PICK v \in Ids :
          /\ users' = [i \in Ids \ {v} |-> users[i]]
          /\ past' = [past EXCEPT !.deleted = past.deleted \cup {v}]
    BY <1>6 DEF DeleteUser
  <2>2. past'.deleted = past.deleted \cup {v}
    BY <2>1 DEF TypeOK
  <2>3. Kept(users, past.deleted, users', past'.deleted)
    BY <2>1, <2>2 DEF Kept, Ids
  <2>4. QED
    BY <1>6, <2>3, AccountsOwn DEF DeleteUser
<1>7. CASE EndSession
  BY <1>7 DEF EndSession, OwnInv, tables
<1>8. CASE TakeBackup
  <2>1. backup'.users = users /\ backup'.tokens = tokens
    BY <1>8 DEF TakeBackup, Dumped
  <2>2. QED
    BY <1>8, <2>1 DEF TakeBackup, OwnInv, tables
<1>9. CASE ChangeAllowlist \/ SeedAllowlist
  <2>1. past'.deleted = past.deleted /\ UNCHANGED <<users, sessions, tokens, backup, ask>>
    BY <1>9 DEF ChangeAllowlist, SeedAllowlist, TypeOK
  <2>2. QED
    BY <2>1 DEF OwnInv
<1>10. CASE Fail \/ Stop
  BY <1>10 DEF Fail, Stop, OwnInv, NoAsk, tables
<1>11. CASE Rest \/ UNCHANGED vars
  BY <1>11 DEF Rest, vars, OwnInv
<1>12. QED
  BY <1>1, <1>2, <1>3, <1>4, <1>5, <1>6, <1>7, <1>8, <1>9, <1>10, <1>11, SetRoleOwn, RestoreOwn
     DEF Next

LEMMA OwnAlways == Spec => [](TypeOK /\ OwnInv)
BY TypeInit, TypeStep, OwnInit, OwnStep, PTL DEF Spec

\* Sessions and tokens stay their owners', though ids are used again.
THEOREM AccessIssuedToOwner == Spec => []IssuedToOwner
<1>1. TypeOK /\ OwnInv => IssuedToOwner
  <2> SUFFICES ASSUME OwnInv, NEW x \in sessions \cup {tokens[t] : t \in Tokens},
                      x.user \in Ids \ past.deleted, ~x.late
               PROVE  users[x.user].name = x.who
    BY DEF IssuedToOwner
  <2>1. Owned(x, users, past.deleted)
    BY DEF OwnInv, Own, Tokens
  <2>2. QED
    BY <2>1 DEF Owned
<1>2. QED
  BY <1>1, OwnAlways, PTL

\* A token's scope is within its owner's role, unless a lesser one was given.
THEOREM AccessScopeWithinRole == Spec => []ScopeWithinRole
<1>1. TypeOK /\ OwnInv => ScopeWithinRole
  BY DEF OwnInv, Own, Tokens, Scoped, ScopeWithinRole
<1>2. QED
  BY <1>1, OwnAlways, PTL
-----------------------------------------------------------------------------
(* Revocation.                                                             *)

\* What is revoked stays revoked until an older backup is restored.
THEOREM AccessRevocationSticks == Spec => RevocationSticks
<1>1. ASSUME TypeOK, Next, NEW t \in Tokens, tokens[t].revoked, ~Restore
      PROVE  tokens'[t].revoked
  <2>1. CASE Serve
    <3>1. PICK a \in Asked : Write(a)
      BY <2>1 DEF Serve
    <3>2. Written(a)
      BY <1>1, <3>1, AskedFacts, WriteFacts
    <3>3. QED
      BY <1>1, <3>2 DEF Written, Touched, Marked
  <2>2. CASE Finish
    <3>1. Written(ask)
      BY <1>1, <2>2, WriteFacts DEF Finish, TypeOK
    <3>2. QED
      BY <1>1, <3>1 DEF Written, Touched, Marked
  <2>3. CASE SetRole
    BY <1>1, <2>3 DEF SetRole
  <2>4. CASE tokens' = tokens
    BY <1>1, <2>4
  <2>5. QED
    BY <1>1, <2>1, <2>2, <2>3, <2>4
    DEF Next, tables, Begin, Fail, CreateUser, ToggleUser, DeleteUser, ChangeAllowlist,
        EndSession, TakeBackup, Stop, BootstrapAdmin, SeedAllowlist, Rest, vars
<1>2. TypeOK /\ [Next]_vars =>
          [\A t \in Tokens : tokens[t].revoked => Restore \/ tokens'[t].revoked]_vars
  BY <1>1
<1>3. QED
  BY <1>2, AccessTypes, PTL DEF Spec, RevocationSticks
-----------------------------------------------------------------------------
(* Starting.                                                               *)

\* Before it has served for the first time there is nobody to do anything: there
\* is the account in VCM_BOOTSTRAP_ADMIN or none, and nothing in the allowlist.
FirstUsers == <<NewUser(Bootstrap, "admin")>>

StartInv ==
    past.opened \/
        /\ phase \in {"bootstrap", "seed"}
        /\ users = FirstUsers \/ (users = <<>> /\ phase = "bootstrap")
        /\ Unseeded /\ ask = NoAsk

LEMMA StartInit == Init => StartInv
BY DEF Init, StartInv, Unseeded

\* The first account of a table gets the first id.
LEMMA FirstAccount ==
    ASSUME NEW row
    PROVE  With(<<>>, row) = <<row>>
<1>1. DOMAIN <<>> = {}
  OBVIOUS
<1>2. NextId({}) = 1
  BY DEF NextId
<1>3. With(<<>>, row) = [i \in {1} |-> row]
  BY <1>1, <1>2 DEF With
<1>4. <<row>> = [i \in {1} |-> row]
  OBVIOUS
<1>5. QED
  BY <1>3, <1>4

LEMMA BootstrapStart ==
    ASSUME StartInv, ~past.opened, BootstrapAdmin
    PROVE  users' = FirstUsers
<1>1. CASE users = <<>>
  <2>1. BootstrapMissing
    BY <1>1 DEF BootstrapMissing, Known, Ids
  <2>2. QED
    BY <1>1, <2>1, FirstAccount DEF BootstrapAdmin, FirstUsers
<1>2. CASE users = FirstUsers
  <2>1. 1 \in Ids /\ users[1].name = Bootstrap
    BY <1>2 DEF FirstUsers, NewUser, Ids
  <2>2. ~BootstrapMissing
    BY <2>1 DEF BootstrapMissing, Known
  <2>3. QED
    BY <1>2, <2>2 DEF BootstrapAdmin
<1>3. QED
  BY <1>1, <1>2 DEF StartInv, BootstrapAdmin

\* Until then the process only starts and stops; what it has when it serves is
\* the one account and the initial entries.
LEMMA StartStep ==
    ASSUME TypeOK, StartInv, [Next]_vars
    PROVE  /\ StartInv'
           /\ ~past.opened /\ past'.opened => users' = FirstUsers /\ allow' = Seeded
<1>1. past.opened => past'.opened
  BY DEF Next, Serve, Begin, Finish, Fail, CreateUser, ToggleUser, SetRole, DeleteUser,
     ChangeAllowlist, EndSession, TakeBackup, Restore, Stop, BootstrapAdmin, SeedAllowlist,
     Rest, vars, TypeOK
<1>2. CASE past.opened
  BY <1>1, <1>2 DEF StartInv
<1>3. CASE ~past.opened
  <2>1. phase # "up" /\ ask = NoAsk
    BY <1>3 DEF StartInv
  <2>2. Stop \/ BootstrapAdmin \/ SeedAllowlist \/ UNCHANGED vars
    BY <2>1 DEF Next, Serve, Begin, Finish, Fail, CreateUser, ToggleUser, SetRole, DeleteUser,
       ChangeAllowlist, EndSession, TakeBackup, Restore, AdminDoes, LetIn, Rest
  <2>3. CASE Stop
    BY <1>3, <2>3 DEF Stop, StartInv, tables, Unseeded
  <2>4. CASE BootstrapAdmin
    BY <1>3, <2>4, BootstrapStart DEF BootstrapAdmin, StartInv, Unseeded
  <2>5. CASE SeedAllowlist
    <3>1. phase = "seed" /\ users' = users /\ past'.opened
      BY <2>5 DEF SeedAllowlist, TypeOK
    <3>2. allow' = Seeded
      BY <1>3, <2>5 DEF SeedAllowlist, StartInv
    <3>3. QED
      BY <1>3, <3>1, <3>2 DEF StartInv
  <2>6. CASE UNCHANGED vars
    BY <2>6 DEF vars, StartInv, Unseeded
  <2>7. QED
    BY <2>2, <2>3, <2>4, <2>5, <2>6
<1>4. QED
  BY <1>2, <1>3

\* When VCM serves for the first time, its first run is complete, however often
\* it was begun.
THEOREM AccessFirstRunComplete == Spec => FirstRunComplete
<1>1. TypeOK /\ StartInv /\ [Next]_vars =>
        [~past.opened /\ past'.opened =>
            users' = <<NewUser(Bootstrap, "admin")>> /\ allow' = Seeded]_vars
  BY StartStep DEF FirstUsers
<1>2. TypeOK /\ StartInv /\ [Next]_vars => StartInv'
  BY StartStep
<1>3. QED
  BY <1>1, <1>2, TypeInit, TypeStep, StartInit, PTL DEF Spec, FirstRunComplete
-----------------------------------------------------------------------------
(* What the log tells.                                                     *)

\* The secret s is, was or may be that of the row with id t.
Holds(t, s) ==
    \/ t \in Tokens /\ s = tokens[t].secret
    \/ backup # NoBackup /\ t \in DOMAIN backup.tokens /\ s = backup.tokens[t].secret
    \/ ask \in Revocations /\ t = ask.target /\ s = ask.secret
    \/ ask \in Calls /\ t = ask.token /\ s = ask.read.secret
    \/ ask \in Calls /\ t = ask.target /\ s = ask.aim.secret

\* Tokens T and a log L are of the same story, with n the last secret.
Story(T, L, n) ==
    /\ \A t \in DOMAIN T :
          ~T[t].late =>
              /\ <<"create", T[t].secret>> \in L
              /\ T[t].used <=> <<"call", T[t].secret>> \in L
              /\ T[t].revoked <=> <<"revoke", T[t].secret>> \in L
    /\ \A kind \in {"create", "call", "revoke"}, s \in Nat : <<kind, s>> \in L => s <= n

\* What a request has read is still so, unless a restore has overtaken it.
Fresh(a) ==
    /\ a \in Revocations /\ ~a.late => a.target \in Tokens /\ a.secret = tokens[a.target].secret
    /\ a \in Calls /\ ~a.late =>
          /\ a.token \in Tokens /\ a.read.secret = tokens[a.token].secret
          /\ a.target \in Tokens /\ a.aim.secret = tokens[a.target].secret

\* A secret is only ever that of one id, which is why a request that a restore
\* has overtaken cannot speak of a row but the one it marks.
TellInv ==
    /\ Story(tokens, log, generated)
    /\ backup # NoBackup => Story(backup.tokens, backup.log, generated)
    /\ \A t, s \in Nat : Holds(t, s) => s <= generated
    /\ \A t, u, s \in Nat : Holds(t, s) /\ Holds(u, s) => t = u
    /\ Fresh(ask)

LEMMA StoryGrows ==
    ASSUME NEW T, NEW L, NEW n \in Nat, Story(T, L, n), NEW m \in Nat, n <= m
    PROVE  Story(T, L, m)
BY DEF Story

LEMMA TellInit == Init => TellInv
<1> SUFFICES ASSUME Init PROVE TellInv
  OBVIOUS
<1>1. Story(<<>>, {}, 0)
  BY DEF Story
<1>2. /\ tokens = <<>> /\ log = {} /\ ask = NoAsk /\ generated = 0
      /\ backup # NoBackup => backup.tokens = <<>> /\ backup.log = {}
  BY DEF Init
<1>3. ask \notin Revocations /\ ask \notin Calls
  BY <1>2, Kinds DEF Asks
<1>4. \A t, s \in Nat : ~Holds(t, s)
  BY <1>2, <1>3 DEF Holds, Tokens
<1>5. QED
  BY <1>1, <1>2, <1>3, <1>4 DEF TellInv, Fresh

\* What a request tells, by kind.
LEMMA ToldFacts ==
    ASSUME TypeOK, NEW a \in Asks, NEW s \in Nat
    PROVE  /\ <<"create", s>> \in Told(a) <=> a \in Mints /\ s = generated + 1
           /\ <<"call", s>> \in Told(a) <=> a \in Calls /\ s = a.read.secret
           /\ <<"revoke", s>> \in Told(a) <=>
                 \/ a \in Revocations /\ s = a.secret
                 \/ a \in Calls /\ Revokes(a) /\ s = a.aim.secret
BY DEF Told

\* Whom the secrets of a request belong to.
Speaks(a) ==
    /\ a \in Revocations => a.target \in Nat /\ Holds(a.target, a.secret)
    /\ a \in Calls =>
          /\ a.token \in Nat /\ Holds(a.token, a.read.secret)
          /\ a.target \in Nat /\ Holds(a.target, a.aim.secret)

LEMMA AskedSpeaks ==
    ASSUME TypeOK, NEW a \in Asked
    PROVE  /\ Fresh(a) /\ Speaks(a)
           /\ a \in Revocations => a.target \in Tokens /\ a.secret = tokens[a.target].secret
           /\ a \in Calls =>
                 /\ a.token \in Tokens /\ a.read.secret = tokens[a.token].secret
                 /\ a.target \in Tokens /\ a.aim.secret = tokens[a.target].secret
<1>1. \A t \in Tokens : t \in Nat
  BY RowFacts DEF TypeOK, Tokens
<1>2. a \in Asks
  BY AskedFacts
<1>3. CASE \E u \in Ids : a = Login(u)
  <2>1. a.do = "login"
    BY <1>3 DEF Login
  <2>2. a \notin Revocations /\ a \notin Calls
    BY <2>1, Kinds
  <2>3. QED
    BY <2>2 DEF Fresh, Speaks
<1>4. CASE \E u \in SignedIn : \E s \in MayMint(users[u].role) : a = Mint(u, s)
  <2>1. a.do = "mint"
    BY <1>4 DEF Mint
  <2>2. a \notin Revocations /\ a \notin Calls
    BY <2>1, Kinds
  <2>3. QED
    BY <2>2 DEF Fresh, Speaks
<1>5. CASE \E t \in Tokens : a = Revoke(t)
  <2>1. a.do = "revoke" /\ a.target \in Tokens /\ a.secret = tokens[a.target].secret
    BY <1>5 DEF Revoke
  <2>2. a \notin Calls
    BY <2>1, Kinds
  <2>3. QED
    BY <1>1, <2>1, <2>2 DEF Fresh, Speaks, Holds
<1>6. CASE \E t \in Tokens, need \in Scopes, x \in Tokens : a = Call(t, need, x)
  <2>1. /\ a.do = "call" /\ a.token \in Tokens /\ a.read.secret = tokens[a.token].secret
        /\ a.target \in Tokens /\ a.aim.secret = tokens[a.target].secret
    BY <1>6 DEF Call
  <2>2. a \notin Revocations
    BY <2>1, Kinds
  <2>3. QED
    BY <1>1, <2>1, <2>2 DEF Fresh, Speaks, Holds
<1>7. QED
  BY <1>3, <1>4, <1>5, <1>6, AskedForms

\* After what a request writes, tokens and log are of the same story.
LEMMA WrittenStory ==
    ASSUME TypeOK, TellInv, NEW a \in Asks, Written(a), Fresh(a), Speaks(a)
    PROVE  Story(tokens', log', generated')
<1>1. Story(tokens, log, generated)
  BY DEF TellInv
<1>2. log' = log \cup Told(a)
  BY DEF Written
<1>3. \A t \in Tokens : t \in Nat /\ tokens[t] \in Rows /\ tokens[t].secret \in Nat
  <2>1. \A t \in Tokens : t \in Nat /\ tokens[t] \in Rows
    BY RowFacts DEF TypeOK, Tokens
  <2>2. QED
    BY <2>1 DEF Rows
<1>4. generated \in Nat
  BY DEF TypeOK
<1>5. a \in Calls => a.read.secret \in Nat /\ a.aim.secret \in Nat /\ a.token \in Nat /\ a.target \in Nat
  BY DEF Calls, Rows
<1>6. a \in Revocations => a.secret \in Nat /\ a.target \in Nat
  BY DEF Revocations
<1>7. \A t, u, s \in Nat : Holds(t, s) /\ Holds(u, s) => t = u
  BY DEF TellInv
<1>8. ASSUME NEW t \in Tokens', ~tokens'[t].late
      PROVE  /\ <<"create", tokens'[t].secret>> \in log'
             /\ tokens'[t].used <=> <<"call", tokens'[t].secret>> \in log'
             /\ tokens'[t].revoked <=> <<"revoke", tokens'[t].secret>> \in log'
  <2>1. CASE t \notin Tokens
    <3>1. a \in Mints /\ tokens'[t] = Minted(a)
      BY <1>8, <2>1 DEF Written
    <3>2. tokens'[t].secret = generated + 1 /\ ~tokens'[t].used /\ ~tokens'[t].revoked
      BY <3>1 DEF Minted
    <3>3. a \notin Calls /\ a \notin Revocations
      BY <3>1, Kinds
    <3>4. <<"call", generated + 1>> \notin log /\ <<"revoke", generated + 1>> \notin log
      BY <1>1, <1>4 DEF Story
    <3>5. generated + 1 \in Nat
      BY <1>4
    <3>6. /\ <<"create", generated + 1>> \in Told(a)
          /\ <<"call", generated + 1>> \notin Told(a) /\ <<"revoke", generated + 1>> \notin Told(a)
      BY <3>1, <3>3, <3>5, ToldFacts
    <3>7. QED
      BY <1>2, <3>2, <3>4, <3>6
  <2>2. CASE t \in Tokens
    <3> DEFINE s == tokens[t].secret
    <3>1. s \in Nat /\ t \in Nat /\ Holds(t, s)
      BY <1>3, <2>2 DEF Holds
    <3>2. /\ tokens'[t].secret = s
          /\ tokens'[t].used <=> tokens[t].used \/ t \in Uses(a)
          /\ tokens'[t].revoked <=> tokens[t].revoked \/ t \in Ends(a)
          /\ tokens'[t].late <=> tokens[t].late \/ (a.late /\ t \in Uses(a) \cup Ends(a))
      BY <2>2 DEF Written, Touched, Marked
    <3>3. ~tokens[t].late /\ (t \in Uses(a) \cup Ends(a) => ~a.late)
      BY <1>8, <3>2
    <3>4. /\ <<"create", s>> \in log /\ (tokens[t].used <=> <<"call", s>> \in log)
          /\ tokens[t].revoked <=> <<"revoke", s>> \in log
      BY <1>1, <2>2, <3>3 DEF Story, Tokens
    <3> HIDE DEF s
    <3>5. t \in Uses(a) <=> <<"call", s>> \in Told(a)
      <4>1. ASSUME t \in Uses(a) PROVE <<"call", s>> \in Told(a)
        <5>1. a \in Calls /\ t = a.token /\ ~a.late
          BY <3>3, <4>1 DEF Uses
        <5>2. s = a.read.secret
          BY <5>1 DEF Fresh, s
        <5>3. QED
          BY <3>1, <5>1, <5>2, ToldFacts
      <4>2. ASSUME <<"call", s>> \in Told(a) PROVE t \in Uses(a)
        <5>1. a \in Calls /\ s = a.read.secret
          BY <3>1, <4>2, ToldFacts
        <5>2. Holds(a.token, s)
          BY <5>1 DEF Speaks
        <5>3. t = a.token
          BY <1>5, <1>7, <3>1, <5>1, <5>2
        <5>4. QED
          BY <5>1, <5>3 DEF Uses
      <4>3. QED
        BY <4>1, <4>2
    <3>6. t \in Ends(a) <=> <<"revoke", s>> \in Told(a)
      <4>1. ASSUME t \in Ends(a) PROVE <<"revoke", s>> \in Told(a)
        <5>1. (a \in Revocations \/ (a \in Calls /\ Revokes(a))) /\ t = a.target /\ ~a.late
          BY <3>3, <4>1 DEF Ends
        <5>2. CASE a \in Revocations
          <6>1. s = a.secret
            BY <5>1, <5>2 DEF Fresh, s
          <6>2. QED
            BY <3>1, <5>2, <6>1, ToldFacts
        <5>3. CASE a \in Calls /\ Revokes(a)
          <6>1. s = a.aim.secret
            BY <5>1, <5>3 DEF Fresh, s
          <6>2. QED
            BY <3>1, <5>3, <6>1, ToldFacts
        <5>4. QED
          BY <5>1, <5>2, <5>3
      <4>2. ASSUME <<"revoke", s>> \in Told(a) PROVE t \in Ends(a)
        <5>1. \/ a \in Revocations /\ s = a.secret
              \/ a \in Calls /\ Revokes(a) /\ s = a.aim.secret
          BY <3>1, <4>2, ToldFacts
        <5>2. Holds(a.target, s) /\ a.target \in Nat
          BY <1>5, <1>6, <5>1 DEF Speaks
        <5>3. t = a.target
          BY <1>7, <3>1, <5>2
        <5>4. QED
          BY <5>1, <5>3 DEF Ends
      <4>3. QED
        BY <4>1, <4>2
    <3>7. QED
      BY <1>2, <3>2, <3>4, <3>5, <3>6
  <2>3. QED
    BY <2>1, <2>2
<1>9. ASSUME NEW kind \in {"create", "call", "revoke"}, NEW s \in Nat, <<kind, s>> \in log'
       PROVE  s <= generated'
  <2>1. generated' = IF a \in Mints THEN generated + 1 ELSE generated
    BY DEF Written
  <2>2. CASE <<kind, s>> \in log
    <3>1. s <= generated
      BY <1>1, <2>2 DEF Story
    <3>2. QED
      BY <1>4, <2>1, <3>1
  <2>3. CASE <<kind, s>> \in Told(a)
    <3>1. \/ a \in Mints /\ s = generated + 1
          \/ a \in Calls /\ s = a.read.secret
          \/ a \in Revocations /\ s = a.secret
          \/ a \in Calls /\ s = a.aim.secret
      BY <2>3, ToldFacts
    <3>2. \A t, x \in Nat : Holds(t, x) => x <= generated
      BY DEF TellInv
    <3>3. \/ a \in Mints /\ s = generated + 1
          \/ s <= generated
      BY <1>5, <1>6, <3>1, <3>2 DEF Speaks
    <3>4. QED
      BY <1>4, <2>1, <3>3
  <2>4. QED
    BY <1>2, <1>9, <2>2, <2>3
<1>10. QED
  BY <1>8, <1>9 DEF Story, Tokens

\* A write gives secrets to no row but the one it mints.
LEMMA WrittenTells ==
    ASSUME TypeOK, TellInv, NEW a \in Asks, Written(a), Fresh(a), Speaks(a),
           backup' = backup, ask' \in {ask, NoAsk}
    PROVE  TellInv'
<1>1. Story(tokens', log', generated')
  BY WrittenStory
<1>2. /\ generated \in Nat /\ generated' \in Nat /\ generated <= generated'
      /\ a \in Mints => generated' = generated + 1
  BY DEF TypeOK, Written
<1>3. backup' # NoBackup => Story(backup'.tokens, backup'.log, generated')
  BY <1>2, StoryGrows DEF TellInv
<1>4. NoAsk \notin Revocations /\ NoAsk \notin Calls
  BY Kinds DEF Asks
<1>5. \A t \in Tokens : t \in Tokens' /\ tokens'[t].secret = tokens[t].secret
  BY DEF Written, Touched, Marked
<1>6. \A t \in Tokens' \ Tokens :
          t = NextId(Tokens) /\ a \in Mints /\ tokens'[t].secret = generated + 1
  BY DEF Written, Minted
<1>7. ASSUME NEW t \in Nat, NEW s \in Nat, Holds(t, s)'
      PROVE  Holds(t, s) \/ (t = NextId(Tokens) /\ s = generated + 1 /\ a \in Mints)
  <2>1. CASE t \in Tokens' /\ s = tokens'[t].secret
    BY <1>5, <1>6, <2>1 DEF Holds
  <2>2. CASE ~(t \in Tokens' /\ s = tokens'[t].secret)
    BY <1>4, <1>7, <2>2 DEF Holds, Tokens
  <2>3. QED
    BY <2>1, <2>2
<1>8. \A t, s \in Nat : Holds(t, s) => s <= generated
  BY DEF TellInv
<1>9. ASSUME NEW t \in Nat, NEW s \in Nat, Holds(t, s)' PROVE s <= generated'
  BY <1>2, <1>7, <1>8, <1>9
<1>10. ASSUME NEW t \in Nat, NEW u \in Nat, NEW s \in Nat, Holds(t, s)', Holds(u, s)'
       PROVE  t = u
  <2>1. CASE s = generated + 1
    <3>1. ~Holds(t, s) /\ ~Holds(u, s)
      BY <1>2, <1>8, <2>1
    <3>2. QED
      BY <1>7, <1>10, <3>1
  <2>2. CASE s # generated + 1
    <3>1. Holds(t, s) /\ Holds(u, s)
      BY <1>7, <1>10, <2>2
    <3>2. QED
      BY <3>1 DEF TellInv
  <2>3. QED
    BY <2>1, <2>2
<1>11. Fresh(ask)'
  <2>1. CASE ask' = NoAsk
    BY <1>4, <2>1 DEF Fresh
  <2>2. CASE ask' = ask
    <3>1. Fresh(ask)
      BY DEF TellInv
    <3>2. QED
      BY <1>5, <2>2, <3>1 DEF Fresh
  <2>3. QED
    BY <2>1, <2>2
<1>12. QED
  BY <1>1, <1>3, <1>9, <1>10, <1>11 DEF TellInv

\* Steps that leave the tokens, the log and the backup.
LEMMA QuietTells ==
    ASSUME TypeOK, TellInv, UNCHANGED <<tokens, log, backup, generated>>,
           ask' \in {ask, NoAsk}
    PROVE  TellInv'
<1>1. NoAsk \notin Revocations /\ NoAsk \notin Calls
  BY Kinds DEF Asks
<1>2. \A t, s \in Nat : Holds(t, s)' => Holds(t, s)
  BY <1>1 DEF Holds, Tokens
<1>3. Fresh(ask)'
  BY <1>1 DEF Fresh, Tokens, TellInv
<1>4. QED
  BY <1>2, <1>3 DEF TellInv

LEMMA BeginTells == TypeOK /\ TellInv /\ Begin => TellInv'
<1> SUFFICES ASSUME TypeOK, TellInv, Begin PROVE TellInv'
  OBVIOUS
<1>1. /\ ask' \in Asked
      /\ UNCHANGED <<tokens, log, backup, generated, past>>
  BY DEF Begin, tables
<1>2. /\ ask' \in Revocations => ask'.target \in Tokens /\ ask'.secret = tokens[ask'.target].secret
      /\ ask' \in Calls =>
            /\ ask'.token \in Tokens /\ ask'.read.secret = tokens[ask'.token].secret
            /\ ask'.target \in Tokens /\ ask'.aim.secret = tokens[ask'.target].secret
  BY <1>1, AskedSpeaks
<1>3. \A t, s \in Nat : Holds(t, s)' => Holds(t, s)
  BY <1>1, <1>2 DEF Holds, Tokens
<1>4. Fresh(ask)'
  BY <1>1, <1>2 DEF Fresh, Tokens
<1>5. QED
  BY <1>1, <1>3, <1>4 DEF TellInv

\* A demotion leaves all that the log tells of.
LEMMA SetRoleTells == TypeOK /\ TellInv /\ SetRole => TellInv'
<1> SUFFICES ASSUME TypeOK, TellInv, SetRole PROVE TellInv'
  OBVIOUS
<1>1. PICK v \in Ids, role \in {"operator", "admin"} :
        /\ tokens' = [t \in Tokens |->
              IF tokens[t].user = v
              THEN [tokens[t] EXCEPT !.outgrown = tokens[t].outgrown \/ role # "admin"]
              ELSE tokens[t]]
        /\ ask' = IF ask.do = "mint" /\ ask.user = v
                  THEN [ask EXCEPT !.outgrown = ask.outgrown \/ role # "admin"] ELSE ask
        /\ UNCHANGED <<log, backup, generated, past>>
  BY DEF SetRole
<1>2. \A t \in Tokens : tokens[t] \in Rows
  BY RowFacts DEF TypeOK, Tokens
<1>3. DOMAIN tokens' = DOMAIN tokens
  BY <1>1 DEF Tokens
<1>4. \A t \in Tokens :
         /\ tokens'[t].secret = tokens[t].secret /\ tokens'[t].late = tokens[t].late
         /\ tokens'[t].used = tokens[t].used /\ tokens'[t].revoked = tokens[t].revoked
  BY <1>1, <1>2 DEF Rows
<1>5. ask' = ask \/ (ask' \notin Revocations /\ ask' \notin Calls)
  <2>1. CASE ask.do = "mint"
    <3>1. ask \in Mints
      BY <2>1, Kinds DEF TypeOK, Asks, NoAsk
    <3>2. [ask EXCEPT !.outgrown = ask.outgrown \/ role # "admin"] \in Mints
      BY <3>1 DEF Mints
    <3>3. ask' = ask \/ ask' \in Mints
      BY <1>1, <3>2
    <3>4. QED
      BY <3>3, Kinds
  <2>2. CASE ask.do # "mint"
    BY <1>1, <2>2
  <2>3. QED
    BY <2>1, <2>2
<1>6. \A t, s \in Nat : Holds(t, s)' => Holds(t, s)
  BY <1>1, <1>3, <1>4, <1>5 DEF Holds, Tokens
<1>7. Fresh(ask)'
  BY <1>3, <1>4, <1>5 DEF Fresh, TellInv, Tokens
<1>8. Story(tokens', log', generated')
  <2>1. Story(tokens, log, generated)
    BY DEF TellInv
  <2>2. QED
    BY <1>1, <1>3, <1>4, <2>1 DEF Story, Tokens
<1>9. QED
  BY <1>1, <1>6, <1>7, <1>8 DEF TellInv

LEMMA TakeBackupTells == TypeOK /\ TellInv /\ TakeBackup => TellInv'
<1> SUFFICES ASSUME TypeOK, TellInv, TakeBackup PROVE TellInv'
  OBVIOUS
<1>1. /\ backup'.tokens = tokens /\ backup'.log = log
      /\ UNCHANGED <<tokens, log, generated, past, ask>>
  BY DEF TakeBackup, Dumped, tables
<1>2. \A t, s \in Nat : Holds(t, s)' => Holds(t, s)
  BY <1>1 DEF Holds, Tokens
<1>3. Fresh(ask)'
  BY <1>1 DEF Fresh, TellInv, Tokens
<1>4. QED
  BY <1>1, <1>2, <1>3 DEF TellInv

\* A restore brings back tokens with the log that tells of them; a request on
\* its way is late from then on.
LEMMA RestoreTells == TypeOK /\ TellInv /\ Restore => TellInv'
<1> SUFFICES ASSUME TypeOK, TellInv, Restore PROVE TellInv'
  OBVIOUS
<1>1. /\ backup # NoBackup /\ backup' \in {backup, Dumped}
      /\ tokens' = backup.tokens /\ log' = backup.log
      /\ ask' = IF ask = NoAsk THEN ask ELSE [ask EXCEPT !.late = TRUE]
      /\ generated' = generated
  BY DEF Restore, RestoredLog
<1>2. Dumped.tokens = tokens /\ Dumped.log = log
  BY DEF Dumped
<1>3. ask \in Asks => ask'.late
  BY <1>1, Kinds DEF Asks, Logins, Mints, Revocations, Calls
<1>4. NoAsk \notin Revocations /\ NoAsk \notin Calls
  BY Kinds DEF Asks
<1>5. /\ ask' \in Revocations =>
            ask \in Revocations /\ ask'.target = ask.target /\ ask'.secret = ask.secret
      /\ ask' \in Calls =>
            /\ ask \in Calls /\ ask'.token = ask.token /\ ask'.read = ask.read
            /\ ask'.target = ask.target /\ ask'.aim = ask.aim
  <2>1. CASE ask = NoAsk
    BY <1>1, <1>4, <2>1
  <2>2. CASE ask \in Logins
    <3>1. ask' \in Logins
      BY <1>1, <2>2, Kinds DEF Logins, Asks
    <3>2. QED
      BY <3>1, Kinds
  <2>3. CASE ask \in Mints
    <3>1. ask' \in Mints
      BY <1>1, <2>3, Kinds DEF Mints, Asks
    <3>2. QED
      BY <3>1, Kinds
  <2>4. CASE ask \in Revocations
    <3>1. ask' \in Revocations /\ ask'.target = ask.target /\ ask'.secret = ask.secret
      BY <1>1, <2>4, Kinds DEF Revocations, Asks
    <3>2. QED
      BY <2>4, <3>1, Kinds
  <2>5. CASE ask \in Calls
    <3>1. /\ ask' \in Calls /\ ask'.token = ask.token /\ ask'.read = ask.read
          /\ ask'.target = ask.target /\ ask'.aim = ask.aim
      BY <1>1, <2>5, Kinds DEF Calls, Asks
    <3>2. QED
      BY <2>5, <3>1, Kinds
  <2>6. QED
    BY <2>1, <2>2, <2>3, <2>4, <2>5 DEF TypeOK, Asks
<1>6. \A t, s \in Nat : Holds(t, s)' => Holds(t, s)
  BY <1>1, <1>2, <1>5 DEF Holds, Tokens
<1>7. Fresh(ask)'
  BY <1>3, <1>5 DEF Fresh, Asks
<1>8. QED
  BY <1>1, <1>2, <1>6, <1>7 DEF TellInv

LEMMA TellStep == TypeOK /\ TellInv /\ [Next]_vars => TellInv'
<1> SUFFICES ASSUME TypeOK, TellInv, [Next]_vars PROVE TellInv'
  OBVIOUS
<1>1. CASE Serve
  <2>1. PICK a \in Asked : Write(a)
    BY <1>1 DEF Serve
  <2>2. a \in Asks /\ Written(a) /\ Fresh(a) /\ Speaks(a)
    BY <2>1, AskedFacts, AskedSpeaks, WriteFacts
  <2>3. backup' = backup /\ ask' = ask
    BY <1>1 DEF Serve
  <2>4. QED
    BY <2>2, <2>3, WrittenTells
<1>2. CASE Finish
  <2>1. ask \in Asks /\ Written(ask)
    BY <1>2, WriteFacts DEF Finish, TypeOK
  <2>2. Fresh(ask)
    BY DEF TellInv
  <2>3. Speaks(ask)
    BY DEF Speaks, Holds, Revocations, Calls
  <2>4. backup' = backup /\ ask' = NoAsk
    BY <1>2 DEF Finish
  <2>5. QED
    BY <2>1, <2>2, <2>3, <2>4, WrittenTells
<1>3. CASE \/ Fail \/ CreateUser \/ ToggleUser \/ DeleteUser \/ ChangeAllowlist
           \/ EndSession \/ Stop \/ BootstrapAdmin \/ SeedAllowlist \/ Rest \/ UNCHANGED vars
  <2>1. UNCHANGED <<tokens, log, backup, generated>> /\ ask' \in {ask, NoAsk}
    BY <1>3 DEF Fail, CreateUser, ToggleUser, DeleteUser, ChangeAllowlist, EndSession, Stop,
       BootstrapAdmin, SeedAllowlist, Rest, vars, tables
  <2>2. QED
    BY <2>1, QuietTells
<1>4. QED
  BY <1>1, <1>2, <1>3, BeginTells, SetRoleTells, TakeBackupTells, RestoreTells DEF Next

\* The log and the tokens tell the same story.
THEOREM AccessLogTellsTokens == Spec => []LogTellsTokens
<1>1. TypeOK /\ TellInv => LogTellsTokens
  <2> SUFFICES ASSUME TypeOK, TellInv PROVE LogTellsTokens
    OBVIOUS
  <2>1. Story(tokens, log, generated)
    BY DEF TellInv
  <2>2. QED
    BY <2>1 DEF Story, LogTellsTokens, Tokens
<1>2. QED
  BY <1>1, TypeInit, TypeStep, TellInit, TellStep, PTL DEF Spec
=============================================================================
