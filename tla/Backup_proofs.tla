--------------------------- MODULE Backup_proofs ---------------------------
(***************************************************************************)
(* Backup implements Vault, for any tables, any number of requests, and    *)
(* whatever others commit in between.                                      *)
(***************************************************************************)
EXTENDS Backup, TLAPS

Contents == [TableNames -> Int]
Steps == {"idle", "dumping", "numbered", "inserted", "done"}
Ops == {"none", "create", "restore", "upload"}

TypeOK ==
    /\ data \in Contents /\ saved \subseteq Contents
    /\ \A v \in DOMAIN backups : backups[v] \in saved
    /\ changes \in Nat
    /\ writer \in Requests \cup {Free}
    /\ pc \in [Requests -> Steps]
    /\ req \in [Requests -> [op : Ops, source : Contents]]
    /\ snap \in [Requests -> Seq(Int)]
    /\ \A r \in Requests : Len(snap[r]) <= Len(Tables)
    /\ DOMAIN number = Requests
    /\ work \in [Requests -> Contents]
    /\ raced \in [Requests -> SUBSET TableNames]

\* What a request that has only to commit has made of the tables.
Result(r) ==
    \/ req[r].op = "create" /\ work[r] = data
    \/ req[r].op = "restore" /\ work[r] = req[r].source
    \/ req[r].op = "upload" /\ \E n \in 0 .. Len(Tables) : work[r] = Filled(r, n)

\* Who has inserted holds the lock, so its number stays unused and the tables
\* stay what it started from; what is to be restored was saved or is foreign.
LockInv ==
    \A r \in Requests :
        /\ pc[r] \in {"inserted", "done"} => writer = r /\ number[r] \notin DOMAIN backups
        /\ pc[r] # "idle" => req[r].op # "none"
        /\ req[r].op \in {"restore", "upload"} => req[r].source \in saved \cup Foreign
        /\ pc[r] = "inserted" => req[r].op # "create"
        /\ pc[r] = "done" => Result(r)

\* What was dumped is what the table holds, unless others have written it since.
DumpInv ==
    \A r \in Requests :
        /\ pc[r] = "idle" => snap[r] = <<>>
        /\ pc[r] \in {"numbered", "inserted", "done"} => Len(snap[r]) = Len(Tables)
        /\ \A i \in 1 .. Len(snap[r]) : Tables[i] \in raced[r] \/ snap[r][i] = data[Tables[i]]

Inv == TypeOK /\ LockInv /\ DumpInv
-----------------------------------------------------------------------------
(* Contents.                                                               *)

LEMMA NamesFacts ==
    /\ \A i \in 1 .. Len(Tables) : Tables[i] \in TableNames
    /\ \A t \in TableNames : \E i \in 1 .. Len(Tables) : Tables[i] = t
BY DEF TableNames, V!TableNames

\* Cutting gives contents; not cutting anything off leaves them as they are.
LEMMA CutFacts ==
    ASSUME NEW s \in Contents
    PROVE  /\ \A n \in 0 .. Len(Tables) : V!Cut(s, n) \in Contents
           /\ V!Cut(s, Len(Tables)) = s
<1>1. \A n \in 0 .. Len(Tables) : V!Cut(s, n) \in Contents
  BY DEF V!Cut, V!Part, V!Empty, Contents, TableNames
<1>2. V!Cut(s, Len(Tables)) = s
  <2>1. \A t \in TableNames : \E i \in 1 .. Len(Tables) : Tables[i] = t
    BY NamesFacts
  <2>2. V!Cut(s, Len(Tables)) = [t \in TableNames |-> s[t]]
    BY <2>1 DEF V!Cut, TableNames
  <2>3. QED
    BY <2>2 DEF Contents
<1>3. QED
  BY <1>1, <1>2

LEMMA NothingFacts == Nothing \in Contents
BY DEF Nothing, Contents, Empty, V!Empty

\* What is saved has a value for every table, one that was dumped for it.
LEMMA SavedFacts ==
    ASSUME TypeOK, NEW r \in Requests, Len(snap[r]) = Len(Tables)
    PROVE  /\ Saved(r) \in Contents
           /\ \A t \in TableNames :
                 \E i \in 1 .. Len(snap[r]) : Tables[i] = t /\ Saved(r)[t] = snap[r][i]
<1>1. snap[r] \in Seq(Int) /\ Len(Tables) \in Nat
  BY BackupAssumption DEF TypeOK
<1> DEFINE at(t) == CHOOSE i \in 1 .. Len(Tables) : Tables[i] = t
<1>2. \A t \in TableNames : at(t) \in 1 .. Len(Tables) /\ Tables[at(t)] = t
  BY NamesFacts
<1>3. Saved(r) = [t \in TableNames |-> snap[r][at(t)]]
  BY DEF Saved, AsContents
<1> HIDE DEF at
<1>4. \A t \in TableNames : snap[r][at(t)] \in Int
  BY <1>1, <1>2
<1>5. QED
  BY <1>2, <1>3, <1>4 DEF Contents
-----------------------------------------------------------------------------
(* The invariant.                                                          *)

LEMMA InitInv == Init => Inv
<1> SUFFICES ASSUME Init PROVE Inv
  OBVIOUS
<1>1. TypeOK
  BY NothingFacts, BackupAssumption DEF Init, TypeOK, Contents, Steps, Ops, NoRequest
<1>2. LockInv
  BY DEF Init, LockInv, NoRequest
<1>3. DumpInv
  BY DEF Init, DumpInv
<1>4. QED
  BY <1>1, <1>2, <1>3 DEF Inv

\* A request arrives: op is what it asks for, and source what it is to restore.
Asks(r, op, source) ==
    /\ op \in {"create", "restore", "upload"}
    /\ source \in Contents
    /\ op \in {"restore", "upload"} => source \in saved \cup Foreign
    /\ Ask(r, op, source)

LEMMA StartFacts ==
    ASSUME TypeOK, NEW r \in Requests, StartCreate(r) \/ StartRestore(r) \/ StartUpload(r)
    PROVE  \E op, source : Asks(r, op, source)
<1>1. CASE StartCreate(r)
  <2>1. Asks(r, "create", Nothing)
    BY <1>1, NothingFacts DEF StartCreate, Asks
  <2>2. QED
    BY <2>1
<1>2. CASE StartRestore(r)
  <2>1. PICK v \in DOMAIN backups : Ask(r, "restore", backups[v])
    BY <1>2 DEF StartRestore
  <2>2. backups[v] \in saved /\ backups[v] \in Contents
    BY DEF TypeOK
  <2>3. Asks(r, "restore", backups[v])
    BY <2>1, <2>2 DEF Asks
  <2>4. QED
    BY <2>3
<1>3. CASE StartUpload(r)
  <2>1. PICK s \in saved \cup Foreign : Ask(r, "upload", s)
    BY <1>3 DEF StartUpload
  <2>2. s \in Contents
    BY BackupAssumption DEF TypeOK, Contents
  <2>3. Asks(r, "upload", s)
    BY <2>1, <2>2 DEF Asks
  <2>4. QED
    BY <2>3
<1>4. QED
  BY <1>1, <1>2, <1>3

LEMMA AskInv ==
    ASSUME Inv, NEW r \in Requests, NEW op, NEW source, Asks(r, op, source)
    PROVE  Inv'
<1>1. /\ pc[r] = "idle" /\ pc' = [pc EXCEPT ![r] = "dumping"]
      /\ req' = [req EXCEPT ![r] = [op |-> op, source |-> source]]
      /\ raced' = [raced EXCEPT ![r] = {}]
      /\ UNCHANGED <<data, backups, saved, changes, writer, snap, number, work>>
      /\ op \in {"create", "restore", "upload"} /\ source \in Contents
      /\ op \in {"restore", "upload"} => source \in saved \cup Foreign
  BY DEF Asks, Ask, Go
<1>2. TypeOK'
  <2>1. [op |-> op, source |-> source] \in [op : Ops, source : Contents]
    BY <1>1 DEF Ops
  <2>2. QED
    BY <1>1, <2>1 DEF Inv, TypeOK, Steps
<1>3. \A q \in Requests : q = r \/ (pc'[q] = pc[q] /\ req'[q] = req[q] /\ raced'[q] = raced[q])
  BY <1>1 DEF Inv, TypeOK
<1>4. pc'[r] = "dumping" /\ req'[r].op = op /\ req'[r].source = source
  BY <1>1 DEF Inv, TypeOK
<1>5. LockInv'
  BY <1>1, <1>3, <1>4 DEF Inv, LockInv, Result, Filled
<1>6. DumpInv'
  <2>1. snap[r] = <<>>
    BY <1>1 DEF Inv, DumpInv
  <2>2. QED
    BY <1>1, <1>3, <1>4, <2>1 DEF Inv, DumpInv
<1>7. QED
  BY <1>2, <1>5, <1>6 DEF Inv

LEMMA DumpStepInv ==
    ASSUME Inv, NEW r \in Requests, Dump(r)
    PROVE  Inv'
<1> DEFINE next == Tables[Len(snap[r]) + 1]
<1>1. /\ pc[r] = "dumping" /\ Len(snap[r]) < Len(Tables)
      /\ snap' = [snap EXCEPT ![r] = Append(snap[r], data[next])]
      /\ UNCHANGED <<data, backups, saved, changes, writer, pc, req, number, work, raced>>
  BY DEF Dump
<1>2. snap[r] \in Seq(Int) /\ Len(snap[r]) \in Nat /\ Len(Tables) \in Nat
  BY BackupAssumption DEF Inv, TypeOK
<1>3. next \in TableNames
  BY <1>1, <1>2, NamesFacts
<1>4. data[next] \in Int
  BY <1>3 DEF Inv, TypeOK, Contents
<1>5. /\ snap'[r] \in Seq(Int) /\ Len(snap'[r]) = Len(snap[r]) + 1
      /\ \A i \in 1 .. Len(snap[r]) : snap'[r][i] = snap[r][i]
      /\ snap'[r][Len(snap[r]) + 1] = data[next]
  <2>1. snap'[r] = Append(snap[r], data[next])
    BY <1>1 DEF Inv, TypeOK
  <2>2. QED
    BY <1>2, <1>4, <2>1
<1>6. \A q \in Requests : q = r \/ snap'[q] = snap[q]
  BY <1>1 DEF Inv, TypeOK
<1>7. TypeOK'
  <2>1. snap' \in [Requests -> Seq(Int)]
    BY <1>1, <1>4, <1>5, <1>6 DEF Inv, TypeOK
  <2>2. \A q \in Requests : Len(snap'[q]) <= Len(Tables)
    BY <1>1, <1>2, <1>5, <1>6 DEF Inv, TypeOK
  <2>3. QED
    BY <1>1, <2>1, <2>2 DEF Inv, TypeOK
<1>8. LockInv'
  BY <1>1 DEF Inv, LockInv, Result, Filled
<1>9. DumpInv'
  <2>1. \A i \in 1 .. Len(snap'[r]) : Tables[i] \in raced[r] \/ snap'[r][i] = data[Tables[i]]
    <3>1. \A i \in 1 .. Len(snap[r]) : Tables[i] \in raced[r] \/ snap[r][i] = data[Tables[i]]
      BY DEF Inv, DumpInv
    <3>2. QED
      BY <1>2, <1>5, <3>1
  <2>2. QED
    BY <1>1, <1>6, <2>1 DEF Inv, DumpInv
<1>10. QED
  BY <1>7, <1>8, <1>9 DEF Inv

LEMMA NumberInv ==
    ASSUME Inv, NEW r \in Requests, Number(r)
    PROVE  Inv'
<1>1. /\ Len(snap[r]) = Len(Tables)
      /\ pc[r] = "dumping" /\ pc' = [pc EXCEPT ![r] = "numbered"]
      /\ number' = [number EXCEPT ![r] = NextVersion]
      /\ UNCHANGED <<data, backups, saved, changes, writer, req, snap, work, raced>>
  BY DEF Number, Go
<1>2. TypeOK'
  BY <1>1 DEF Inv, TypeOK, Steps
<1>3. \A q \in Requests : q = r \/ (pc'[q] = pc[q] /\ number'[q] = number[q])
  BY <1>1 DEF Inv, TypeOK
<1>4. pc'[r] = "numbered"
  BY <1>1 DEF Inv, TypeOK
<1>5. LockInv'
  BY <1>1, <1>3, <1>4 DEF Inv, LockInv, Result, Filled
<1>6. DumpInv'
  BY <1>1, <1>3, <1>4 DEF Inv, DumpInv
<1>7. QED
  BY <1>2, <1>5, <1>6 DEF Inv

LEMMA InsertInv ==
    ASSUME Inv, NEW r \in Requests, Insert(r)
    PROVE  Inv'
<1> DEFINE to == IF req[r].op = "create" THEN "done" ELSE "inserted"
<1>1. /\ writer = Free /\ number[r] \notin DOMAIN backups
      /\ pc[r] = "numbered" /\ pc' = [pc EXCEPT ![r] = to]
      /\ writer' = r /\ work' = [work EXCEPT ![r] = data]
      /\ UNCHANGED <<data, backups, saved, changes, req, snap, number, raced>>
  BY DEF Insert, Go
<1>2. to \in {"done", "inserted"}
  OBVIOUS
<1>3. TypeOK'
  BY <1>1, <1>2 DEF Inv, TypeOK, Steps
<1>4. \A q \in Requests : q = r \/ (pc'[q] = pc[q] /\ work'[q] = work[q])
  BY <1>1 DEF Inv, TypeOK
<1>5. pc'[r] = to /\ work'[r] = data
  BY <1>1 DEF Inv, TypeOK
<1>6. \A q \in Requests : pc[q] \notin {"inserted", "done"}
  BY <1>1, BackupAssumption DEF Inv, LockInv
<1>7. LockInv'
  <2>1. req[r].op # "none"
    BY <1>1 DEF Inv, LockInv
  <2>2. ASSUME NEW q \in Requests
        PROVE  /\ pc'[q] \in {"inserted", "done"} => writer' = q /\ number'[q] \notin DOMAIN backups'
               /\ pc'[q] # "idle" => req'[q].op # "none"
               /\ req'[q].op \in {"restore", "upload"} => req'[q].source \in saved' \cup Foreign
               /\ pc'[q] = "inserted" => req'[q].op # "create"
               /\ pc'[q] = "done" => Result(q)'
    <3>1. CASE q = r
      BY <1>1, <1>5, <2>1, <3>1 DEF Inv, LockInv, Result
    <3>2. CASE q # r
      BY <1>1, <1>4, <1>6, <3>2 DEF Inv, LockInv
    <3>3. QED
      BY <3>1, <3>2
  <2>3. QED
    BY <2>2 DEF LockInv
<1>8. DumpInv'
  BY <1>1, <1>2, <1>4, <1>5 DEF Inv, DumpInv
<1>9. QED
  BY <1>3, <1>7, <1>8 DEF Inv

LEMMA ReplaceInv ==
    ASSUME Inv, NEW r \in Requests, Replace(r)
    PROVE  Inv'
<1>1. PICK n \in 0 .. Len(Tables) :
         /\ n < Len(Tables) => Catches(r)
         /\ work' = [work EXCEPT ![r] = Filled(r, n)]
  BY DEF Replace
<1>2. /\ pc[r] = "inserted" /\ pc' = [pc EXCEPT ![r] = "done"]
      /\ UNCHANGED <<data, backups, saved, changes, writer, req, snap, number, raced>>
  BY DEF Replace, Go
<1>3. req[r] \in [op : Ops, source : Contents]
  BY DEF Inv, TypeOK
<1>4. Filled(r, n) \in Contents /\ Filled(r, Len(Tables)) = req[r].source
  <2>1. req[r].source \in Contents
    BY <1>3
  <2>2. QED
    BY <2>1, CutFacts DEF Filled
<1>5. TypeOK'
  BY <1>1, <1>2, <1>4 DEF Inv, TypeOK, Steps
<1>6. \A q \in Requests : q = r \/ (pc'[q] = pc[q] /\ work'[q] = work[q])
  BY <1>1, <1>2 DEF Inv, TypeOK
<1>7. pc'[r] = "done" /\ work'[r] = Filled(r, n)
  BY <1>1, <1>2 DEF Inv, TypeOK
<1>8. Result(r)'
  <2>1. req[r].op \in {"restore", "upload"}
    BY <1>2, <1>3 DEF Inv, LockInv, Ops
  <2>2. CASE req[r].op = "upload"
    <3>1. work'[r] = V!Cut(req[r].source, n)
      BY <1>7 DEF Filled
    <3>2. QED
      BY <1>2, <2>2, <3>1 DEF Result, Filled
  <2>3. CASE req[r].op = "restore"
    <3>1. n = Len(Tables)
      BY <1>1, <2>3, BackupAssumption DEF Catches
    <3>2. QED
      BY <1>2, <1>4, <1>7, <2>3, <3>1 DEF Result
  <2>4. QED
    BY <2>1, <2>2, <2>3
<1>9. LockInv'
  <2>1. ASSUME NEW q \in Requests \ {r}, pc[q] = "done" PROVE Result(q)'
    <3>1. Result(q)
      BY <2>1 DEF Inv, LockInv
    <3>2. QED
      BY <1>2, <1>6, <3>1 DEF Result, Filled
  <2>2. ASSUME NEW q \in Requests
        PROVE  /\ pc'[q] \in {"inserted", "done"} => writer' = q /\ number'[q] \notin DOMAIN backups'
               /\ pc'[q] # "idle" => req'[q].op # "none"
               /\ req'[q].op \in {"restore", "upload"} => req'[q].source \in saved' \cup Foreign
               /\ pc'[q] = "inserted" => req'[q].op # "create"
               /\ pc'[q] = "done" => Result(q)'
    <3>1. CASE q = r
      BY <1>2, <1>7, <1>8, <3>1 DEF Inv, LockInv
    <3>2. CASE q # r
      BY <1>2, <1>6, <2>1, <3>2 DEF Inv, LockInv
    <3>3. QED
      BY <3>1, <3>2
  <2>3. QED
    BY <2>2 DEF LockInv
<1>10. DumpInv'
  BY <1>2, <1>6, <1>7 DEF Inv, DumpInv
<1>11. QED
  BY <1>5, <1>9, <1>10 DEF Inv

\* A request that is forgotten is as if it had never been.
LEMMA ForgetFacts ==
    ASSUME TypeOK, NEW r \in Requests, Forget(r)
    PROVE  /\ pc' \in [Requests -> Steps] /\ pc'[r] = "idle"
           /\ req' \in [Requests -> [op : Ops, source : Contents]] /\ req'[r].op = "none"
           /\ snap' \in [Requests -> Seq(Int)] /\ snap'[r] = <<>>
           /\ \A q \in Requests : Len(snap'[q]) <= Len(Tables)
           /\ DOMAIN number' = Requests
           /\ work' \in [Requests -> Contents]
           /\ \A q \in Requests \ {r} :
                 /\ pc'[q] = pc[q] /\ req'[q] = req[q] /\ snap'[q] = snap[q]
                 /\ number'[q] = number[q] /\ work'[q] = work[q]
<1>1. NoRequest \in [op : Ops, source : Contents] /\ NoRequest.op = "none"
  BY NothingFacts DEF NoRequest, Ops
<1>2. <<>> \in Seq(Int) /\ Len(<<>>) = 0
  OBVIOUS
<1>3. /\ pc' = [pc EXCEPT ![r] = "idle"] /\ req' = [req EXCEPT ![r] = NoRequest]
      /\ snap' = [snap EXCEPT ![r] = <<>>] /\ number' = [number EXCEPT ![r] = 0]
      /\ work' = [work EXCEPT ![r] = Nothing]
  BY DEF Forget
<1>4. \A q \in Requests : Len(snap'[q]) <= Len(Tables)
  BY <1>2, <1>3, BackupAssumption DEF TypeOK
<1>5. QED
  BY <1>1, <1>2, <1>3, <1>4, NothingFacts DEF TypeOK, Steps

\* Who writes tables T marks them for all who have dumped them.
LEMMA RaceFacts ==
    ASSUME TypeOK, NEW r, NEW T \in SUBSET TableNames, Race(r, T)
    PROVE  /\ raced' \in [Requests -> SUBSET TableNames]
           /\ \A q \in Requests \ {r} : \A i \in 1 .. Len(snap[q]) :
                 Tables[i] \in raced'[q] <=> Tables[i] \in raced[q] \/ Tables[i] \in T
BY DEF TypeOK, Race, Dumped

\* The writer is alone with what it has inserted.
LEMMA CommitFacts ==
    ASSUME Inv, NEW r \in Requests, Commit(r)
    PROVE  /\ pc[r] = "done" /\ data' = work[r] /\ data' \in Contents
           /\ number[r] \notin DOMAIN backups
           /\ Saved(r) \in Contents
           /\ backups' = [v \in DOMAIN backups \cup {number[r]} |->
                             IF v = number[r] THEN Saved(r) ELSE backups[v]]
           /\ saved' = saved \cup {Saved(r)}
           /\ Result(r)
           /\ \A q \in Requests \ {r} : pc[q] \notin {"inserted", "done"}
<1>1. pc[r] = "done"
  BY DEF Commit
<1>2. writer = r /\ number[r] \notin DOMAIN backups /\ Result(r)
  BY <1>1 DEF Inv, LockInv
<1>3. Saved(r) \in Contents
  <2>1. Len(snap[r]) = Len(Tables)
    BY <1>1 DEF Inv, DumpInv
  <2>2. QED
    BY <2>1, SavedFacts DEF Inv
<1>4. work[r] \in Contents
  BY DEF Inv, TypeOK
<1>5. \A q \in Requests \ {r} : pc[q] \notin {"inserted", "done"}
  BY <1>2 DEF Inv, LockInv
<1>6. QED
  BY <1>1, <1>2, <1>3, <1>4, <1>5 DEF Commit

LEMMA CommitInv ==
    ASSUME Inv, NEW r \in Requests, Commit(r)
    PROVE  Inv'
<1> DEFINE T == {t \in TableNames : work[r][t] # data[t]}
<1>1. Forget(r) /\ Race(r, T) /\ writer' = Free /\ changes' = changes
  BY DEF Commit
<1>2. T \subseteq TableNames /\ \A t \in TableNames \ T : data'[t] = data[t]
  BY CommitFacts
<1> HIDE DEF T
<1>3. TypeOK'
  <2>1. \A v \in DOMAIN backups' : backups'[v] \in saved'
    <3>1. /\ backups' = [v \in DOMAIN backups \cup {number[r]} |->
                            IF v = number[r] THEN Saved(r) ELSE backups[v]]
          /\ saved' = saved \cup {Saved(r)}
      BY CommitFacts
    <3>2. \A v \in DOMAIN backups : backups[v] \in saved
      BY DEF Inv, TypeOK
    <3>3. QED
      BY <3>1, <3>2
  <2>2. saved' \subseteq Contents /\ data' \in Contents
    BY CommitFacts DEF Inv, TypeOK
  <2>3. raced' \in [Requests -> SUBSET TableNames]
    BY <1>1, <1>2, RaceFacts DEF Inv
  <2>4. QED
    BY <1>1, <2>1, <2>2, <2>3, ForgetFacts DEF Inv, TypeOK
<1>4. LockInv'
  <2>1. ASSUME NEW q \in Requests
        PROVE  /\ pc'[q] \notin {"inserted", "done"}
               /\ pc'[q] # "idle" => req'[q].op # "none"
               /\ req'[q].op \in {"restore", "upload"} => req'[q].source \in saved' \cup Foreign
    <3>1. CASE q = r
      BY <1>1, <3>1, ForgetFacts DEF Inv
    <3>2. CASE q # r
      BY <1>1, <3>2, ForgetFacts, CommitFacts DEF Inv, LockInv
    <3>3. QED
      BY <3>1, <3>2
  <2>2. QED
    BY <2>1 DEF LockInv
<1>5. DumpInv'
  <2>1. ASSUME NEW q \in Requests \ {r}, NEW i \in 1 .. Len(snap[q])
        PROVE  Tables[i] \in raced'[q] \/ snap[q][i] = data'[Tables[i]]
    <3>1. Tables[i] \in raced[q] \/ snap[q][i] = data[Tables[i]]
      BY DEF Inv, DumpInv
    <3>2. Tables[i] \in TableNames
      <4>1. Len(snap[q]) <= Len(Tables) /\ Len(snap[q]) \in Nat /\ Len(Tables) \in Nat
        BY BackupAssumption DEF Inv, TypeOK
      <4>2. QED
        BY <4>1, NamesFacts
    <3>3. CASE Tables[i] \in T
      BY <1>1, <1>2, <3>3, RaceFacts DEF Inv
    <3>4. CASE Tables[i] \notin T
      <4>1. data'[Tables[i]] = data[Tables[i]]
        BY <1>2, <3>2, <3>4
      <4>2. Tables[i] \in raced[q] => Tables[i] \in raced'[q]
        BY <1>1, <1>2, RaceFacts DEF Inv
      <4>3. QED
        BY <3>1, <4>1, <4>2
    <3>5. QED
      BY <3>3, <3>4
  <2>2. \A q \in Requests \ {r} : pc'[q] = pc[q] /\ snap'[q] = snap[q]
    BY <1>1, ForgetFacts DEF Inv
  <2>3. pc'[r] = "idle" /\ snap'[r] = <<>>
    BY <1>1, ForgetFacts DEF Inv
  <2>4. QED
    BY <2>1, <2>2, <2>3 DEF Inv, DumpInv
<1>6. QED
  BY <1>3, <1>4, <1>5 DEF Inv

LEMMA FailInv ==
    ASSUME Inv, NEW r \in Requests, Fail(r)
    PROVE  Inv'
<1>1. /\ Forget(r) /\ raced' = [raced EXCEPT ![r] = {}]
      /\ writer' = IF writer = r THEN Free ELSE writer
      /\ UNCHANGED <<data, backups, saved, changes>>
  BY DEF Fail
<1>2. TypeOK'
  BY <1>1, ForgetFacts DEF Inv, TypeOK
<1>3. \A q \in Requests \ {r} :
         /\ pc'[q] = pc[q] /\ req'[q] = req[q] /\ snap'[q] = snap[q]
         /\ number'[q] = number[q] /\ work'[q] = work[q]
         /\ raced'[q] = raced[q]
  BY <1>1, ForgetFacts DEF Inv, TypeOK
<1>4. pc'[r] = "idle" /\ req'[r].op = "none" /\ snap'[r] = <<>>
  BY <1>1, ForgetFacts DEF Inv
<1>5. LockInv'
  <2>1. ASSUME NEW q \in Requests \ {r}, pc[q] = "done" PROVE Result(q)'
    <3>1. Result(q)
      BY <2>1 DEF Inv, LockInv
    <3>2. QED
      BY <1>1, <1>3, <3>1 DEF Result, Filled
  <2>2. ASSUME NEW q \in Requests
        PROVE  /\ pc'[q] \in {"inserted", "done"} => writer' = q /\ number'[q] \notin DOMAIN backups'
               /\ pc'[q] # "idle" => req'[q].op # "none"
               /\ req'[q].op \in {"restore", "upload"} => req'[q].source \in saved' \cup Foreign
               /\ pc'[q] = "inserted" => req'[q].op # "create"
               /\ pc'[q] = "done" => Result(q)'
    <3>1. CASE q = r
      BY <1>4, <3>1
    <3>2. CASE q # r
      BY <1>1, <1>3, <2>1, <3>2 DEF Inv, LockInv
    <3>3. QED
      BY <3>1, <3>2
  <2>3. QED
    BY <2>2 DEF LockInv
<1>6. DumpInv'
  BY <1>1, <1>3, <1>4 DEF Inv, DumpInv
<1>7. QED
  BY <1>2, <1>5, <1>6 DEF Inv

LEMMA ChangeInv == Inv /\ Change => Inv'
<1> SUFFICES ASSUME Inv, Change PROVE Inv'
  OBVIOUS
<1>1. PICK T \in (SUBSET TableNames) \ {{}} :
         /\ data' = [t \in TableNames |-> IF t \in T THEN 1 + changes' ELSE data[t]]
         /\ Race(Free, T)
  BY DEF Change
<1>2. /\ writer = Free /\ changes' = changes + 1
      /\ UNCHANGED <<backups, saved, writer, pc, req, snap, number, work>>
  BY DEF Change
<1>3. TypeOK'
  <2>1. changes' \in Nat /\ data' \in Contents
    BY <1>1, <1>2 DEF Inv, TypeOK, Contents
  <2>2. raced' \in [Requests -> SUBSET TableNames]
    BY <1>1, RaceFacts DEF Inv
  <2>3. QED
    BY <1>2, <2>1, <2>2 DEF Inv, TypeOK
<1>4. LockInv'
  <2>1. \A q \in Requests : pc[q] \notin {"inserted", "done"}
    BY <1>2, BackupAssumption DEF Inv, LockInv
  <2>2. QED
    BY <1>2, <2>1 DEF Inv, LockInv
<1>5. DumpInv'
  <2>1. ASSUME NEW q \in Requests, NEW i \in 1 .. Len(snap[q])
        PROVE  Tables[i] \in raced'[q] \/ snap[q][i] = data'[Tables[i]]
    <3>1. Tables[i] \in raced[q] \/ snap[q][i] = data[Tables[i]]
      BY DEF Inv, DumpInv
    <3>2. Tables[i] \in TableNames
      <4>1. Len(snap[q]) <= Len(Tables) /\ Len(snap[q]) \in Nat /\ Len(Tables) \in Nat
        BY BackupAssumption DEF Inv, TypeOK
      <4>2. QED
        BY <4>1, NamesFacts
    <3>3. Tables[i] \in raced'[q] <=> Tables[i] \in raced[q] \/ Tables[i] \in T
      BY <1>1, RaceFacts, BackupAssumption DEF Inv
    <3>4. Tables[i] \notin T => data'[Tables[i]] = data[Tables[i]]
      BY <1>1, <3>2
    <3>5. QED
      BY <3>1, <3>3, <3>4
  <2>2. QED
    BY <1>2, <2>1 DEF Inv, DumpInv
<1>6. QED
  BY <1>3, <1>4, <1>5 DEF Inv

LEMMA DeleteInv == Inv /\ Delete => Inv'
<1> SUFFICES ASSUME Inv, Delete PROVE Inv'
  OBVIOUS
<1>1. PICK v \in DOMAIN backups : backups' = [w \in DOMAIN backups \ {v} |-> backups[w]]
  BY DEF Delete
<1>2. UNCHANGED <<data, saved, changes, writer, pc, req, snap, number, work, raced>>
  BY DEF Delete
<1>3. TypeOK'
  BY <1>1, <1>2 DEF Inv, TypeOK
<1>4. LockInv'
  BY <1>1, <1>2 DEF Inv, LockInv, Result, Filled
<1>5. DumpInv'
  BY <1>2 DEF Inv, DumpInv
<1>6. QED
  BY <1>3, <1>4, <1>5 DEF Inv

LEMMA StepInv == Inv /\ [Next]_vars => Inv'
<1> SUFFICES ASSUME Inv, [Next]_vars PROVE Inv'
  OBVIOUS
<1>1. ASSUME NEW r \in Requests, StartCreate(r) \/ StartRestore(r) \/ StartUpload(r)
      PROVE  Inv'
  BY <1>1, StartFacts, AskInv DEF Inv
<1>2. CASE UNCHANGED vars
  BY <1>2 DEF vars, Inv, TypeOK, LockInv, DumpInv, Result, Filled
<1>3. QED
  BY <1>1, <1>2, DumpStepInv, NumberInv, InsertInv, ReplaceInv, CommitInv, FailInv,
     ChangeInv, DeleteInv DEF Next

\* Invariant for any number of requests and tables.
THEOREM BackupInv == Spec => []Inv
BY InitInv, StepInv, PTL DEF Spec
-----------------------------------------------------------------------------
(* What is seen from outside.                                              *)

\* A commit is one of the steps that Vault has.
LEMMA CommitImplements ==
    ASSUME Inv, NEW r \in Requests, Commit(r)
    PROVE  V!Next
<1>1. V!OneMore
  <2>1. number[r] \in DOMAIN backups' \ DOMAIN backups /\ backups'[number[r]] = Saved(r)
    BY CommitFacts
  <2>2. /\ backups' = [w \in DOMAIN backups \cup {number[r]} |->
                          IF w = number[r] THEN backups'[number[r]] ELSE backups[w]]
        /\ saved' = saved \cup {backups'[number[r]]}
    BY <2>1, CommitFacts
  <2>3. QED
    BY <2>1, <2>2 DEF V!OneMore
<1>2. data' = work[r] /\ Result(r)
  BY CommitFacts
<1>3. CASE req[r].op = "create" /\ work[r] = data
  BY <1>1, <1>2, <1>3 DEF V!Save, V!Next
<1>4. ASSUME req[r].op \in {"restore", "upload"}
      PROVE  req[r].source \in saved \cup Foreign /\ req[r].source \in Contents
  BY <1>4 DEF Inv, LockInv, TypeOK
<1>5. CASE req[r].op = "restore" /\ work[r] = req[r].source
  BY <1>1, <1>2, <1>4, <1>5 DEF V!Restore, V!Next
<1>6. CASE req[r].op = "upload" /\ \E n \in 0 .. Len(Tables) : work[r] = Filled(r, n)
  <2>1. PICK n \in 0 .. Len(Tables) : data' = V!Cut(req[r].source, n)
    BY <1>2, <1>6 DEF Filled
  <2>2. CASE n = Len(Tables)
    <3>1. data' = req[r].source
      BY <1>4, <1>6, <2>1, <2>2, CutFacts
    <3>2. QED
      BY <1>1, <1>4, <1>6, <3>1 DEF V!Restore, V!Next
  <2>3. CASE n # Len(Tables)
    <3>1. n \in 0 .. Len(Tables) - 1
      BY <2>3, BackupAssumption
    <3>2. QED
      BY <1>1, <1>4, <1>6, <2>1, <3>1 DEF V!HalfRestore, V!Next
  <2>4. QED
    BY <2>2, <2>3
<1>7. QED
  BY <1>2, <1>3, <1>5, <1>6 DEF Result

LEMMA InitImplements == Init => V!Init
BY DEF Init, V!Init, TableNames, V!Empty

LEMMA StepImplements ==
    Inv /\ [Next]_vars => [V!Next]_<<data, backups, saved>>
<1> SUFFICES ASSUME Inv, [Next]_vars PROVE [V!Next]_<<data, backups, saved>>
  OBVIOUS
<1>1. CASE Change
  <2>1. UNCHANGED <<backups, saved>>
    BY <1>1 DEF Change
  <2>2. QED
    BY <2>1 DEF V!Change, V!Next
<1>2. CASE Delete
  BY <1>2 DEF Delete, V!Drop, V!Next
<1>3. ASSUME NEW r \in Requests, Commit(r) PROVE V!Next
  BY <1>3, CommitImplements
<1>4. ASSUME NEW r \in Requests,
             \/ StartCreate(r) \/ StartRestore(r) \/ StartUpload(r)
             \/ Dump(r) \/ Number(r) \/ Insert(r) \/ Replace(r) \/ Fail(r)
      PROVE  UNCHANGED <<data, backups, saved>>
  BY <1>4 DEF StartCreate, StartRestore, StartUpload, Ask, Dump, Number, Insert, Replace, Fail
<1>5. CASE UNCHANGED vars
  BY <1>5 DEF vars
<1>6. QED
  BY <1>1, <1>2, <1>3, <1>4, <1>5 DEF Next

\* Backing up and restoring come to the single steps of Vault.
THEOREM BackupImplementsVault == Spec => Implements
<1>1. Init /\ [][Next]_vars /\ []Inv => V!Init /\ [][V!Next]_<<data, backups, saved>>
  BY InitImplements, StepImplements, PTL
<1>2. QED
  BY <1>1, BackupInv, PTL DEF Spec, Implements, V!Spec

\* The one whose backup appears is the one that commits.
LEMMA OneCommits ==
    ASSUME Inv, Next, NEW r \in Requests, Commits(r)
    PROVE  Commit(r)
<1>1. pc[r] = "done" /\ writer = r /\ number[r] \in DOMAIN backups' \ DOMAIN backups
  BY DEF Commits, Inv, LockInv
<1>2. CASE Change
  BY <1>1, <1>2 DEF Change
<1>3. CASE Delete
  BY <1>1, <1>3 DEF Delete
<1>4. ASSUME NEW q \in Requests, Commit(q) PROVE q = r
  BY <1>1, <1>4 DEF Commit, Inv, LockInv
<1>5. ASSUME NEW q \in Requests,
             \/ StartCreate(q) \/ StartRestore(q) \/ StartUpload(q)
             \/ Dump(q) \/ Number(q) \/ Insert(q) \/ Replace(q) \/ Fail(q)
      PROVE  FALSE
  <2>1. backups' = backups
    BY <1>5 DEF StartCreate, StartRestore, StartUpload, Ask, Dump, Number, Insert, Replace, Fail
  <2>2. QED
    BY <1>1, <2>1
<1>6. QED
  BY <1>2, <1>3, <1>4, <1>5 DEF Next

\* Restoring a stored backup is all or nothing.
THEOREM BackupStoredRestoreWhole == Spec => StoredRestoreWhole
<1>1. ASSUME Inv, Next, NEW r \in Requests, Commits(r), req[r].op = "restore"
      PROVE  data' = req[r].source
  BY <1>1, OneCommits, CommitFacts DEF Result
<1>2. ASSUME Inv, [Next]_vars
      PROVE  [\A r \in Requests :
                Commits(r) /\ req[r].op = "restore" => data' = req[r].source]_vars
  BY <1>1, <1>2
<1>3. QED
  BY <1>2, BackupInv, PTL DEF Spec, StoredRestoreWhole

\* What a restore wipes is in its backup, but for tables written since the dump.
THEOREM BackupWipedIsKept == Spec => WipedIsKept
<1>1. ASSUME Inv, Next, NEW r \in Requests, Commits(r), NEW t \in TableNames \ raced[r]
      PROVE  backups'[number[r]][t] = data[t]
  <2>1. Commit(r)
    BY <1>1, OneCommits
  <2>2. backups'[number[r]] = Saved(r) /\ pc[r] = "done"
    BY <1>1, <2>1, CommitFacts
  <2>3. Len(snap[r]) = Len(Tables)
    BY <1>1, <2>2 DEF Inv, DumpInv
  <2>4. PICK i \in 1 .. Len(snap[r]) : Tables[i] = t /\ Saved(r)[t] = snap[r][i]
    BY <1>1, <2>3, SavedFacts DEF Inv
  <2>5. QED
    BY <1>1, <2>2, <2>4 DEF Inv, DumpInv
<1>2. ASSUME Inv, [Next]_vars
      PROVE  [\A r \in Requests : Commits(r) =>
                \A t \in TableNames \ raced[r] : backups'[number[r]][t] = data[t]]_vars
  BY <1>1, <1>2
<1>3. QED
  BY <1>2, BackupInv, PTL DEF Spec, WipedIsKept
=============================================================================
