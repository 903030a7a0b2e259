------------------------------- MODULE Vault -------------------------------
(***************************************************************************)
(* What backups and restores promise, each being one step: saving leaves   *)
(* the data alone and overwrites no other backup, a restore makes the data *)
(* that of something saved or brought from elsewhere and leaves one more   *)
(* backup behind.                                                          *)
(*                                                                         *)
(* The one step nobody would ask for is in here too, for the code takes    *)
(* it: HalfRestore, when an upload turns out not to fit the schema.        *)
(***************************************************************************)
EXTENDS Integers, Sequences

CONSTANTS
    Tables,     \* the data tables, a sequence in which parents come first
    Foreign     \* contents of files from other instances

VARIABLES
    data,       \* data[t]: the contents of table t
    backups,    \* a function from version numbers to contents
    saved       \* the contents of all files that can have been downloaded

TableNames == {Tables[i] : i \in 1 .. Len(Tables)}
Empty == 0
Part == -1      \* the rows of a table up to one that does not fit

\* The first n tables of s, part of the next one, and the others emptied.
Cut(s, n) ==
    [t \in TableNames |->
        CASE \E i \in 1 .. n : Tables[i] = t -> s[t]
          [] n < Len(Tables) /\ Tables[n + 1] = t -> Part
          [] OTHER -> Empty]

Init ==
    /\ data \in [TableNames -> Nat \ {Empty}]
    /\ backups = <<>>
    /\ saved = {}

OneMore ==
    \E v \in DOMAIN backups' \ DOMAIN backups :
        /\ backups' = [w \in DOMAIN backups \cup {v} |->
                          IF w = v THEN backups'[v] ELSE backups[w]]
        /\ saved' = saved \cup {backups'[v]}

\* Everything else that the application does.
Change == data' # data /\ UNCHANGED <<backups, saved>>

Save == OneMore /\ UNCHANGED data

Drop ==
    /\ \E v \in DOMAIN backups :
          backups' = [w \in DOMAIN backups \ {v} |-> backups[w]]
    /\ UNCHANGED <<data, saved>>

Restore == OneMore /\ data' \in saved \cup Foreign

HalfRestore ==
    /\ OneMore
    /\ \E s \in saved \cup Foreign, n \in 0 .. Len(Tables) - 1 : data' = Cut(s, n)

Next == Change \/ Save \/ Drop \/ Restore \/ HalfRestore

Spec == Init /\ [][Next]_<<data, backups, saved>>
=============================================================================
