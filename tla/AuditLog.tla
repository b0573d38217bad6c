------------------------------ MODULE AuditLog ------------------------------
(***************************************************************************)
(* storage/audit_log.py: an append-only table whose rows are chained by    *)
(* hashes.  log() reads the last row's hash, computes its own and inserts; *)
(* each call opens a connection of its own, and nothing locks the table    *)
(* between the SELECT and the INSERT.                                      *)
(*                                                                         *)
(* SHA256 is taken to be injective: the hash of a row is the sequence of   *)
(* the data it was computed from, the previous hash first.                 *)
(***************************************************************************)
EXTENDS Sequences, Naturals

CONSTANTS
    Writers,    \* threads and worker processes that share the database
    Data,       \* what a row says: action, operator, detail, ids, time
    MaxRows     \* bound

ASSUME AuditConstants == MaxRows \in Nat

VARIABLES
    rows,       \* the table, by id
    pc,         \* where each writer's log() is
    prevHash,   \* the hash it read
    entry       \* the row it is writing

vars == <<rows, pc, prevHash, entry>>

Genesis == <<>>

\* A hash of the row alone.
RowHashUnchained(prev, data) == <<data>>

\* sha256(prev_hash + row_data).
RowHash(prev, data) == Append(prev, data)

\* A verification that goes on from the hash it expected of the previous row.
ExpectedHashRunning(table, i) == [j \in 1 .. i |-> table[j].data]

\* verify_integrity: the rows whose stored hash is not that of the stored previous hash.
ExpectedHash(table, i) ==
    RowHash(IF i = 1 THEN Genesis ELSE table[i - 1].hash, table[i].data)

BadRows(table) == {i \in DOMAIN table : table[i].hash # ExpectedHash(table, i)}

Row == [data : Data, hash : Seq(Data)]

TypeOK ==
    /\ rows \in Seq(Row)
    /\ pc \in [Writers -> {"idle", "read"}]
    /\ prevHash \in [Writers -> Seq(Data)]
    /\ entry \in [Writers -> Data]

Init ==
    /\ rows = <<>>
    /\ pc = [w \in Writers |-> "idle"]
    /\ prevHash = [w \in Writers |-> Genesis]
    /\ entry \in [Writers -> Data]

LastHash == IF rows = <<>> THEN Genesis ELSE rows[Len(rows)].hash

\* SELECT row_hash ... ORDER BY id DESC LIMIT 1.
ReadPrevious(w) ==
    /\ pc[w] = "idle"
    /\ Len(rows) < MaxRows
    /\ prevHash' = [prevHash EXCEPT ![w] = LastHash]
    /\ \E d \in Data : entry' = [entry EXCEPT ![w] = d]
    /\ pc' = [pc EXCEPT ![w] = "read"]
    /\ UNCHANGED rows

\* The time taken again between the hash and the INSERT.
InsertWithNewTime(w) ==
    /\ pc[w] = "read"
    /\ \E d \in Data :
        rows' = Append(rows, [data |-> d, hash |-> RowHash(prevHash[w], entry[w])])
    /\ pc' = [pc EXCEPT ![w] = "idle"]
    /\ UNCHANGED <<prevHash, entry>>

\* INSERT and commit.
Insert(w) ==
    /\ pc[w] = "read"
    /\ rows' = Append(rows, [data |-> entry[w], hash |-> RowHash(prevHash[w], entry[w])])
    /\ pc' = [pc EXCEPT ![w] = "idle"]
    /\ UNCHANGED <<prevHash, entry>>

\* A failed write remembered.
FailRemembered(w) ==
    /\ pc[w] = "read"
    /\ pc' = [pc EXCEPT ![w] = "failed"]
    /\ UNCHANGED <<rows, prevHash, entry>>

\* The database is locked, or the process dies: nothing is inserted.
Fail(w) ==
    /\ pc[w] = "read"
    /\ pc' = [pc EXCEPT ![w] = "idle"]
    /\ UNCHANGED <<rows, prevHash, entry>>

Next == \E w \in Writers : ReadPrevious(w) \/ Insert(w) \/ Fail(w)

Spec == Init /\ [][Next]_vars

-----------------------------------------------------------------------------
\* verify_integrity reports no bad row: what log() writes is what it expects.
Valid == BadRows(rows) = {}

\* However many writers there are, a row verify_integrity reports is chained to some earlier row:
\* concurrent log() calls fork the chain, they never write a hash from nowhere.
BadRowsAreForks ==
    \A i \in BadRows(rows) :
        \E prev \in {Genesis} \union {rows[j].hash : j \in 1 .. i - 1} :
            rows[i].hash = RowHash(prev, rows[i].data)

\* Changing what a row says makes verify_integrity report exactly that row in addition, unless it
\* did already: no fork before it hides the edit, and no row after it is blamed for it.
EditIsDetected ==
    \A i \in DOMAIN rows : \A d \in Data \ {rows[i].data} :
        i \notin BadRows(rows) =>
            BadRows([rows EXCEPT ![i].data = d]) = BadRows(rows) \union {i}

\* Deleting a row other than the last from a valid table makes verify_integrity report one.
Without(table, i) ==
    [j \in 1 .. Len(table) - 1 |-> IF j < i THEN table[j] ELSE table[j + 1]]

DeletionIsDetected ==
    Valid => \A i \in 1 .. Len(rows) - 1 : BadRows(Without(rows, i)) # {}
=============================================================================
