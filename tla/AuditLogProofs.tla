--------------------------- MODULE AuditLogProofs ---------------------------
(***************************************************************************)
(* Proofs about AuditLog, for any number of writers and rows.              *)
(***************************************************************************)
EXTENDS AuditLog, SequenceTheorems, TLAPS

-----------------------------------------------------------------------------
(* Type correctness.                                                       *)

LEMMA RowHashType ==
  ASSUME NEW prev \in Seq(Data), NEW d \in Data
  PROVE  RowHash(prev, d) \in Seq(Data)
  BY DEF RowHash

\* What a typed table is.
LEMMA TableFacts ==
  ASSUME TypeOK
  PROVE  /\ Len(rows) \in Nat
         /\ DOMAIN rows = 1 .. Len(rows)
         /\ rows = <<>> <=> Len(rows) = 0
         /\ \A i \in 1 .. Len(rows) :
                rows[i] \in Row /\ rows[i].data \in Data /\ rows[i].hash \in Seq(Data)
<1>1. rows \in Seq(Row)
  BY DEF TypeOK
<1>2. Len(rows) \in Nat /\ DOMAIN rows = 1 .. Len(rows)
  BY <1>1, LenProperties
<1>3. rows = <<>> <=> Len(rows) = 0
  BY <1>1, EmptySeq
<1>4. \A i \in 1 .. Len(rows) : rows[i] \in Row
  BY <1>1, ElementOfSeq
<1>5. QED BY <1>2, <1>3, <1>4 DEF Row

\* The table after an INSERT.
LEMMA InsertFacts ==
  ASSUME TypeOK, NEW row \in Row, rows' = Append(rows, row)
  PROVE  /\ rows' \in Seq(Row)
         /\ Len(rows') = Len(rows) + 1
         /\ DOMAIN rows' = 1 .. Len(rows) + 1
         /\ rows'[Len(rows) + 1] = row
         /\ \A j \in 1 .. Len(rows) : rows'[j] = rows[j]
<1>1. rows \in Seq(Row)
  BY DEF TypeOK
<1>2. /\ rows' \in Seq(Row)
      /\ Len(rows') = Len(rows) + 1
      /\ rows'[Len(rows) + 1] = row
      /\ \A j \in 1 .. Len(rows) : rows'[j] = rows[j]
  BY <1>1, AppendProperties
<1>3. QED BY <1>2, LenProperties

LEMMA LastHashType ==
  ASSUME TypeOK
  PROVE  /\ LastHash \in Seq(Data)
         /\ LastHash = IF Len(rows) = 0 THEN Genesis ELSE rows[Len(rows)].hash
<1>1. Genesis \in Seq(Data)
  BY EmptySeq DEF Genesis
<1>2. CASE rows = <<>>
  BY <1>1, <1>2, TableFacts DEF LastHash
<1>3. CASE rows # <<>>
  BY <1>3, TableFacts DEF LastHash
<1>4. QED BY <1>2, <1>3

\* Every variable keeps its type.
THEOREM TypeCorrect == Spec => []TypeOK
<1>1. Init => TypeOK
  BY DEF Init, TypeOK, Genesis
<1>2. TypeOK /\ [Next]_vars => TypeOK'
  <2> SUFFICES ASSUME TypeOK, [Next]_vars PROVE TypeOK'
    OBVIOUS
  <2> USE DEF TypeOK
  <2>1. ASSUME NEW w \in Writers, ReadPrevious(w) PROVE TypeOK'
    BY <2>1, LastHashType DEF ReadPrevious
  <2>2. ASSUME NEW w \in Writers, Insert(w) PROVE TypeOK'
    <3>1. [data |-> entry[w], hash |-> RowHash(prevHash[w], entry[w])] \in Row
      BY RowHashType DEF Row
    <3>2. QED BY <2>2, <3>1, InsertFacts DEF Insert
  <2>3. ASSUME NEW w \in Writers, Fail(w) PROVE TypeOK'
    BY <2>3 DEF Fail
  <2>4. CASE UNCHANGED vars
    BY <2>4 DEF vars
  <2>5. QED BY <2>1, <2>2, <2>3, <2>4 DEF Next
<1>3. QED BY <1>1, <1>2, PTL DEF Spec

-----------------------------------------------------------------------------
(* With any number of writers, a bad row is a fork.                        *)

\* The hashes a row at position i may be chained to.
Before(table, i) == {Genesis} \union {table[j].hash : j \in 1 .. i - 1}

\* The strengthening: a hash some writer holds is in the table, where it stays.
ForkInv ==
    /\ \A i \in DOMAIN rows :
        \E prev \in Before(rows, i) : rows[i].hash = RowHash(prev, rows[i].data)
    /\ \A w \in Writers : prevHash[w] \in Before(rows, Len(rows) + 1)

LEMMA ForkNext ==
  ASSUME TypeOK, ForkInv, [Next]_vars
  PROVE  ForkInv'
<1> USE DEF TypeOK, ForkInv
<1>1. ASSUME NEW w \in Writers, ReadPrevious(w) PROVE ForkInv'
  <2>1. LastHash \in Before(rows, Len(rows) + 1)
    BY LastHashType, TableFacts DEF Before
  <2>2. UNCHANGED rows /\ prevHash' = [prevHash EXCEPT ![w] = LastHash]
    BY <1>1 DEF ReadPrevious
  <2>3. QED BY <2>1, <2>2
<1>2. ASSUME NEW w \in Writers, Insert(w) PROVE ForkInv'
  <2> DEFINE row == [data |-> entry[w], hash |-> RowHash(prevHash[w], entry[w])]
  <2>1. rows' = Append(rows, row) /\ UNCHANGED prevHash
    BY <1>2 DEF Insert
  <2>2. row \in Row
    BY RowHashType DEF Row
  <2> HIDE DEF row
  <2>3. /\ Len(rows) \in Nat /\ DOMAIN rows = 1 .. Len(rows)
        /\ Len(rows') = Len(rows) + 1 /\ DOMAIN rows' = 1 .. Len(rows) + 1
        /\ rows'[Len(rows) + 1] = row
        /\ \A j \in 1 .. Len(rows) : rows'[j] = rows[j]
    BY <2>1, <2>2, InsertFacts, TableFacts
  <2>4. \A i \in 1 .. Len(rows) + 1 : Before(rows', i) = Before(rows, i)
    <3>1. TAKE i \in 1 .. Len(rows) + 1
    <3>2. \A j \in 1 .. i - 1 : rows'[j] = rows[j]
      BY <2>3
    <3>3. QED BY <3>2 DEF Before
  <2>5. \A v \in Writers : prevHash'[v] \in Before(rows', Len(rows') + 1)
    BY <2>1, <2>3 DEF Before
  <2>6. ASSUME NEW i \in DOMAIN rows'
        PROVE  \E prev \in Before(rows', i) : rows'[i].hash = RowHash(prev, rows'[i].data)
    <3>1. CASE i = Len(rows) + 1
      <4>1. row.hash = RowHash(prevHash[w], row.data)
        BY DEF row
      <4>2. prevHash[w] \in Before(rows', i)
        BY <3>1, <2>3, <2>4
      <4>3. QED BY <3>1, <2>3, <4>1, <4>2
    <3>2. CASE i \in 1 .. Len(rows)
      BY <3>2, <2>3, <2>4
    <3>3. i \in 1 .. Len(rows) + 1
      BY <2>3
    <3>4. QED BY <3>1, <3>2, <3>3
  <2>7. QED BY <2>5, <2>6
<1>3. ASSUME NEW w \in Writers, Fail(w) PROVE ForkInv'
  BY <1>3 DEF Fail
<1>4. CASE UNCHANGED vars
  BY <1>4 DEF vars
<1>5. QED BY <1>1, <1>2, <1>3, <1>4 DEF Next

\* However many processes log at once, what verify_integrity reports are forks of the chain.
THEOREM BadRowsAreForksHolds == Spec => []BadRowsAreForks
<1>1. Init => ForkInv
  BY DEF Init, ForkInv, Before
<1>2. TypeOK /\ ForkInv /\ [Next]_vars => ForkInv'
  BY ForkNext
<1>3. TypeOK /\ ForkInv => BadRowsAreForks
  BY DEF TypeOK, ForkInv, BadRowsAreForks, BadRows, Before
<1>4. QED BY <1>1, <1>2, <1>3, TypeCorrect, PTL DEF Spec

-----------------------------------------------------------------------------
(* A single writer never forks it.                                         *)

SingleWriter == \A v, w \in Writers : v = w

\* The strengthening: the writer inserts after the very row it read.
ChainInv ==
    /\ Valid
    /\ \A w \in Writers : pc[w] = "read" => prevHash[w] = LastHash

LEMMA ChainNext ==
  ASSUME SingleWriter, TypeOK, ChainInv, [Next]_vars
  PROVE  ChainInv'
<1> USE DEF TypeOK, ChainInv
<1>1. ASSUME NEW w \in Writers, ReadPrevious(w) PROVE ChainInv'
  BY <1>1 DEF ReadPrevious, SingleWriter, Valid, BadRows, ExpectedHash, LastHash
<1>2. ASSUME NEW w \in Writers, Insert(w) PROVE ChainInv'
  <2> DEFINE row == [data |-> entry[w], hash |-> RowHash(prevHash[w], entry[w])]
  <2>1. rows' = Append(rows, row) /\ pc' = [pc EXCEPT ![w] = "idle"] /\ prevHash[w] = LastHash
    BY <1>2 DEF Insert
  <2>2. row \in Row
    BY RowHashType DEF Row
  <2>3. row.hash = RowHash(LastHash, row.data)
    BY <2>1
  <2> HIDE DEF row
  <2>4. /\ Len(rows) \in Nat /\ DOMAIN rows = 1 .. Len(rows)
        /\ Len(rows') = Len(rows) + 1 /\ DOMAIN rows' = 1 .. Len(rows) + 1
        /\ rows'[Len(rows) + 1] = row
        /\ \A j \in 1 .. Len(rows) : rows'[j] = rows[j]
    BY <2>1, <2>2, InsertFacts, TableFacts
  <2>5. ASSUME NEW i \in 1 .. Len(rows) PROVE rows'[i].hash = ExpectedHash(rows', i)
    <3>1. rows[i].hash = ExpectedHash(rows, i)
      BY <2>4 DEF Valid, BadRows
    <3>2. i # 1 => i - 1 \in 1 .. Len(rows)
      BY <2>4
    <3>3. QED BY <2>4, <3>1, <3>2 DEF ExpectedHash
  <2>6. rows'[Len(rows) + 1].hash = ExpectedHash(rows', Len(rows) + 1)
    <3>1. LastHash = IF Len(rows) + 1 = 1 THEN Genesis ELSE rows[Len(rows)].hash
      BY <2>4, LastHashType
    <3>2. Len(rows) + 1 # 1 => rows'[Len(rows) + 1 - 1] = rows[Len(rows)]
      BY <2>4
    <3>3. QED BY <2>3, <2>4, <3>1, <3>2 DEF ExpectedHash
  <2>7. Valid'
    BY <2>4, <2>5, <2>6 DEF Valid, BadRows
  <2>8. QED BY <2>1, <2>7 DEF SingleWriter
<1>3. ASSUME NEW w \in Writers, Fail(w) PROVE ChainInv'
  BY <1>3 DEF Fail, Valid, BadRows, ExpectedHash, LastHash
<1>4. CASE UNCHANGED vars
  BY <1>4 DEF vars, Valid, BadRows, ExpectedHash, LastHash
<1>5. QED BY <1>1, <1>2, <1>3, <1>4 DEF Next

\* With one writing process, verify_integrity never raises a false alarm, failed writes included.
THEOREM ValidHolds ==
  ASSUME SingleWriter
  PROVE  Spec => []Valid
<1>1. Init => ChainInv
  BY DEF Init, ChainInv, Valid, BadRows
<1>2. TypeOK /\ ChainInv /\ [Next]_vars => ChainInv'
  BY ChainNext
<1>3. ChainInv => Valid
  BY DEF ChainInv
<1>4. QED BY <1>1, <1>2, <1>3, TypeCorrect, PTL DEF Spec

-----------------------------------------------------------------------------
(* What the chain detects.                                                 *)

\* Two rows chained to the same hash have the same hash only if they say the same.
LEMMA HashTellsData ==
  ASSUME NEW p \in Seq(Data), NEW d \in Data, NEW e \in Data, RowHash(p, d) = RowHash(p, e)
  PROVE  d = e
<1>1. RowHash(p, d)[Len(p) + 1] = d /\ RowHash(p, e)[Len(p) + 1] = e
  BY DEF RowHash
<1>2. QED BY <1>1

\* An edited row is reported, and the verdict on the others stays: their hashes are chained to the
\* stored hash of the row before, which an edit leaves alone.
LEMMA EditOfTypeOK == TypeOK => EditIsDetected
<1> SUFFICES ASSUME TypeOK, NEW i \in DOMAIN rows, NEW d \in Data \ {rows[i].data},
                    i \notin BadRows(rows)
             PROVE  BadRows([rows EXCEPT ![i].data = d]) = BadRows(rows) \union {i}
  BY DEF EditIsDetected
<1> DEFINE edited == [rows EXCEPT ![i].data = d]
           Prev(k) == IF k = 1 THEN Genesis ELSE rows[k - 1].hash
<1>1. /\ i \in 1 .. Len(rows) /\ Len(rows) \in Nat /\ DOMAIN rows = 1 .. Len(rows)
      /\ rows[i] \in Row /\ rows[i].data \in Data
  BY TableFacts
<1>2. Prev(i) \in Seq(Data)
  BY <1>1, TableFacts, EmptySeq DEF Genesis
<1>3. /\ DOMAIN edited = DOMAIN rows
      /\ edited[i].data = d /\ edited[i].hash = rows[i].hash
      /\ \A k \in DOMAIN rows : k # i => edited[k] = rows[k]
  <2>1. rows[i] = [data |-> rows[i].data, hash |-> rows[i].hash]
    BY <1>1 DEF Row
  <2>2. edited[i] = [rows[i] EXCEPT !.data = d]
    BY <1>1, TableFacts
  <2>3. QED BY <2>1, <2>2
<1>4. rows[i].hash = RowHash(Prev(i), rows[i].data)
  BY DEF BadRows, ExpectedHash
<1> HIDE DEF edited
<1>5. ASSUME NEW k \in DOMAIN rows
      PROVE  /\ edited[k].hash = rows[k].hash
             /\ ExpectedHash(edited, k) = RowHash(Prev(k), edited[k].data)
  <2>1. \A j \in DOMAIN rows : edited[j].hash = rows[j].hash
    BY <1>3
  <2>2. k # 1 => k - 1 \in DOMAIN rows
    BY <1>1
  <2>3. QED BY <2>1, <2>2 DEF ExpectedHash
<1>6. edited[i].hash # ExpectedHash(edited, i)
  BY <1>1, <1>2, <1>3, <1>4, <1>5, HashTellsData
<1>7. ASSUME NEW k \in DOMAIN rows, k # i
      PROVE  edited[k].hash = ExpectedHash(edited, k) <=> rows[k].hash = ExpectedHash(rows, k)
  BY <1>3, <1>5, <1>7 DEF ExpectedHash
<1>8. BadRows(edited) = BadRows(rows) \union {i}
  BY <1>1, <1>3, <1>6, <1>7 DEF BadRows
<1>9. QED BY <1>8 DEF edited

\* In every reachable table, forked or not, an edit of what a row says is reported, and of that row
\* alone.
THEOREM EditIsDetectedHolds == Spec => []EditIsDetected
  BY EditOfTypeOK, TypeCorrect, PTL

\* Without row i, the row after it is chained to a hash that is one entry longer than that of the
\* row now before it.
LEMMA DeletionOfTypeOK == TypeOK => DeletionIsDetected
<1> SUFFICES ASSUME TypeOK, Valid, NEW i \in 1 .. Len(rows) - 1
             PROVE  i \in BadRows(Without(rows, i))
  BY DEF DeletionIsDetected
<1> DEFINE cut == Without(rows, i)
           prev == IF i = 1 THEN Genesis ELSE rows[i - 1].hash
           data == rows[i + 1].data
<1>1. /\ Len(rows) \in Nat /\ DOMAIN rows = 1 .. Len(rows)
      /\ i \in DOMAIN rows /\ i + 1 \in DOMAIN rows /\ i \in 1 .. Len(rows) - 1
      /\ i # 1 => i - 1 \in DOMAIN rows /\ i - 1 < i /\ i - 1 \in 1 .. Len(rows) - 1
  BY DEF TypeOK
<1>2. /\ prev \in Seq(Data)
      /\ rows[i].data \in Data /\ rows[i].hash \in Seq(Data)
      /\ data \in Data
  BY <1>1, TableFacts, EmptySeq DEF Genesis
<1>3. rows[i].hash = RowHash(prev, rows[i].data)
  BY <1>1 DEF Valid, BadRows, ExpectedHash
<1>4. rows[i + 1].hash = RowHash(rows[i].hash, data)
  BY <1>1 DEF Valid, BadRows, ExpectedHash
<1>5. /\ i \in DOMAIN cut
      /\ cut[i] = rows[i + 1]
      /\ i # 1 => cut[i - 1] = rows[i - 1]
  BY <1>1 DEF Without
<1> HIDE DEF cut
<1>6. ExpectedHash(cut, i) = RowHash(prev, data)
  BY <1>5 DEF ExpectedHash
<1>7. RowHash(rows[i].hash, data) # RowHash(prev, data)
  <2>1. Len(rows[i].hash) = Len(prev) + 1
    BY <1>2, <1>3 DEF RowHash
  <2>2. Len(RowHash(rows[i].hash, data)) = Len(rows[i].hash) + 1
    BY <1>2 DEF RowHash
  <2>3. Len(RowHash(prev, data)) = Len(prev) + 1
    BY <1>2 DEF RowHash
  <2>4. QED BY <1>2, <2>1, <2>2, <2>3
<1>8. QED BY <1>4, <1>5, <1>6, <1>7 DEF BadRows, cut

\* In every reachable table that verifies, the deletion of a row other than the last is reported.
THEOREM DeletionIsDetectedHolds == Spec => []DeletionIsDetected
  BY DeletionOfTypeOK, TypeCorrect, PTL
=============================================================================
