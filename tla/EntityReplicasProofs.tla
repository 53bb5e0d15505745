------------------------ MODULE EntityReplicasProofs ------------------------
(***************************************************************************)
(* Replicas of a row converge, for any number of devices, fields, values   *)
(* and stamps.  The inductive invariant says what a device's row is: each  *)
(* cell is one of the writes to it that the device has learnt, of the      *)
(* latest clock, and the newest of them if none edited a list in place.    *)
(* Two facts about the writes themselves make it inductive: a value is     *)
(* never missing, and a write without a clock is the birth of the row, not *)
(* deleted (so the rule that an unclocked tie is kept never separates two  *)
(* devices).                                                               *)
(***************************************************************************)
EXTENDS EntityReplicas, TLAPS

\* Every device can store every field, and a write is stamped past what the
\* device already carries.
Assumed == OldDevices = {} /\ ~SkewedClocks

WellWritten == \A d \in Devices, k \in Keys : \A c \in seen[d][k] :
                 /\ c.val # Undefined
                 /\ c.clock = 0 => c.val = Null
                 /\ k = Deleted => c.val <= Null
Latest(c, set)  == c \in set /\ \A x \in set : x.clock <= c.clock
Holds(k, c, set) == Latest(c, set) /\ (Clear(k, set) => Newest(c, set))
RowIsNewest == \A d \in Devices, k \in Keys :
                 IF Has(d) THEN Holds(k, row[d][k], seen[d][k]) ELSE seen[d][k] = {}
IInv == TypeOK /\ WellWritten /\ RowIsNewest

(***************************************************************************)
(* The operators of Crdt                                                   *)
(***************************************************************************)

\* mergeTwo picks one of the two cells (crdt.ts:35-75).
LEMMA MergeCellPicks == \A a, b : MergeCell(a, b) \in {a, b}
  BY DEF MergeCell

\* The keys of a row, and the numbers stamps and values are.
LEMMA Constants == /\ Deleted \in Keys /\ Deleted \notin Fields
                   /\ Keys = Fields \union {Deleted}
                   /\ ById \subseteq Fields
                   /\ Null \in Nat /\ Null > MaxStamp /\ MaxStamp \in Nat
                   /\ Undefined \in Nat /\ Undefined # Null
                   /\ \A s \in Stamps : s \in Nat /\ s > 0 /\ s <= MaxStamp
                   /\ \A v \in Values : v \in Nat /\ v # Undefined
  BY CrdtAssumption DEF Keys, Null, Undefined, Stamps

\* A stamped value is a cell.
LEMMA StampedCell == \A s \in Stamps, v \in Nat : [clock |-> s, val |-> v] \in Cells
  BY Constants DEF Cells

\* So is a cell whose value alone is changed (finish_update).
LEMMA RevaluedCell == \A c \in Cells, v \in Nat : [c EXCEPT !.val = v] \in Cells
  BY DEF Cells

\* mergeTwo keeps rows rows.
LEMMA MergeTwoRow == ASSUME NEW a \in Rows, NEW b \in Rows PROVE MergeTwo(a, b) \in Rows
  BY MergeCellPicks DEF MergeTwo, Rows

\* The commands of vault_object.rs leave rows on disk.
LEMMA NewRowRow == ASSUME NEW data \in [Fields -> Values], NEW s \in Stamps
                   PROVE  NewRow(data, s) \in Rows
  <1>1. [clock |-> 0, val |-> Null] \in Cells
    BY Constants DEF Cells
  <1>2. \A k \in Fields : [clock |-> s, val |-> data[k]] \in Cells
    BY Constants, StampedCell
  <1> QED BY <1>1, <1>2, Constants DEF NewRow, Rows

\* A saved form leaves a row (merge_fields!, finish_update).
LEMMA UpdateRow == ASSUME NEW r \in Rows, NEW data \in [Fields -> Values], NEW s \in Stamps
                   PROVE  Update(r, data, s) \in Rows
  <1>1. [r[Deleted] EXCEPT !.val = Null] \in Cells
    BY Constants, RevaluedCell DEF Rows
  <1>2. ASSUME NEW k \in Fields PROVE Bump(k, r[k], data[k], s) \in Cells
    <2>1. r[k].clock \in 0..MaxStamp /\ s \in 0..MaxStamp /\ data[k] \in Nat
      BY Constants DEF Rows, Cells
    <2> QED BY <2>1 DEF Bump, Cells
  <1> QED BY <1>1, <1>2, Constants DEF Update, Rows

\* So does a delete (tombstone).
LEMMA TombstoneRow == ASSUME NEW r \in Rows, NEW s \in Stamps PROVE Tombstone(r, s) \in Rows
  BY Constants, StampedCell DEF Tombstone, Rows

\* So does a command of a field or two (refile_into_folder).
LEMMA StampFieldsRow == ASSUME NEW r \in Rows, NEW F \in SUBSET (Fields \ ById),
                               NEW g \in [F -> Values], NEW s \in Stamps
                        PROVE  StampFields(r, g, s) \in Rows
  BY Constants, StampedCell DEF StampFields, Rows

\* An old version's save drops values, never clocks.
LEMMA StoredRow == ASSUME NEW d, NEW r \in Rows PROVE Stored(d, r) \in Rows
  <1>1. \A k \in Keys : [r[k] EXCEPT !.val = Undefined] \in Cells
    BY Constants, RevaluedCell DEF Rows
  <1> QED BY <1>1 DEF Stored, Rows

\* initial_clocks stamps a new row, and no command takes a stamp away.
LEMMA NewRowStamped == ASSUME NEW data \in [Fields -> Values], NEW s \in Stamps
                       PROVE  Stamped(NewRow(data, s))
  BY Constants DEF Stamped, NewRow

\* merge_fields! stamps what it changes.
LEMMA UpdateStamped == ASSUME NEW r \in Rows, Stamped(r),
                              NEW data \in [Fields -> Values], NEW s \in Stamps
                       PROVE  Stamped(Update(r, data, s))
  <1>1. \A f \in Fields : Update(r, data, s)[f] = Bump(f, r[f], data[f], s)
    BY Constants DEF Update
  <1>2. \A f, c, v : Bump(f, c, v, s).clock \in {c.clock, s}
    BY DEF Bump
  <1>3. s # 0
    BY Constants
  <1>4. \A f \in Fields : Bump(f, r[f], data[f], s).clock # 0
    BY <1>2, <1>3 DEF Stamped
  <1> QED BY <1>1, <1>4 DEF Stamped

\* So do the commands of a field or two (refile_into_folder and the like).
LEMMA StampFieldsStamped == ASSUME NEW r \in Rows, Stamped(r), NEW g, NEW s \in Stamps
                            PROVE  Stamped(StampFields(r, g, s))
  <1>1. \A f \in Fields : StampFields(r, g, s)[f].clock \in {s, r[f].clock}
    BY Constants DEF StampFields
  <1>2. s # 0
    BY Constants
  <1> QED BY <1>1, <1>2 DEF Stamped

\* Neither does a merge (crdt.ts:35-75).
LEMMA MergeTwoStamped ==
  ASSUME NEW a \in Rows, NEW b \in Rows, Stamped(a), Stamped(b)
  PROVE  Stamped(MergeTwo(a, b))
  BY MergeCellPicks, Constants DEF Stamped, MergeTwo

(***************************************************************************)
(* Types                                                                   *)
(***************************************************************************)

\* A command that makes a stamped row of a row keeps the types.
LEMMA WriteTypeOK == ASSUME TypeOK, NEW d \in Devices, NEW r \in Rows, Stamped(r), Write(d, r)
                     PROVE  TypeOK'
  <1>1. Stored(d, r) \in Rows
    BY StoredRow
  <1>2. \A k \in Keys : r[k] \in Cells
    BY DEF Rows
  <1>3. row' \in [Devices -> Rows]
    BY <1>1 DEF TypeOK, Write
  <1>4. seen' \in [Devices -> [Keys -> SUBSET Cells]]
    BY <1>2 DEF TypeOK, Write
  <1>5. Stamped(Stored(d, r))
    <2>1. \A f \in Fields : f \in Keys /\ r[f] \in Cells
      BY <1>2, Constants
    <2> QED BY <2>1 DEF Stamped, Stored, Cells
  <1>6. ASSUME NEW e \in Devices, Has(e)' PROVE Stamped(row'[e])
    <2>1. CASE e = d
      BY <1>5, <2>1 DEF Write, TypeOK
    <2>2. CASE e # d
      BY <1>6, <2>2 DEF Write, TypeOK, Has, Absent
    <2> QED BY <2>1, <2>2
  <1> QED BY <1>3, <1>4, <1>6 DEF TypeOK, Stamped

\* The row of no device (mergeEntities takes the other side's).
LEMMA AbsentRow == Absent \in Rows
  BY Constants DEF Absent, Rows, Cells

\* The devices begin without the row.
LEMMA InitTypeOK == Init => TypeOK
  BY AbsentRow DEF Init, TypeOK, Has

\* Each command and each merge keeps the types.
LEMMA StepTypeOK == TypeOK /\ [Next]_vars => TypeOK'
  <1> SUFFICES ASSUME TypeOK, [Next]_vars PROVE TypeOK'
    OBVIOUS
  <1>1. \A d \in Devices : row[d] \in Rows /\ (Has(d) => Stamped(row[d]))
    BY DEF TypeOK
  <1>2. \A d \in Devices : NowAt(d) \subseteq Stamps
    BY DEF NowAt
  <1>3. ASSUME NEW d \in Devices, NEW s \in Stamps, NEW data \in [Fields -> Values],
               Create(d, data, s) \/ SaveForm(d, data, s)
        PROVE  TypeOK'
    BY <1>1, <1>3, WriteTypeOK, NewRowRow, NewRowStamped,
       UpdateRow, UpdateStamped DEF Create, SaveForm
  <1>4. ASSUME NEW d \in Devices, NEW s \in Stamps, Delete(d, s)
        PROVE  TypeOK'
    <2> DEFINE r == Tombstone(row[d], s)
    <2>1. Has(d) /\ row[d] \in Rows /\ Stamped(row[d])
      BY <1>1, <1>4 DEF Delete
    <2>2. r \in Rows /\ Stamped(r)
      BY <2>1, TombstoneRow, Constants DEF Tombstone, Stamped, Rows
    <2> QED BY <1>4, <2>2, WriteTypeOK DEF Delete
  <1>5. ASSUME NEW d \in Devices, NEW s \in Stamps, NEW F \in SUBSET (Fields \ ById),
               NEW g \in [F -> Values], Refile(d, g, s)
        PROVE  TypeOK'
    BY <1>1, <1>5, WriteTypeOK, StampFieldsRow, StampFieldsStamped DEF Refile
  <1>6. ASSUME NEW d \in Devices, SaveAnotherRow(d)
        PROVE  TypeOK'
    BY <1>1, <1>6, WriteTypeOK DEF SaveAnotherRow
  <1>7. ASSUME NEW d \in Devices, NEW e \in Devices, MergeFrom(d, e)
        PROVE  TypeOK'
    <2>1. row' \in [Devices -> Rows]
      BY <1>1, <1>7, MergeTwoRow DEF MergeFrom, TypeOK
    <2>2. seen' \in [Devices -> [Keys -> SUBSET Cells]]
      BY <1>7 DEF MergeFrom, TypeOK
    <2>3. ASSUME NEW x \in Devices, Has(x)' PROVE Stamped(row'[x])
      <3>1. CASE x = d
        BY <1>1, <1>7, <3>1, MergeTwoStamped DEF MergeFrom, TypeOK
      <3>2. CASE x # d
        BY <2>3, <3>2, <1>7 DEF MergeFrom, TypeOK, Has, Absent
      <3> QED BY <3>1, <3>2
    <2> QED BY <2>1, <2>2, <2>3 DEF TypeOK, Stamped
  <1>8. CASE UNCHANGED vars
    BY <1>8 DEF vars, TypeOK, Has, Absent, Stamped
  <1> QED BY <1>2, <1>3, <1>4, <1>5, <1>6, <1>7, <1>8 DEF Next, NowAt

\* Rows and histories have their types, old versions and skewed clocks included.
THEOREM TypeCorrect == Spec => []TypeOK
  BY InitTypeOK, StepTypeOK, PTL DEF Spec

(***************************************************************************)
(* What a row holds                                                        *)
(***************************************************************************)

\* A cell the write leaves alone, one whose elements it edits in place, or one
\* past everything learnt of its key.
Fresh(d, k, c) == \/ Has(d) /\ c = row[d][k]
                  \/ /\ Has(d) /\ k \in ById /\ c # row[d][k] /\ c.val # Undefined
                     /\ c.clock = row[d][k].clock /\ c.clock # 0
                     /\ Ids(c.val) = Ids(row[d][k].val)
                  \/ /\ c.val # Undefined
                     /\ c.clock = 0 => c.val = Null
                     /\ k = Deleted => c.val <= Null
                     /\ \A x \in seen[d][k] : NoNewer(x, c)

\* Any command whose cells are fresh keeps the invariant.
LEMMA WriteKeeps ==
  ASSUME Assumed, IInv, NEW d \in Devices, NEW r \in Rows, Write(d, r),
         \A k \in Keys : Fresh(d, k, r[k])
  PROVE  (WellWritten /\ RowIsNewest)'
  <1>1. Stored(d, r) = r
    BY DEF Stored, Assumed
  <1>2. /\ row'[d] = r
        /\ \A e \in Devices : e # d => row'[e] = row[e] /\ seen'[e] = seen[e]
        /\ \A k \in Keys : seen'[d][k] = IF r[k] = row[d][k] THEN seen[d][k]
                                                            ELSE seen[d][k] \union {r[k]}
    BY <1>1 DEF Write, IInv, TypeOK
  <1>3. \A k \in Keys : r[k] \in Cells /\ NoNewer(r[k], r[k])
    BY Constants DEF Rows, Cells, NoNewer
  <1>4. ASSUME NEW k \in Keys PROVE r[k].val # Undefined /\ (Has(d) \/ r[k] # row[d][k])
    <2>1. CASE Has(d) /\ r[k] = row[d][k]
      BY <2>1 DEF IInv, RowIsNewest, Holds, Latest, WellWritten
    <2>2. CASE ~(Has(d) /\ r[k] = row[d][k])
      BY <2>2 DEF Fresh, Has, Absent
    <2> QED BY <2>1, <2>2
  <1>5. ASSUME NEW k \in Keys PROVE Holds(k, r[k], seen'[d][k])
    <2>1. CASE Has(d) /\ r[k] = row[d][k]
      BY <1>2, <2>1 DEF IInv, RowIsNewest
    <2>2. CASE /\ Has(d) /\ k \in ById /\ r[k] # row[d][k]
               /\ r[k].clock = row[d][k].clock /\ Ids(r[k].val) = Ids(row[d][k].val)
      <3>1. seen'[d][k] = seen[d][k] \union {r[k]} /\ Latest(row[d][k], seen[d][k])
        BY <1>2, <2>2 DEF IInv, RowIsNewest, Holds
      <3>2. Latest(r[k], seen'[d][k])
        BY <1>3, <2>2, <3>1 DEF Latest, Cells
      <3>3. ~Clear(k, seen'[d][k])
        BY <2>2, <3>1 DEF Clear, Latest
      <3> QED BY <3>2, <3>3 DEF Holds
    <2>3. CASE \A x \in seen[d][k] : NoNewer(x, r[k])
      <3>1. Newest(r[k], seen'[d][k])
        <4>1. CASE Has(d) \/ r[k] # row[d][k]
          <5>1. r[k] \in seen'[d][k]
            BY <1>2, <2>3, <4>1 DEF IInv, RowIsNewest, Holds, Latest
          <5> QED BY <1>2, <1>3, <2>3, <5>1 DEF Newest
        <4> QED BY <1>4, <4>1
      <3>2. \A x \in seen'[d][k] : x.clock \in Nat
        <4>1. seen'[d][k] \subseteq seen[d][k] \union {r[k]} /\ seen[d][k] \subseteq Cells
          BY <1>2 DEF IInv, TypeOK
        <4> QED BY <1>3, <4>1 DEF Cells
      <3>3. Latest(r[k], seen'[d][k])
        BY <1>3, <3>1, <3>2 DEF Newest, NoNewer, Latest, Cells
      <3> QED BY <3>1, <3>3 DEF Holds
    <2> QED BY <2>1, <2>2, <2>3 DEF Fresh
  <1>6. Has(d)'
    <2>1. r # Absent
      BY <1>4, Constants DEF Absent
    <2> QED BY <1>2, <2>1 DEF Has, Absent
  <1>7. RowIsNewest'
    <2> SUFFICES ASSUME NEW e \in Devices, NEW k \in Keys
                 PROVE  (IF Has(e) THEN Holds(k, row[e][k], seen[e][k]) ELSE seen[e][k] = {})'
      BY DEF RowIsNewest
    <2>1. CASE e = d
      BY <1>2, <1>5, <1>6, <2>1 DEF Holds, Latest, Clear, Newest, NoNewer
    <2>2. CASE e # d
      BY <1>2, <2>2 DEF IInv, RowIsNewest, Has, Absent, Holds, Latest, Clear, Newest, NoNewer
    <2> QED BY <2>1, <2>2
  <1>8. WellWritten'
    <2> SUFFICES ASSUME NEW e \in Devices, NEW k \in Keys, NEW c \in seen'[e][k]
                 PROVE  /\ c.val # Undefined
                        /\ c.clock = 0 => c.val = Null
                        /\ k = Deleted => c.val <= Null
      BY DEF WellWritten, Undefined, Null
    <2>1. CASE c \in seen[e][k]
      BY <2>1 DEF IInv, WellWritten
    <2>2. CASE c \notin seen[e][k]
      <3>1. e = d /\ c = r[k] /\ r[k] # row[d][k]
        BY <1>2, <2>2
      <3> QED BY <3>1, Constants DEF Fresh
    <2> QED BY <2>1, <2>2
  <1> QED BY <1>7, <1>8

\* A stamp taken on a device is past every write the device has learnt.
LEMMA StampsPast ==
  ASSUME Assumed, IInv, NEW d \in Devices, Has(d), NEW s \in NowAt(d), NEW k \in Keys
  PROVE  /\ s \in Stamps /\ s \in Nat /\ s # 0
         /\ \A x \in seen[d][k] : x.clock < s
  <1>1. s \in Stamps /\ row[d][k].clock < s
    BY DEF NowAt, Assumed
  <1>2. \A x \in seen[d][k] : x.clock \in Nat /\ x.clock <= row[d][k].clock
    BY DEF IInv, TypeOK, RowIsNewest, Holds, Latest, Cells
  <1>3. row[d][k].clock \in Nat
    BY DEF IInv, TypeOK, Rows, Cells
  <1> QED BY <1>1, <1>2, <1>3, Constants

\* The cell of a stamped write is fresh.
LEMMA StampIsFresh ==
  ASSUME Assumed, IInv, NEW d \in Devices, Has(d), NEW s \in NowAt(d), NEW k \in Keys,
         NEW v \in Nat, v # Undefined, k = Deleted => v <= Null
  PROVE  Fresh(d, k, [clock |-> s, val |-> v])
  BY StampsPast DEF Fresh, NoNewer

\* Create: nobody has learnt anything yet.
LEMMA CreateKeeps ==
  ASSUME Assumed, IInv, NEW d \in Devices, NEW s \in Stamps, NEW data \in [Fields -> Values],
         Create(d, data, s)
  PROVE  (WellWritten /\ RowIsNewest)'
  <1>1. \A k \in Keys : seen[d][k] = {}
    BY DEF Create, IInv, RowIsNewest
  <1>2. \A k \in Keys : Fresh(d, k, NewRow(data, s)[k])
    BY <1>1, Constants DEF Fresh, NewRow
  <1> QED BY <1>2, NewRowRow, WriteKeeps DEF Create

\* SaveForm: a field the form does not change keeps its clock, and clearing
\* deleted_at under the clock of the delete is the newer value of that clock.
LEMMA SaveFormKeeps ==
  ASSUME Assumed, IInv, NEW d \in Devices, NEW s \in NowAt(d), NEW data \in [Fields -> Values],
         SaveForm(d, data, s)
  PROVE  (WellWritten /\ RowIsNewest)'
  <1>1. Has(d) /\ row[d] \in Rows /\ s \in Stamps
    BY DEF SaveForm, IInv, TypeOK, NowAt
  <1>2. ASSUME NEW k \in Fields PROVE Fresh(d, k, Update(row[d], data, s)[k])
    <2> DEFINE c == [clock |-> row[d][k].clock, val |-> data[k]]
    <2>1. Update(row[d], data, s)[k] = Bump(k, row[d][k], data[k], s) /\ k \in Keys
      BY Constants DEF Update
    <2>2. data[k] \in Nat /\ data[k] # Undefined /\ row[d][k].clock # 0
      BY <1>1, Constants DEF IInv, TypeOK, Stamped
    <2>3. CASE Changes(k, row[d][k].val, data[k])
      BY <1>1, <2>1, <2>2, <2>3, StampIsFresh, Constants DEF Bump
    <2>4. CASE row[d][k].val = data[k]
      <3>1. Bump(k, row[d][k], data[k], s) = c
        BY <2>4 DEF Bump, Changes
      <3>2. c = row[d][k]
        BY <1>1, <2>1, <2>4 DEF Rows, Cells
      <3> QED BY <1>1, <2>1, <3>1, <3>2 DEF Fresh
    <2>5. CASE ~Changes(k, row[d][k].val, data[k]) /\ row[d][k].val # data[k]
      <3>1. Bump(k, row[d][k], data[k], s) = c
        BY <2>5 DEF Bump
      <3>2. k \in ById /\ Ids(data[k]) = Ids(row[d][k].val)
        BY <2>5 DEF Changes
      <3>3. c.val = data[k] /\ c.clock = row[d][k].clock /\ c # row[d][k]
        BY <2>5
      <3> QED BY <1>1, <2>1, <2>2, <3>1, <3>2, <3>3 DEF Fresh
    <2> QED BY <2>3, <2>4, <2>5
  <1>3. Fresh(d, Deleted, Update(row[d], data, s)[Deleted])
    <2> DEFINE c == [row[d][Deleted] EXCEPT !.val = Null]
    <2>1. Update(row[d], data, s)[Deleted] = c /\ row[d][Deleted] \in Cells
      BY <1>1, Constants DEF Update, Rows
    <2>2. c.val = Null /\ c.clock = row[d][Deleted].clock /\ c.clock \in Nat
      BY <2>1 DEF Cells
    <2>3. \A x \in seen[d][Deleted] : NoNewer(x, row[d][Deleted]) /\ x.val <= Null
      BY <1>1, Constants DEF IInv, RowIsNewest, Holds, Clear, Newest, WellWritten
    <2>4. \A x \in seen[d][Deleted] : NoNewer(x, c)
      BY <2>2, <2>3 DEF NoNewer
    <2> QED BY <2>1, <2>2, <2>4, Constants DEF Fresh
  <1>4. \A k \in Keys : Fresh(d, k, Update(row[d], data, s)[k])
    BY <1>2, <1>3, Constants
  <1> QED BY <1>1, <1>4, UpdateRow, WriteKeeps DEF SaveForm

\* Delete stamps one cell (tombstone).
LEMMA DeleteKeeps ==
  ASSUME Assumed, IInv, NEW d \in Devices, NEW s \in NowAt(d), Delete(d, s)
  PROVE  (WellWritten /\ RowIsNewest)'
  <1>1. Has(d) /\ row[d] \in Rows /\ s \in Stamps
    BY DEF Delete, IInv, TypeOK, NowAt
  <1>2. s \in Nat /\ s # Undefined /\ s <= Null
    BY <1>1, Constants DEF Undefined
  <1>3. Fresh(d, Deleted, [clock |-> s, val |-> s])
    BY <1>1, <1>2, Constants, StampIsFresh
  <1>4. \A k \in Keys : Fresh(d, k, Tombstone(row[d], s)[k])
    BY <1>1, <1>3 DEF Tombstone, Rows, Fresh
  <1> QED BY <1>1, <1>4, TombstoneRow, WriteKeeps DEF Delete

\* Refile stamps a cell or two (refile_into_folder).
LEMMA RefileKeeps ==
  ASSUME Assumed, IInv, NEW d \in Devices, NEW s \in NowAt(d),
         NEW F \in SUBSET (Fields \ ById), NEW g \in [F -> Values], Refile(d, g, s)
  PROVE  (WellWritten /\ RowIsNewest)'
  <1>1. Has(d) /\ row[d] \in Rows /\ s \in Stamps
    BY DEF Refile, IInv, TypeOK, NowAt
  <1>2. \A f \in F : Fresh(d, f, [clock |-> s, val |-> g[f]])
    BY <1>1, Constants, StampIsFresh
  <1>3. \A k \in Keys : Fresh(d, k, StampFields(row[d], g, s)[k])
    BY <1>1, <1>2 DEF StampFields, Rows, Fresh
  <1> QED BY <1>1, <1>3, StampFieldsRow, WriteKeeps DEF Refile

\* A save of the rest of the collection changes nothing, with no old version.
LEMMA SaveAnotherRowKeeps ==
  ASSUME Assumed, IInv, NEW d \in Devices, SaveAnotherRow(d)
  PROVE  (WellWritten /\ RowIsNewest)'
  <1>1. Has(d) /\ row[d] \in Rows
    BY DEF SaveAnotherRow, IInv, TypeOK
  <1>2. \A k \in Keys : Fresh(d, k, row[d][k])
    BY <1>1 DEF Fresh
  <1> QED BY <1>1, <1>2, WriteKeeps DEF SaveAnotherRow

(***************************************************************************)
(* Merges                                                                  *)
(***************************************************************************)

\* mergeTwo keeps the newest of the writes either side has learnt.
LEMMA MergeCellNewest ==
  ASSUME NEW A \in SUBSET Cells, NEW B \in SUBSET Cells, NEW a, NEW b,
         Newest(a, A), Newest(b, B),
         \A c \in A \union B : c.val # Undefined /\ (c.clock = 0 => c.val = Null)
  PROVE  Newest(MergeCell(a, b), A \union B)
  <1>1. \A c \in A \union B : c.clock \in Nat /\ c.val \in Nat
    BY Constants DEF Cells
  <1>2. a \in A /\ b \in B
    BY DEF Newest
  <1>3. CASE BWins(a, b)
    <2>1. NoNewer(a, b)
      BY <1>1, <1>2, <1>3 DEF BWins, NoNewer
    <2>2. \A x \in A \union B : NoNewer(x, b)
      BY <1>1, <1>2, <2>1 DEF NoNewer, Newest
    <2> QED BY <1>2, <1>3, <2>2 DEF MergeCell, Newest
  <1>4. CASE ~BWins(a, b)
    <2>1. NoNewer(b, a)
      BY <1>1, <1>2, <1>4 DEF BWins, NoNewer
    <2>2. \A x \in A \union B : NoNewer(x, a)
      BY <1>1, <1>2, <2>1 DEF NoNewer, Newest
    <2> QED BY <1>2, <1>4, <2>2 DEF MergeCell, Newest
  <1> QED BY <1>3, <1>4

\* And one of the latest clock, whatever was edited in place.
LEMMA MergeCellLatest ==
  ASSUME NEW A \in SUBSET Cells, NEW B \in SUBSET Cells, NEW a, NEW b,
         Latest(a, A), Latest(b, B)
  PROVE  Latest(MergeCell(a, b), A \union B)
  <1>1. \A c \in A \union B : c.clock \in Nat
    BY DEF Cells
  <1>2. a \in A /\ b \in B
    BY DEF Latest
  <1>3. CASE BWins(a, b)
    <2>1. a.clock <= b.clock
      BY <1>1, <1>2, <1>3 DEF BWins
    <2> QED BY <1>1, <1>2, <1>3, <2>1 DEF MergeCell, Latest
  <1>4. CASE ~BWins(a, b)
    <2>1. b.clock <= a.clock
      BY <1>1, <1>2, <1>4 DEF BWins
    <2> QED BY <1>1, <1>2, <1>4, <2>1 DEF MergeCell, Latest
  <1> QED BY <1>3, <1>4

\* A merge joins two histories, and the row with them.
LEMMA MergeFromKeeps ==
  ASSUME Assumed, IInv, NEW d \in Devices, NEW e \in Devices, MergeFrom(d, e)
  PROVE  (WellWritten /\ RowIsNewest)'
  <1>1. /\ row'[d] = IF Has(d) THEN MergeTwo(row[d], row[e]) ELSE row[e]
        /\ \A x \in Devices : x # d => row'[x] = row[x] /\ seen'[x] = seen[x]
        /\ \A k \in Keys : seen'[d][k] = seen[d][k] \union seen[e][k]
        /\ Has(e)
    BY DEF MergeFrom, IInv, TypeOK
  <1>2. ASSUME NEW k \in Keys PROVE Holds(k, row'[d][k], seen'[d][k])
    <2>1. seen[d][k] \in SUBSET Cells /\ seen[e][k] \in SUBSET Cells
      BY DEF IInv, TypeOK
    <2>2. \A c \in seen[d][k] \union seen[e][k] : c.val # Undefined /\ (c.clock = 0 => c.val = Null)
      BY DEF IInv, WellWritten
    <2>3. Holds(k, row[e][k], seen[e][k])
      BY <1>1 DEF IInv, RowIsNewest
    <2>4. CASE Has(d)
      <3>1. Holds(k, row[d][k], seen[d][k])
        BY <2>4 DEF IInv, RowIsNewest
      <3>2. row'[d][k] = MergeCell(row[d][k], row[e][k])
        BY <1>1, <2>4 DEF MergeTwo
      <3>3. Latest(row'[d][k], seen'[d][k])
        BY <1>1, <2>1, <2>3, <3>1, <3>2, MergeCellLatest DEF Holds
      <3>4. ASSUME Clear(k, seen'[d][k]) PROVE Newest(row'[d][k], seen'[d][k])
        <4>1. Clear(k, seen[d][k]) /\ Clear(k, seen[e][k])
          BY <1>1, <3>4 DEF Clear
        <4> QED BY <1>1, <2>1, <2>2, <2>3, <3>1, <3>2, <4>1, MergeCellNewest DEF Holds
      <3> QED BY <3>3, <3>4 DEF Holds
    <2>5. CASE ~Has(d)
      <3>1. seen[d][k] = {}
        BY <2>5 DEF IInv, RowIsNewest
      <3>2. seen'[d][k] = seen[e][k] /\ row'[d][k] = row[e][k]
        BY <1>1, <2>5, <3>1
      <3> QED BY <2>3, <3>2
    <2> QED BY <2>4, <2>5
  <1>3. Has(d)'
    <2>1. Deleted \in Keys /\ row'[d][Deleted].val # Undefined
      BY <1>1, <1>2, Constants DEF IInv, WellWritten, Holds, Latest
    <2> QED BY <2>1 DEF Has, Absent
  <1>4. RowIsNewest'
    <2> SUFFICES ASSUME NEW x \in Devices, NEW k \in Keys
                 PROVE  (IF Has(x) THEN Holds(k, row[x][k], seen[x][k]) ELSE seen[x][k] = {})'
      BY DEF RowIsNewest
    <2>1. CASE x = d
      BY <1>2, <1>3, <2>1 DEF Holds, Latest, Clear, Newest, NoNewer
    <2>2. CASE x # d
      BY <1>1, <2>2 DEF IInv, RowIsNewest, Has, Absent, Holds, Latest, Clear, Newest, NoNewer
    <2> QED BY <2>1, <2>2
  <1>5. WellWritten'
    BY <1>1 DEF IInv, WellWritten, Undefined, Null
  <1> QED BY <1>4, <1>5

(***************************************************************************)
(* The invariant and what follows from it                                  *)
(***************************************************************************)

\* Nothing is learnt yet, and no row exists.
LEMMA InitIInv == Init => IInv
  <1> SUFFICES ASSUME Init PROVE IInv
    OBVIOUS
  <1>1. WellWritten /\ RowIsNewest
    BY DEF Init, WellWritten, RowIsNewest, Has
  <1> QED BY <1>1, InitTypeOK DEF IInv

\* Every command and every merge keeps each cell the newest write learnt.
LEMMA StepIInv == Assumed /\ IInv /\ [Next]_vars => IInv'
  <1> SUFFICES ASSUME Assumed, IInv, [Next]_vars PROVE IInv'
    OBVIOUS
  <1>1. TypeOK'
    BY StepTypeOK DEF IInv
  <1>3. CASE Next
    <2>1. \A d \in Devices : NowAt(d) \subseteq Stamps
      BY DEF NowAt
    <2>2. \A d \in Devices : \A s \in NowAt(d), data \in [Fields -> Values] :
            Create(d, data, s) \/ SaveForm(d, data, s) => (WellWritten /\ RowIsNewest)'
      BY <2>1, CreateKeeps, SaveFormKeeps
    <2>3. \A d \in Devices : \A s \in NowAt(d) : Delete(d, s) => (WellWritten /\ RowIsNewest)'
      BY DeleteKeeps
    <2>4. \A d \in Devices : \A s \in NowAt(d), F \in SUBSET (Fields \ ById) : \A g \in [F -> Values] :
            Refile(d, g, s) => (WellWritten /\ RowIsNewest)'
      BY RefileKeeps
    <2> QED BY <1>3, <2>2, <2>3, <2>4, SaveAnotherRowKeeps, MergeFromKeeps, <1>1 DEF Next, IInv
  <1>4. CASE UNCHANGED vars
    BY <1>1, <1>4 DEF vars, IInv, WellWritten, RowIsNewest, Has, Absent, Holds, Latest, Clear,
       Newest, NoNewer, Undefined, Null
  <1> QED BY <1>3, <1>4

\* The newest write of a set is one write.
LEMMA NewestUnique ==
  ASSUME NEW A \in SUBSET Cells, NEW a, NEW b, Newest(a, A), Newest(b, A)
  PROVE  a = b
  <1>1. a \in Cells /\ b \in Cells /\ NoNewer(a, b) /\ NoNewer(b, a)
    BY DEF Newest
  <1>2. a.clock = b.clock /\ a.val = b.val
    BY <1>1, Constants DEF NoNewer, Cells
  <1> QED BY <1>1, <1>2 DEF Cells

\* What a device has learnt decides its row, and whether it shows it.
LEMMA IInvDecides == IInv => SeenDecidesRow /\ AliveAsHistory
  <1> SUFFICES ASSUME IInv PROVE SeenDecidesRow /\ AliveAsHistory
    OBVIOUS
  <1>1. \A d \in Devices, k \in Keys : seen[d][k] \in SUBSET Cells
    BY DEF IInv, TypeOK
  <1>2. ASSUME NEW d \in Devices, NEW e \in Devices, seen[d] = seen[e], NEW k \in Keys
        PROVE  /\ row[d][k].clock = row[e][k].clock
               /\ Clear(k, seen[d][k]) => row[d][k] = row[e][k]
    <2>1. Has(d) <=> Has(e)
      BY <1>2 DEF IInv, RowIsNewest, Holds, Latest
    <2>2. CASE ~Has(d)
      BY <2>1, <2>2 DEF Has
    <2>3. CASE Has(d)
      <3>1. Holds(k, row[d][k], seen[d][k]) /\ Holds(k, row[e][k], seen[d][k])
        BY <1>2, <2>1, <2>3 DEF IInv, RowIsNewest
      <3>2. row[d][k].clock = row[e][k].clock
        BY <1>1, <3>1, Constants DEF Holds, Latest, Cells
      <3> QED BY <1>1, <3>1, <3>2, NewestUnique DEF Holds
    <2> QED BY <2>2, <2>3
  <1>3. ASSUME NEW d \in Devices, Has(d)
        PROVE  Alive(row[d]) <=> LiveByHistory(seen[d])
    <2>1. \A k \in Keys : Latest(row[d][k], seen[d][k])
      BY <1>3 DEF IInv, RowIsNewest, Holds
    <2>2. Newest(row[d][Deleted], seen[d][Deleted])
      BY <1>3, Constants DEF IInv, RowIsNewest, Holds, Clear
    <2>3. \A n : Newest(n, seen[d][Deleted]) => n = row[d][Deleted]
      BY <1>1, <2>2, NewestUnique, Constants
    <2>4. \A k \in Keys : \A c \in seen[d][k] : c.clock <= row[d][k].clock /\ c.clock \in Nat
      BY <1>1, <2>1, Constants DEF Latest, Cells
    <2>5. \A k \in Keys : row[d][k] \in seen[d][k] /\ row[d][k].clock \in Nat /\ row[d][k].val \in Nat
      BY <1>1, <2>1 DEF Latest, Cells
    <2>6. ASSUME NEW v \in Nat
          PROVE  (\E k \in Keys : row[d][k].clock > v)
                   <=> (\E k \in Keys : \E c \in seen[d][k] : c.clock > v)
      BY <2>4, <2>5
    <2> QED BY <2>2, <2>3, <2>5, <2>6, Constants DEF Alive, LiveByHistory
  <1> QED BY <1>2, <1>3 DEF SeenDecidesRow, AliveAsHistory

\* Under the assumptions the invariant holds.
LEMMA InvariantHolds == Assumed /\ Spec => []IInv
  <1>1. Assumed => []Assumed
    <2>1. Assumed => Assumed'
      BY DEF Assumed
    <2> QED BY <2>1, PTL
  <1> QED BY InitIInv, StepIInv, <1>1, PTL DEF Spec

\* Strong convergence of mergeEntities (crdt.ts:82-96) under the commands of
\* connections.rs: devices that have learnt the same writes hold the same clocks,
\* and the same values but where elements were edited in place.
THEOREM Converges == Assumed /\ Spec => []SeenDecidesRow
  BY InvariantHolds, IInvDecides, PTL

\* A device shows a row or not by the newest delete and the newest write it has
\* learnt (isAlive, crdt.ts): no merge loses a delete, and none undoes one.
THEOREM ShownByHistory == Assumed /\ Spec => []AliveAsHistory
  BY InvariantHolds, IInvDecides, PTL

\* A merge never takes a device's clock back (bWins, crdt.ts:19-23), old
\* versions and skewed clocks included.
THEOREM ClocksKept == Spec => MergeKeepsClocks
  <1>1. ASSUME TypeOK, NEW d \in Devices, NEW e \in Devices, MergeFrom(d, e), NEW k \in Keys
        PROVE  row'[d][k].clock >= row[d][k].clock
    <2>1. row[d][k].clock \in Nat /\ row[e][k].clock \in Nat
      BY <1>1 DEF TypeOK, Rows, Cells
    <2>2. CASE Has(d)
      <3>1. row'[d][k] = MergeCell(row[d][k], row[e][k])
        BY <1>1, <2>2 DEF MergeFrom, TypeOK, MergeTwo
      <3> QED BY <2>1, <3>1 DEF MergeCell, BWins
    <2>3. CASE ~Has(d)
      <3>1. row[d][k].clock = 0 /\ row'[d][k] = row[e][k]
        BY <1>1, <2>3 DEF MergeFrom, TypeOK, Has, Absent
      <3> QED BY <2>1, <3>1
    <2> QED BY <2>2, <2>3
  <1>2. TypeOK /\ [Next]_vars =>
          [\A d, e \in Devices :
             MergeFrom(d, e) => \A k \in Keys : row'[d][k].clock >= row[d][k].clock]_vars
    BY <1>1
  <1> QED BY <1>2, TypeCorrect, PTL DEF Spec, MergeKeepsClocks
=============================================================================
