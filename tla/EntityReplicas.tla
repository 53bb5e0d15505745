--------------------------- MODULE EntityReplicas ---------------------------
(***************************************************************************)
(* One synced row (a connection, folder, key, ...) replicated on several   *)
(* devices: the Rust commands edit the local copy, and a merge takes in    *)
(* the copy another device published.  `seen[d]` is a history variable:    *)
(* every cell write that has reached d, whether made there or merged in.   *)
(***************************************************************************)
EXTENDS Crdt

CONSTANTS Devices,
          OldDevices,  \* devices whose version cannot store NewFields
          NewFields,   \* fields whose None is left out of the serialised row
          SkewedClocks \* TRUE: a device's clock may run behind what it merged

ASSUME ReplicasAssumption == /\ OldDevices \subseteq Devices
                             /\ NewFields \subseteq Fields
                             /\ SkewedClocks \in BOOLEAN

VARIABLES row,   \* row[d]: the row on d's disk, or Absent
          seen   \* seen[d][k]: the cells of key k that d has learnt

vars == <<row, seen>>

Absent == [k \in Keys |-> [clock |-> 0, val |-> Undefined]]
Has(d) == row[d] # Absent

Init == /\ row  = [d \in Devices |-> Absent]
        /\ seen = [d \in Devices |-> [k \in Keys |-> {}]]

(***************************************************************************)
(* A write takes the wall clock.  Synchronised clocks show as a stamp past *)
(* everything the row already carries; concurrent writes may still tie.    *)
(***************************************************************************)
NowAt(d) == IF SkewedClocks THEN Stamps
            ELSE {s \in Stamps : \A k \in Keys : s > row[d][k].clock}

\* A save on an old version writes the rows back without the new fields.
Stored(d, r) ==
  IF d \in OldDevices
  THEN [k \in Keys |-> IF k \in NewFields THEN [r[k] EXCEPT !.val = Undefined]
                                          ELSE r[k]]
  ELSE r

\* The command leaves row r on d's disk; the cells it changed are the write.
Write(d, r) ==
  /\ row'  = [row EXCEPT ![d] = Stored(d, r)]
  /\ seen' = [seen EXCEPT ![d] =
                [k \in Keys |-> IF r[k] = row[d][k] THEN seen[d][k]
                                ELSE seen[d][k] \union {r[k]}]]

(***************************************************************************)
(* Commands and merges                                                     *)
(***************************************************************************)

\* A row is created once, under a fresh id.
Create(d, data, s) ==
  /\ \A e \in Devices : ~Has(e)
  /\ Write(d, NewRow(data, s))

\* The form carries every field, as it was when the form was opened.
SaveForm(d, data, s) == Has(d) /\ Write(d, Update(row[d], data, s))

Delete(d, s) == Has(d) /\ Write(d, Tombstone(row[d], s))

\* Refile, and the other commands that set a field or two by themselves.
Refile(d, g, s) == Has(d) /\ Write(d, StampFields(row[d], g, s))

\* Any other save of the collection rewrites the whole file.
SaveAnotherRow(d) == Has(d) /\ Write(d, row[d])

\* mergeEntities: a row only one side has is taken as it is.
MergeFrom(d, e) ==
  /\ d # e
  /\ Has(e)
  /\ row'  = [row EXCEPT ![d] = IF Has(d) THEN MergeTwo(row[d], row[e]) ELSE row[e]]
  /\ seen' = [seen EXCEPT ![d] = [k \in Keys |-> seen[d][k] \union seen[e][k]]]

Next ==
  \E d \in Devices :
    \/ \E s \in NowAt(d), data \in [Fields -> Values] :
         Create(d, data, s) \/ SaveForm(d, data, s)
    \/ \E s \in NowAt(d) : Delete(d, s)
    \/ \E s \in NowAt(d), F \in SUBSET (Fields \ ById) \ {{}} : \E g \in [F -> Values] : Refile(d, g, s)
    \/ SaveAnotherRow(d)
    \/ \E e \in Devices : MergeFrom(d, e)

Spec == Init /\ [][Next]_vars

(***************************************************************************)
(* Properties                                                              *)
(***************************************************************************)

\* Rows and histories are well formed, and every synced field of a row carries a
\* clock: no command, merge or old version leaves one unstamped.
Stamped(r) == \A f \in Fields : r[f].clock # 0
TypeOK == /\ row  \in [Devices -> Rows]
          /\ seen \in [Devices -> [Keys -> SUBSET Cells]]
          /\ \A d \in Devices : Has(d) => Stamped(row[d])

\* The newest write of a set: the latest clock, then the greatest value.
NoNewer(x, c)  == x.clock < c.clock \/ (x.clock = c.clock /\ x.val <= c.val)
Newest(c, set) == c \in set /\ \A x \in set : NoNewer(x, c)

\* No write of the set has edited elements in place: that leaves two lists of
\* the same ids under one clock.
Clear(k, set) ==
  k \in ById => \A x, y \in set : x.clock = y.clock /\ Ids(x.val) = Ids(y.val) => x = y

\* Two devices that have learnt the same writes hold the same clocks, and the
\* same values of every field whose edits were all stamped, whatever the order
\* the writes and the merged copies reached them in.
SeenDecidesRow ==
  \A d, e \in Devices : seen[d] = seen[e] =>
    \A k \in Keys : /\ row[d][k].clock = row[e][k].clock
                    /\ Clear(k, seen[d][k]) => row[d][k] = row[e][k]

\* The history's verdict: nothing newer than the last delete, or an edit of the
\* tombstoned row, means dead.
LiveByHistory(h) ==
  \E n \in h[Deleted] :
    /\ Newest(n, h[Deleted])
    /\ n.val = Null \/ \E k \in Keys : \E c \in h[k] : c.clock > n.val

\* A device shows a row exactly when no delete it has learnt is newer than
\* every write it has learnt: a delete is neither lost nor undone by a merge.
AliveAsHistory ==
  \A d \in Devices : Has(d) => (Alive(row[d]) <=> LiveByHistory(seen[d]))

\* "both sides pick the same winner": two devices that can store every field
\* end up with one value for a field, whichever of them merges the other.
BothSidesAgree ==
  \A d, e \in Devices \ OldDevices :
    Has(d) /\ Has(e) => MergeTwo(row[d], row[e]) = MergeTwo(row[e], row[d])

\* Merging is an inflation: no merge takes a device's clock back.
MergeKeepsClocks ==
  [][ \A d, e \in Devices :
        MergeFrom(d, e) => \A k \in Keys : row'[d][k].clock >= row[d][k].clock ]_vars

\* "deliberately does not revive a tombstoned row": a refile of a dead row
\* leaves it dead.
RefileDoesNotRevive ==
  [][ \A d \in Devices, s \in Stamps, F \in SUBSET (Fields \ ById) : \A g \in [F -> Values] :
        Has(d) /\ ~Alive(row[d]) /\ Refile(d, g, s) => ~Alive(row'[d]) ]_vars
=============================================================================
