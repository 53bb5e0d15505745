-------------------------------- MODULE Crdt --------------------------------
(***************************************************************************)
(* The merge rules of src/services/crdt.ts and the row edits of            *)
(* src-tauri/src/commands/vault_object.rs, over one row of a collection.   *)
(*                                                                         *)
(* A row maps each key (a synced field, or Deleted for `deleted_at`) to a  *)
(* cell [clock, val].  RFC 3339 stamps are naturals and 0 is the missing   *)
(* clock ("").  Values are naturals in the order of their canonical JSON;  *)
(* 0 is `undefined`, a value the serialised row does not carry at all.     *)
(* `deleted_at` is serialised even when it is None: JSON `null` sorts after*)
(* every quoted timestamp ('"' < 'n'), so Null is above every stamp.       *)
(*                                                                         *)
(* `updated_at` is not stored here: every writer sets it to the newest     *)
(* clock of the row (finish_update, tombstone, mergeTwo), see Alive.       *)
(***************************************************************************)
EXTENDS Naturals

CONSTANTS Fields,     \* the synced fields of an entity (CLOCK_FIELDS)
          ById,       \* those that are lists of elements with ids of their own
          Ids(_),     \* the ids of the elements of such a list, in their order
          Deleted,    \* the "__deleted__" clock, with deleted_at as its value
          MaxStamp,   \* bound: the latest stamp any write takes
          Values      \* the values a field may hold

ASSUME CrdtAssumption == /\ MaxStamp \in Nat \ {0}
                         /\ Values \subseteq Nat \ {0}
                         /\ Deleted \notin Fields
                         /\ ById \subseteq Fields

Undefined == 0
Null      == MaxStamp + 1
Keys      == Fields \union {Deleted}
Stamps    == 1..MaxStamp
Cells     == [clock : 0..MaxStamp, val : Nat]
Rows      == [Keys -> Cells]

(***************************************************************************)
(* Merge                                                                   *)
(***************************************************************************)

BWinsOnClock(a, b) == b.clock > a.clock \* mutant: equal clocks are not settled

\* A side without a value keeps its own copy; equal clocks settle on the value.
BWins(a, b) == \/ b.clock > a.clock
               \/ /\ b.clock = a.clock
                  /\ b.clock # 0
                  /\ a.val # Undefined
                  /\ b.val # Undefined
                  /\ b.val > a.val

MergeCellRemote(a, b) == \* mutant: whatever the other side has is taken
  IF b.val # Undefined THEN b ELSE a

MergeCell(a, b) == IF BWins(a, b) THEN b ELSE a

MergeTwo(a, b) == [k \in Keys |-> MergeCell(a[k], b[k])]

\* updated_at > deleted_at, updated_at being the newest clock; or not deleted.
Alive(r) == \/ r[Deleted].val = Null
            \/ \E k \in Keys : r[k].clock > r[Deleted].val

EntityDiffers(a, b) == a # b

(***************************************************************************)
(* Local commands.  `s` is the command's `now`.                            *)
(***************************************************************************)

NewRowUnclocked(data, s) == \* mutant: initial_clocks is forgotten
  [k \in Keys |-> [clock |-> 0, val |-> IF k = Deleted THEN Null ELSE data[k]]]

\* initial_clocks / build_*: every synced field stamped, never born deleted.
NewRow(data, s) ==
  [k \in Keys |-> IF k = Deleted THEN [clock |-> 0, val |-> Null]
                                 ELSE [clock |-> s, val |-> data[k]]]

\* A list counts as changed only when its ids do: an element edited in place
\* (env_vars, jump_hosts) is stored under the old clock.
Changes(f, old, new) == IF f \in ById THEN Ids(old) # Ids(new) ELSE old # new

\* bump_changed_clocks: the value of the form is stored, the clock moves with a change.
Bump(f, cell, v, s) ==
  [clock |-> IF Changes(f, cell.val, v) THEN s ELSE cell.clock, val |-> v]

\* merge_fields! over the whole form, then finish_update: deleted_at is
\* cleared and its clock is left as it was.
Update(r, data, s) ==
  [k \in Keys |-> IF k = Deleted THEN [r[Deleted] EXCEPT !.val = Null]
                                 ELSE Bump(k, r[k], data[k], s)]

TombstoneUnclocked(r, s) == [r EXCEPT ![Deleted].val = s] \* mutant: no clock for the delete

Tombstone(r, s) == [r EXCEPT ![Deleted] = [clock |-> s, val |-> s]]

\* refile_into_folder, connection_set_distro (with its icon): the fields are
\* stamped, changed or not, and deleted_at is left alone.
StampFields(r, g, s) ==
  [k \in Keys |-> IF k \in DOMAIN g THEN [clock |-> s, val |-> g[k]] ELSE r[k]]

(***************************************************************************)
(* Secrets: a cell whose val is Undefined and whose clock is not 0 is a    *)
(* tombstone.                                                              *)
(***************************************************************************)

\* SecretsStore::set and ::delete.
SetSecret(v, s) == [clock |-> s, val |-> v]
DeleteSecret(s)  == [clock |-> s, val |-> Undefined]

MergeSecret(l, r) ==
  CASE l.clock > r.clock -> l
    [] r.clock > l.clock -> r
    [] OTHER -> IF r.val > l.val THEN r ELSE l

\* The values only: the clocks are not compared.
SecretsDiffer(a, b) == a.val # b.val
=============================================================================
