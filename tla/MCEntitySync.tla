---------------------------- MODULE MCEntitySync ----------------------------
(***************************************************************************)
(* CloudSync over an entity: the merge and the commands of Crdt.           *)
(***************************************************************************)
EXTENDS CloudSync, Crdt

CONSTANTS d1, d2, d3

MCMissing       == [k \in Keys |-> [clock |-> 0, val |-> Undefined]]
MCFirst         == NewRow([f \in Fields |-> 2], 1)
MCMerge(a, b)   == MergeTwo(a, b)
MCDiffers(a, b) == EntityDiffers(a, b)

\* A list compared by the ids of its elements has a clock that tells nothing of them.
MCClocked(r)    == [k \in Keys |-> IF k \in ById THEN [r[k] EXCEPT !.val = Undefined] ELSE r[k]]

\* Synchronised clocks: a command's stamp is past everything the row carries.
MCNow(r)   == {s \in Stamps : \A k \in Keys : s > r[k].clock}
MCEdits(r) ==
  UNION {{Tombstone(r, s)} \union
         {Update(r, data, s) : data \in [Fields -> Values]} \union
         {StampFields(r, g, s) : g \in UNION {[F -> Values] : F \in SUBSET (Fields \ ById) \ {{}}}} :
         s \in MCNow(r)}

MCHost     == {"host"}
MCHostEnv  == {"host", "env_vars"}
MCEnv      == {"env_vars"}
MCNone     == {}

\* 1 and 2 are lists of the same elements, 3 has another one.
MCIds(v)   == (v + 1) \div 2
=============================================================================
