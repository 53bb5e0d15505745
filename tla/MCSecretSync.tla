---------------------------- MODULE MCSecretSync ----------------------------
(***************************************************************************)
(* CloudSync over a secret: storage/secrets.rs sets and deletes it, and    *)
(* mergeSecrets and secretsDiffer of crdt.ts merge it.                     *)
(***************************************************************************)
EXTENDS CloudSync, Crdt

CONSTANTS d1, d2, d3

MCMissing       == [clock |-> 0, val |-> Undefined]
MCFirst         == [clock |-> 1, val |-> 1]
MCMerge(a, b)   == MergeSecret(a, b)
MCDiffers(a, b) == SecretsDiffer(a, b)
MCClocked(r)    == r
MCEdits(r)      == UNION {{DeleteSecret(s)} \union {SetSecret(v, s) : v \in Values} :
                          s \in {t \in Stamps : t > r.clock}}
\* Synchronised clocks: a write is stamped later than any before it.
MCOneClock == phase' = phase =>
                \A d, e \in Devices : row'[d] # row[d] => row'[d].clock > row[e].clock

\* Bound: d1 only reads.
MCReader        == ~owed[d1]
MCHost          == {"host"}
MCNone          == {}
MCIds(v)        == v
=============================================================================
