-------------------------- MODULE MCEntityReplicas --------------------------
(***************************************************************************)
(* Instances of EntityReplicas for TLC: a host with its address, a list of *)
(* variables edited in place or not, and `notes`, a field that older       *)
(* versions do not know.                                                   *)
(***************************************************************************)
EXTENDS EntityReplicas, FiniteSets, TLC

CONSTANTS d1, d2, d3

MCFields   == {"host", "notes"}
MCHost     == {"host"}
MCNew      == {"notes"}
MCNone     == {}
MCHostEnv  == {"host", "env_vars"}
MCEnv      == {"env_vars"}

\* 1 and 2 are lists of the same elements, 3 has another one.
MCIds(v)   == (v + 1) \div 2
MCOld      == {d3}
\* Bound: three cells are written after the birth of the row, ties counted once.
MCFewWrites ==
  Cardinality(UNION {{<<k, c>> : c \in UNION {seen[d][k] : d \in Devices}} : k \in Keys}) <= 6

MCSymmetry == Permutations({d1, d2, d3})
=============================================================================
