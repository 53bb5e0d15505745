--------------------------- MODULE CloudSyncProofs ---------------------------
(***************************************************************************)
(* The sync protocol is safe for any number of devices, and for any kind   *)
(* of row whose merge is a least upper bound.  The second half of the      *)
(* module shows that the merge of an entity (crdt.ts) is one, over the     *)
(* rows that the commands of vault_object.rs make, and draws the theorems  *)
(* for entities.                                                           *)
(*                                                                         *)
(* A round merges what it downloaded by a fold over a set.  Its recursion  *)
(* equation, and what it computes, are proved by least counterexample      *)
(* (LeastNat), since an induction theorem over a predicate cannot be used. *)
(***************************************************************************)
EXTENDS MCEntitySync, FiniteSetTheorems, TLAPS

\* Merge is the least upper bound of a partial order on R, every row that comes up is
\* in R, what is clocked of a merge depends on what is clocked of the rows, and there a
\* command only adds to a row (it stamps what it changes).
Laws(R) ==
  /\ First \in R
  /\ \A r \in R : \A e \in Edits(r) : e \in R /\ Has(e, r)
  /\ \A a, b \in R : Merge(a, b) \in R /\ Merge(a, b) = Merge(b, a)
  /\ \A a \in R : Merge(a, a) = a
  /\ \A a, b, c \in R : Merge(a, Merge(b, c)) = Merge(Merge(a, b), c)
  /\ \A a, b, c \in R : Clocked(a) = Clocked(b) => Clocked(Merge(a, c)) = Clocked(Merge(b, c))

Lattice == \E R : Laws(R)
RowSet == CHOOSE R : Laws(R)

\* The comparison that decides whether anything is written sees every difference.
Exact == \A a, b : Differs(a, b) <=> a # b

(***************************************************************************)
(* The order of rows                                                       *)
(***************************************************************************)

\* The chosen rows obey the laws.
LEMMA RowSetLaws == Lattice => Laws(RowSet)
  BY Zenon DEF Lattice, RowSet

\* Having all that is clocked of a row is an order of what is clocked, and Merge its least
\* upper bound.
LEMMA Order ==
  ASSUME Laws(RowSet)
  PROVE  /\ \A a \in RowSet : Has(a, a)
         /\ \A a, b, c \in RowSet : Has(a, b) /\ Has(b, c) => Has(a, c)
         /\ \A a, b \in RowSet : Has(a, b) /\ Has(b, a) => Clocked(a) = Clocked(b)
         /\ \A a, b \in RowSet : /\ Merge(a, b) \in RowSet
                            /\ Has(Merge(a, b), a) /\ Has(Merge(a, b), b)
         /\ \A a, b, u \in RowSet : Has(u, a) /\ Has(u, b) => Has(u, Merge(a, b))
  <1>1. /\ \A a, b \in RowSet : Merge(a, b) \in RowSet /\ Merge(a, b) = Merge(b, a)
        /\ \A a \in RowSet : Merge(a, a) = a
        /\ \A a, b, c \in RowSet : Merge(a, Merge(b, c)) = Merge(Merge(a, b), c)
        /\ \A a, b, c \in RowSet : Clocked(a) = Clocked(b) => Clocked(Merge(a, c)) = Clocked(Merge(b, c))
    BY Zenon DEF Laws
  <1>2. \A a \in RowSet : Has(a, a)
    BY <1>1 DEF Has
  <1>3. ASSUME NEW a \in RowSet, NEW b \in RowSet, NEW c \in RowSet, Has(a, b), Has(b, c)
        PROVE  Has(a, c)
    <2>1. Clocked(Merge(a, c)) = Clocked(Merge(Merge(a, b), c))
      BY <1>1, <1>3 DEF Has
    <2>2. Merge(Merge(a, b), c) = Merge(Merge(b, c), a)
      BY <1>1
    <2>3. Clocked(Merge(Merge(b, c), a)) = Clocked(Merge(b, a))
      BY <1>1, <1>3 DEF Has
    <2> QED BY <1>1, <1>3, <2>1, <2>2, <2>3 DEF Has
  <1>4. \A a, b \in RowSet : Has(a, b) /\ Has(b, a) => Clocked(a) = Clocked(b)
    BY <1>1 DEF Has
  <1>5. ASSUME NEW a \in RowSet, NEW b \in RowSet
        PROVE  Has(Merge(a, b), a) /\ Has(Merge(a, b), b)
    <2>1. Merge(Merge(a, b), b) = Merge(a, Merge(b, b))
      BY <1>1
    <2>2. Merge(Merge(a, b), a) = Merge(a, Merge(a, b))
      BY <1>1
    <2>3. Merge(a, Merge(a, b)) = Merge(Merge(a, a), b)
      BY <1>1
    <2> QED BY <1>1, <2>1, <2>2, <2>3 DEF Has
  <1>6. ASSUME NEW a \in RowSet, NEW b \in RowSet, NEW u \in RowSet, Has(u, a), Has(u, b)
        PROVE  Has(u, Merge(a, b))
    <2>1. Merge(u, Merge(a, b)) = Merge(Merge(u, a), b)
      BY <1>1
    <2>2. Clocked(Merge(Merge(u, a), b)) = Clocked(Merge(u, b))
      BY <1>1, <1>6 DEF Has
    <2> QED BY <1>6, <2>1, <2>2 DEF Has
  <1> QED BY <1>1, <1>2, <1>3, <1>4, <1>5, <1>6

\* A row has all of itself.
LEMMA HasItself == ASSUME Laws(RowSet) PROVE \A a \in RowSet : Has(a, a)
  BY Order

(***************************************************************************)
(* The merge of a round (mergePayloadsInto) is a fold.                     *)
(***************************************************************************)

Pick(s) == CHOOSE x \in s : TRUE
OneMore(g, s, G, b) == IF s = {} THEN b ELSE MergeStep(g[s \ {Pick(s)}], G[Pick(s)])
Folds(g, S, G, b) == g = [s \in SUBSET S |-> OneMore(g, s, G, b)]
Unmerged(r) == [row |-> r, changed |-> FALSE]

\* MergedInto is the last value of such a function.
LEMMA MergedIsFold ==
  ASSUME NEW d, NEW r
  PROVE  MergedInto(r, d) = (CHOOSE g : Folds(g, Fetched(d), got[d], Unmerged(r)))[Fetched(d)]
  BY Zenon DEF MergedInto, FoldSet, MapThenFoldSet, Folds, OneMore, Pick, Unmerged

\* A set of numbers has a least one: the induction of this module.
LEMMA LeastNat == ASSUME NEW T, T \subseteq Nat, T # {}
                  PROVE  \E n \in T : \A m \in T : n <= m
  <1>1. IsWellFoundedOn(OpToRel(<, Nat), Nat)
    BY NatLessThanWellFounded
  <1>2. PICK n \in T : \A m \in T : ~ (<<m, n>> \in OpToRel(<, Nat))
    BY <1>1, WFMin
  <1>3. ASSUME NEW m \in T PROVE n <= m
    <2>1. ~(m < n)
      BY <1>2 DEF OpToRel
    <2> QED BY <2>1
  <1> QED BY <1>3

\* What is left of a subset when one element is taken is a smaller one.
LEMMA Smaller ==
  ASSUME NEW S, IsFiniteSet(S), NEW s \in SUBSET S
  PROVE  /\ Cardinality(s) \in Nat
         /\ Cardinality(s) = 0 => s = {}
         /\ s # {} => /\ Pick(s) \in s
                      /\ s \ {Pick(s)} \in SUBSET S
                      /\ Cardinality(s \ {Pick(s)}) = Cardinality(s) - 1
                      /\ Cardinality(s) # 0
  <1>1. IsFiniteSet(s)
    BY FS_Subset
  <1>2. Cardinality(s) \in Nat /\ (Cardinality(s) = 0 <=> s = {})
    BY <1>1, FS_CardinalityType, FS_EmptySet
  <1>3. s # {} => Pick(s) \in s
    BY DEF Pick
  <1> QED BY <1>1, <1>2, <1>3, FS_RemoveElement

\* The fold's function exists: it is built up by the size of the subsets.
LEMMA FoldExists ==
  ASSUME NEW S, IsFiniteSet(S), NEW G, NEW b
  PROVE  \E g : Folds(g, S, G, b)
  <1> DEFINE Upto(n) == \E g : /\ g = [s \in SUBSET S |-> g[s]]
                               /\ \A s \in SUBSET S :
                                    Cardinality(s) <= n => g[s] = OneMore(g, s, G, b)
             T == {n \in Nat : ~Upto(n)}
  <1>0. \A s \in SUBSET S :
          /\ Cardinality(s) \in Nat
          /\ Cardinality(s) = 0 => s = {}
          /\ s # {} => s \ {Pick(s)} \in SUBSET S /\ Cardinality(s \ {Pick(s)}) = Cardinality(s) - 1
    BY Smaller
  <1>1. T = {}
    <2> SUFFICES ASSUME T # {} PROVE FALSE
      OBVIOUS
    <2>1. PICK n \in T : \A m \in T : n <= m
      <3> HIDE DEF Upto
      <3> QED BY LeastNat
    <2>2. n # 0
      <3> DEFINE z == [t \in SUBSET S |-> b]
      <3>1. ASSUME NEW s \in SUBSET S, Cardinality(s) <= 0 PROVE z[s] = OneMore(z, s, G, b)
        <4>1. Cardinality(s) \in Nat /\ (Cardinality(s) = 0 => s = {})
          BY <1>0
        <4>2. s = {}
          BY <3>1, <4>1
        <4> QED BY <4>2 DEF OneMore
      <3>2. z = [t \in SUBSET S |-> z[t]]
        OBVIOUS
      <3>3. Upto(0)
        <4> HIDE DEF z
        <4> QED BY <3>1, <3>2
      <3> QED BY <2>1, <3>3
    <2>3. Upto(n - 1)
      <3> HIDE DEF Upto
      <3> QED BY <2>1, <2>2
    <2>4. PICK g : /\ g = [s \in SUBSET S |-> g[s]]
                   /\ \A s \in SUBSET S : Cardinality(s) <= n - 1 => g[s] = OneMore(g, s, G, b)
      BY <2>3
    <2> DEFINE h == [s \in SUBSET S |-> IF Cardinality(s) = n THEN OneMore(g, s, G, b) ELSE g[s]]
    <2>5. ASSUME NEW s \in SUBSET S, Cardinality(s) <= n PROVE h[s] = OneMore(h, s, G, b)
      <3>0. n \in Nat /\ Cardinality(s) \in Nat
        BY <1>0, <2>1
      <3>1. s # {} => h[s \ {Pick(s)}] = g[s \ {Pick(s)}]
        BY <1>0, <2>5, <3>0
      <3>2. OneMore(h, s, G, b) = OneMore(g, s, G, b)
        BY <3>1 DEF OneMore
      <3>3. CASE Cardinality(s) = n
        BY <3>2, <3>3
      <3>4. CASE Cardinality(s) # n
        <4>1. Cardinality(s) <= n - 1
          BY <2>5, <3>0, <3>4
        <4> QED BY <2>4, <3>2, <3>4, <4>1
      <3> QED BY <3>3, <3>4
    <2>6. h = [s \in SUBSET S |-> h[s]]
      OBVIOUS
    <2>7. Upto(n)
      <3> HIDE DEF h
      <3> QED BY <2>5, <2>6
    <2> QED BY <2>1, <2>7
  <1>2. Upto(Cardinality(S))
    <2> HIDE DEF Upto
    <2> QED BY <1>1, FS_CardinalityType
  <1>3. \A s \in SUBSET S : Cardinality(s) <= Cardinality(S)
    BY FS_Subset
  <1> QED BY <1>2, <1>3 DEF Folds

\* What the merge of base r with the payloads of set s is: the least row that has them
\* all, and the base itself if it was not "changed".
IsMerge(acc, r, s, G) ==
  /\ acc.row \in RowSet
  /\ Has(acc.row, r)
  /\ \A e \in s : Has(acc.row, G[e])
  /\ \A u \in RowSet : Has(u, r) /\ (\A e \in s : Has(u, G[e])) => Has(u, acc.row)
  /\ Exact => (acc.changed \/ acc.row = r)

\* One more payload (mergeBlobPayload).
LEMMA MergeOneMore ==
  ASSUME Laws(RowSet), NEW r \in RowSet, NEW s, NEW x, x \notin s, NEW G,
         \A e \in s \union {x} : G[e] \in RowSet,
         NEW acc, IsMerge(acc, r, s, G)
  PROVE  IsMerge(MergeStep(acc, G[x]), r, s \union {x}, G)
  <1> DEFINE m == Merge(acc.row, G[x])
  <1>1. G[x] \in RowSet /\ acc.row \in RowSet /\ \A e \in s : G[e] \in RowSet
    BY DEF IsMerge
  <1>2. /\ m \in RowSet /\ Has(m, acc.row) /\ Has(m, G[x])
        /\ \A u \in RowSet : Has(u, acc.row) /\ Has(u, G[x]) => Has(u, m)
    BY <1>1, Order
  <1>3. /\ MergeStep(acc, G[x]).row = m
        /\ MergeStep(acc, G[x]).changed = (acc.changed \/ Differs(acc.row, m))
    BY DEF MergeStep
  <1>4. Has(m, r) /\ \A e \in s : Has(m, G[e])
    BY <1>1, <1>2, Order DEF IsMerge
  <1>5. ASSUME NEW u \in RowSet, Has(u, r), \A e \in s \union {x} : Has(u, G[e])
        PROVE  Has(u, m)
    BY <1>2, <1>5 DEF IsMerge
  <1>6. ASSUME Exact PROVE MergeStep(acc, G[x]).changed \/ m = r
    BY <1>3, <1>6 DEF Exact, IsMerge
  <1> HIDE DEF m
  <1> QED BY <1>2, <1>3, <1>4, <1>5, <1>6 DEF IsMerge

\* The fold merges everything.
LEMMA FoldMerges ==
  ASSUME Laws(RowSet), NEW S, IsFiniteSet(S), NEW G, NEW r \in RowSet,
         \A e \in S : G[e] \in RowSet, NEW g, Folds(g, S, G, Unmerged(r))
  PROVE  IsMerge(g[S], r, S, G)
  <1> DEFINE T == {n \in Nat : \E s \in SUBSET S : Cardinality(s) = n /\ ~IsMerge(g[s], r, s, G)}
  <1>1. \A s \in SUBSET S : g[s] = OneMore(g, s, G, Unmerged(r))
    BY DEF Folds
  <1>2. T = {}
    <2> SUFFICES ASSUME T # {} PROVE FALSE
      OBVIOUS
    <2>1. PICK n \in T : \A m \in T : n <= m
      BY LeastNat
    <2>2. PICK s \in SUBSET S : Cardinality(s) = n /\ ~IsMerge(g[s], r, s, G)
      BY <2>1
    <2>3. CASE s = {}
      <3>1. g[s] = OneMore(g, s, G, Unmerged(r))
        BY <1>1
      <3>2. OneMore(g, s, G, Unmerged(r)) = Unmerged(r)
        BY <2>3 DEF OneMore
      <3>3. g[s].row = r /\ g[s].changed = FALSE
        BY <3>1, <3>2 DEF Unmerged
      <3> QED BY <2>2, <2>3, <3>3, Order DEF IsMerge
    <2>4. CASE s # {}
      <3> DEFINE p == s \ {Pick(s)}
      <3>1. Pick(s) \in s /\ p \in SUBSET S /\ Cardinality(p) = n - 1 /\ n - 1 \in Nat
        <4>1. /\ Cardinality(s) \in Nat /\ Cardinality(s) # 0
              /\ Pick(s) \in s /\ p \in SUBSET S /\ Cardinality(p) = Cardinality(s) - 1
          BY <2>4, Smaller
        <4>2. Cardinality(s) = n
          BY <2>2
        <4> HIDE DEF p, T
        <4> QED BY <4>1, <4>2
      <3>2. n - 1 \notin T
        BY <2>1, <3>1
      <3>3. IsMerge(g[p], r, p, G)
        BY <3>1, <3>2
      <3>4. g[s] = MergeStep(g[p], G[Pick(s)])
        <4>1. g[s] = OneMore(g, s, G, Unmerged(r))
          BY <1>1
        <4> QED BY <2>4, <4>1 DEF OneMore
      <3>5. p \union {Pick(s)} = s /\ Pick(s) \notin p
        BY <3>1
      <3>6. \A e \in p \union {Pick(s)} : G[e] \in RowSet
        BY <3>5
      <3> HIDE DEF p
      <3>7. IsMerge(MergeStep(g[p], G[Pick(s)]), r, p \union {Pick(s)}, G)
        BY <3>3, <3>5, <3>6, MergeOneMore
      <3> QED BY <2>2, <3>4, <3>5, <3>7
    <2> QED BY <2>3, <2>4
  <1>3. Cardinality(S) \in Nat
    BY FS_CardinalityType
  <1> QED BY <1>2, <1>3

\* The merge of a round is the least row that has the base and every payload.
LEMMA MergedIntoMerges ==
  ASSUME Laws(RowSet), NEW d \in Devices, NEW r \in RowSet,
         \A e \in Devices : got[d][e] # Missing => got[d][e] \in RowSet
  PROVE  IsMerge(MergedInto(r, d), r, Fetched(d), got[d])
  <1> DEFINE S == Fetched(d)
             g == CHOOSE f : Folds(f, S, got[d], Unmerged(r))
  <1>1. IsFiniteSet(S)
    <2>1. S \in SUBSET Devices
      BY DEF Fetched
    <2> QED BY <2>1, CloudAssumption, FS_Subset
  <1>2. \A e \in S : got[d][e] \in RowSet
    BY DEF Fetched
  <1>3. Folds(g, S, got[d], Unmerged(r))
    <2>1. \E f : Folds(f, S, got[d], Unmerged(r))
      BY <1>1, FoldExists
    <2> QED BY <2>1, Zenon
  <1>4. MergedInto(r, d) = g[S]
    BY MergedIsFold
  <1> HIDE DEF S, g
  <1>5. IsMerge(g[S], r, S, got[d])
    BY <1>1, <1>2, <1>3, FoldMerges
  <1> QED BY <1>4, <1>5 DEF S

(***************************************************************************)
(* The invariant                                                           *)
(***************************************************************************)

\* The variables are functions over the devices, whatever rows are.
Maps ==
  /\ DOMAIN row = Devices /\ DOMAIN blob = Devices /\ DOMAIN base = Devices
  /\ DOMAIN got = Devices /\ \A d \in Devices : DOMAIN got[d] = Devices
  /\ settled \in [Devices -> SUBSET Devices] /\ current \in [Devices -> SUBSET Devices]
  /\ todo \in [Devices -> SUBSET Devices]
  /\ phase \in [Devices -> {"idle", "pull", "import", "export", "push"}]
  /\ must \in [Devices -> BOOLEAN] /\ login \in [Devices -> BOOLEAN]
  /\ owed \in [Devices -> BOOLEAN] /\ nudged \in [Devices -> BOOLEAN]
  /\ online \in [Devices -> BOOLEAN]
Shape == Maps /\ TypeOK

\* Rows are rows wherever they are kept.
InRowSet ==
  \A d \in Devices :
    /\ row[d] \in RowSet /\ blob[d] \in RowSet
    /\ \A e \in Devices : got[d][e] # Missing => got[d][e] \in RowSet
    /\ phase[d] \in {"import", "push"} => base[d] \in RowSet

\* A device has what it uploaded, also in what it is about to write or to upload.
OwnBlobKept ==
  \A d \in Devices :
    /\ Has(row[d], blob[d])
    /\ phase[d] \in {"import", "push"} => Has(row[d], base[d]) /\ Has(base[d], blob[d])

\* What was downloaded is an earlier state of the blob, and its present one as long as
\* that counts as current.
PayloadsAreBlobs ==
  \A d, e \in Devices :
    got[d][e] # Missing => /\ Has(blob[e], got[d][e])
                           /\ e \in current[d] => got[d][e] = blob[e]

\* What a merge under way has read has the settled blobs too.
BaseHasSettled ==
  \A d \in Devices : phase[d] = "import" => \A e \in settled[d] : Has(base[d], blob[e])

\* A device that owes no push has nothing that is not in some blob: whatever has all
\* blobs has its row.
Owes(d) == login[d] \/ owed[d] \/ must[d]
Published ==
  \A d \in Devices : ~Owes(d) =>
    \A u \in RowSet : (\A e \in Devices : Has(u, blob[e])) => Has(u, row[d])

\* An upload under way has everything, or another push is owed.
PushHasAll == \A d \in Devices : phase[d] = "push" => login[d] \/ owed[d] \/ Has(base[d], row[d])

IInv == /\ Shape /\ InRowSet /\ OwnBlobKept /\ PayloadsAreBlobs
        /\ BaseHasSettled /\ SettledMeansMerged
PInv == Published /\ PushHasAll

(***************************************************************************)
(* Types                                                                   *)
(***************************************************************************)

\* All have synced, some are being launched.
LEMMA InitShape == Init => Shape
  BY CloudAssumption DEF Init, Shape, Maps, TypeOK, Fetched

\* No action takes a variable out of its functions.
LEMMA StepMaps == Maps /\ [Next]_vars => Maps'
  <1> SUFFICES ASSUME Maps, [Next]_vars PROVE Maps'
    OBVIOUS
  <1> USE DEF Maps
  <1>1. ASSUME NEW d \in Devices, Start(d) PROVE Maps'
    BY <1>1 DEF Start
  <1>2. ASSUME NEW d \in Devices, NEW e \in Devices, Download(d, e) PROVE Maps'
    BY <1>2 DEF Download, asked
  <1>3. ASSUME NEW d \in Devices, NEW e \in Devices, SkipDownload(d, e) PROVE Maps'
    BY <1>3 DEF SkipDownload, asked
  <1>4. ASSUME NEW d \in Devices, ReadBase(d) PROVE Maps'
    BY <1>4 DEF ReadBase, asked
  <1>5. ASSUME NEW d \in Devices, Import(d) PROVE Maps'
    BY <1>5 DEF Import, Done, asked
  <1>6. ASSUME NEW d \in Devices, ImportFails(d) PROVE Maps'
    BY <1>6 DEF ImportFails, Done
  <1>7. ASSUME NEW d \in Devices, Export(d) PROVE Maps'
    BY <1>7 DEF Export, asked
  <1>8. ASSUME NEW d \in Devices, Push(d) PROVE Maps'
    BY <1>8 DEF Push, Arrives
  <1>9. ASSUME NEW d \in Devices, PushUnanswered(d) PROVE Maps'
    BY <1>9 DEF PushUnanswered, Arrives
  <1>10. ASSUME NEW d \in Devices, PushFails(d) PROVE Maps'
    BY <1>10 DEF PushFails, Done
  <1>11. ASSUME NEW d \in Devices, Disconnect(d) PROVE Maps'
    BY <1>11 DEF Disconnect, round, asked
  <1>12. ASSUME NEW d \in Devices, Reconnect(d) PROVE Maps'
    BY <1>12 DEF Reconnect, round
  <1>13. ASSUME NEW d \in Devices, Restart(d) PROVE Maps'
    BY <1>13 DEF Restart, Done
  <1>14. ASSUME NEW d \in Devices, Edit(d) PROVE Maps'
    BY <1>14 DEF Edit, round
  <1>15. CASE UNCHANGED vars
    BY <1>15 DEF vars, round, asked
  <1> QED BY <1>1, <1>2, <1>3, <1>4, <1>5, <1>6, <1>7, <1>8, <1>9, <1>10, <1>11, <1>12, <1>13, <1>14, <1>15 DEF Next, SyncStep, Disturb

\* A PUT ends the round of the one and changes versions for the others.
LEMMA ArrivesTypeOK ==
  ASSUME Maps, TypeOK, NEW d \in Devices, Arrives(d),
         owed' \in [Devices -> BOOLEAN], online' \in [Devices -> BOOLEAN]
  PROVE  TypeOK'
  <1>1. ASSUME NEW x \in Devices, x # d
        PROVE  /\ phase'[x] = phase[x] /\ todo'[x] = todo[x] /\ must'[x] = must[x]
               /\ current'[x] = current[x] \ {d} /\ got'[x] = got[x]
               /\ settled'[x] \subseteq Devices
    BY <1>1 DEF Arrives, Maps
  <1>2. /\ phase'[d] = "idle" /\ todo'[d] = {} /\ must'[d] = FALSE
        /\ current'[d] = {} /\ \A e \in Devices : got'[d][e] = Missing
        /\ settled'[d] \subseteq Devices
    BY DEF Arrives, Maps
  <1>3. \A x \in Devices : {login'[x], owed'[x], nudged'[x], online'[x]} \subseteq BOOLEAN
    BY DEF Arrives, Maps
  <1>4. ASSUME NEW x \in Devices
        PROVE  /\ phase'[x] \in {"idle", "pull", "import", "export", "push"}
               /\ settled'[x] \subseteq Devices /\ current'[x] \subseteq Devices
               /\ phase'[x] = "idle" =>
                    todo'[x] = {} /\ current'[x] = {} /\ Fetched(x)' = {} /\ ~must'[x]
               /\ phase'[x] # "pull" => todo'[x] = {}
               /\ todo'[x] \intersect Fetched(x)' = {}
               /\ must'[x] \in BOOLEAN
    <2>1. CASE x = d
      BY <1>2, <2>1 DEF Fetched
    <2>2. CASE x # d
      BY <1>1, <2>2 DEF Fetched, TypeOK, Maps
    <2> QED BY <2>1, <2>2
  <1> QED BY <1>3, <1>4 DEF TypeOK

\* Each action keeps the types.
LEMMA StepTypeOK == Maps /\ TypeOK /\ [Next]_vars => TypeOK'
  <1> SUFFICES ASSUME Maps, TypeOK, [Next]_vars PROVE TypeOK'
    OBVIOUS
  <1> USE DEF Maps, TypeOK, Fetched
  <1>1. ASSUME NEW d \in Devices, Start(d) PROVE TypeOK'
    BY <1>1 DEF Start
  <1>2. ASSUME NEW d \in Devices, NEW e \in Devices, Download(d, e) PROVE TypeOK'
    BY <1>2 DEF Download, asked
  <1>3. ASSUME NEW d \in Devices, NEW e \in Devices, SkipDownload(d, e) PROVE TypeOK'
    BY <1>3 DEF SkipDownload, asked
  <1>4. ASSUME NEW d \in Devices, ReadBase(d) PROVE TypeOK'
    BY <1>4 DEF ReadBase, asked
  <1>5. ASSUME NEW d \in Devices, Import(d) PROVE TypeOK'
    <2>1. /\ UNCHANGED <<login, owed, nudged, online>>
          /\ settled' = [settled EXCEPT ![d] = @ \union (Fetched(d) \intersect current[d])]
          /\ \/ phase' = [phase EXCEPT ![d] = "export"] /\ UNCHANGED <<must, todo, current, got>>
             \/ Done(d)
      BY <1>5 DEF Import, asked
    <2>2. CASE Done(d)
      BY <2>1, <2>2 DEF Done
    <2>3. CASE ~Done(d)
      BY <1>5, <2>1, <2>3 DEF Import
    <2> QED BY <2>2, <2>3
  <1>6. ASSUME NEW d \in Devices, ImportFails(d) PROVE TypeOK'
    BY <1>6 DEF ImportFails, Done
  <1>7. ASSUME NEW d \in Devices, Export(d) PROVE TypeOK'
    BY <1>7 DEF Export, asked
  <1>8. ASSUME NEW d \in Devices, Push(d) PROVE TypeOK'
    BY <1>8, ArrivesTypeOK DEF Push
  <1>9. ASSUME NEW d \in Devices, PushUnanswered(d) PROVE TypeOK'
    BY <1>9, ArrivesTypeOK DEF PushUnanswered
  <1>10. ASSUME NEW d \in Devices, PushFails(d) PROVE TypeOK'
    BY <1>10 DEF PushFails, Done
  <1>11. ASSUME NEW d \in Devices, Disconnect(d) PROVE TypeOK'
    BY <1>11 DEF Disconnect, round, asked
  <1>12. ASSUME NEW d \in Devices, Reconnect(d) PROVE TypeOK'
    BY <1>12 DEF Reconnect, round
  <1>13. ASSUME NEW d \in Devices, Restart(d) PROVE TypeOK'
    BY <1>13 DEF Restart, Done
  <1>14. ASSUME NEW d \in Devices, Edit(d) PROVE TypeOK'
    <2>1. UNCHANGED <<settled, phase, must, todo, current, got, login, nudged, online>>
          /\ owed' = [owed EXCEPT ![d] = TRUE]
      BY <1>14 DEF Edit, round
    <2> QED BY <2>1
  <1>15. CASE UNCHANGED vars
    BY <1>15 DEF vars, round, asked
  <1> QED BY <1>1, <1>2, <1>3, <1>4, <1>5, <1>6, <1>7, <1>8, <1>9, <1>10, <1>11, <1>12, <1>13, <1>14, <1>15 DEF Next, SyncStep, Disturb

(***************************************************************************)
(* Steps that change rows or blobs                                         *)
(***************************************************************************)

\* A command adds to the row and owes a push.
LEMMA EditAdds ==
  ASSUME Laws(RowSet), Maps, InRowSet, NEW d \in Devices, Edit(d)
  PROVE  /\ row'[d] \in RowSet /\ Has(row'[d], row[d])
         /\ \A x \in Devices : x # d => row'[x] = row[x]
         /\ owed'[d] /\ \A x \in Devices : x # d => owed'[x] = owed[x]
         /\ UNCHANGED <<blob, settled, round, login, nudged, online>>
  <1>1. PICK r \in Edits(row[d]) : row' = [row EXCEPT ![d] = r]
    BY DEF Edit
  <1>2. row[d] \in RowSet
    BY DEF InRowSet
  <1>3. r \in RowSet /\ Has(r, row[d])
    BY <1>1, <1>2 DEF Laws
  <1>4. /\ row'[d] = r /\ \A x \in Devices : x # d => row'[x] = row[x]
        /\ owed'[d] /\ \A x \in Devices : x # d => owed'[x] = owed[x]
        /\ UNCHANGED <<blob, settled, round, login, nudged, online>>
    BY <1>1 DEF Edit, Maps
  <1> QED BY <1>3, <1>4

\* An import leaves the row, or the merge of what it read and downloaded; then the
\* round pushes or is over.
LEMMA ImportWrites ==
  ASSUME Laws(RowSet), Maps, InRowSet, OwnBlobKept, NEW d \in Devices, Import(d)
  PROVE  /\ row'[d] \in RowSet /\ Has(row'[d], base[d])
         /\ Exact => \A e \in Fetched(d) : Has(row'[d], got[d][e])
         /\ \A u \in RowSet : Has(u, row[d]) /\ (\A e \in Fetched(d) : Has(u, got[d][e]))
                                => Has(u, row'[d])
         /\ \A x \in Devices : x # d => row'[x] = row[x]
         /\ settled'[d] = settled[d] \union (Fetched(d) \intersect current[d])
         /\ \A x \in Devices : x # d => settled'[x] = settled[x]
         /\ blob' = blob /\ login' = login /\ owed' = owed
         /\ phase'[d] \in {"export", "idle"} /\ must'[d] = must[d] /\ current'[d] \subseteq current[d]
         /\ \A e \in Devices : got'[d][e] # Missing => got'[d][e] = got[d][e]
         /\ \A x \in Devices : x # d =>
              /\ phase'[x] = phase[x] /\ must'[x] = must[x] /\ current'[x] = current[x]
              /\ got'[x] = got[x] /\ base'[x] = base[x]
  <1> DEFINE m == MergedInto(base[d], d)
  <1>1. phase[d] = "import" /\ base[d] \in RowSet /\ row[d] \in RowSet /\ Has(row[d], base[d])
    BY DEF Import, InRowSet, OwnBlobKept
  <1>2. \A e \in Devices : got[d][e] # Missing => got[d][e] \in RowSet
    BY DEF InRowSet
  <1>3. IsMerge(m, base[d], Fetched(d), got[d])
    BY <1>1, <1>2, MergedIntoMerges
  <1>4. \A e \in Fetched(d) : got[d][e] \in RowSet
    BY <1>2 DEF Fetched
  <1>5. row' = [row EXCEPT ![d] = IF m.changed THEN m.row ELSE @]
    BY DEF Import
  <1> HIDE DEF m
  <1>6. \A x \in Devices : x # d => row'[x] = row[x]
    BY <1>5 DEF Maps
  <1>7. /\ row'[d] \in RowSet /\ Has(row'[d], base[d])
        /\ Exact => \A e \in Fetched(d) : Has(row'[d], got[d][e])
        /\ \A u \in RowSet : Has(u, row[d]) /\ (\A e \in Fetched(d) : Has(u, got[d][e]))
                               => Has(u, row'[d])
    <2>1. CASE m.changed
      <3>1. row'[d] = m.row
        BY <1>5, <2>1 DEF Maps
      <3>2. \A u \in RowSet : Has(u, row[d]) => Has(u, base[d])
        BY <1>1, Order
      <3> QED BY <1>3, <3>1, <3>2 DEF IsMerge
    <2>2. CASE ~m.changed
      <3>1. row'[d] = row[d]
        BY <1>5, <2>2 DEF Maps
      <3>2. ASSUME Exact, NEW e \in Fetched(d) PROVE Has(row[d], got[d][e])
        <4>1. m.row = base[d] /\ Has(base[d], got[d][e])
          BY <1>3, <2>2, <3>2 DEF IsMerge
        <4> QED BY <1>1, <1>4, <4>1, Order
      <3> QED BY <1>1, <3>1, <3>2
    <2> QED BY <2>1, <2>2
  <1>8. /\ settled'[d] = settled[d] \union (Fetched(d) \intersect current[d])
        /\ \A x \in Devices : x # d => settled'[x] = settled[x]
    BY DEF Import, Maps
  <1>9. blob' = blob /\ login' = login /\ owed' = owed
    BY DEF Import, asked
  <1>10. \/ /\ phase' = [phase EXCEPT ![d] = "export"]
            /\ UNCHANGED <<must, todo, current, got, base>>
         \/ ~must[d] /\ Done(d)
    BY DEF Import
  <1>11. /\ phase'[d] \in {"export", "idle"} /\ must'[d] = must[d] /\ current'[d] \subseteq current[d]
         /\ \A e \in Devices : got'[d][e] # Missing => got'[d][e] = got[d][e]
         /\ \A x \in Devices : x # d =>
              /\ phase'[x] = phase[x] /\ must'[x] = must[x] /\ current'[x] = current[x]
              /\ got'[x] = got[x] /\ base'[x] = base[x]
    <2>1. CASE ~must[d] /\ Done(d)
      BY <2>1 DEF Done, Maps
    <2>2. CASE ~(~must[d] /\ Done(d))
      BY <1>10, <2>2 DEF Maps
    <2> QED BY <2>1, <2>2
  <1> QED BY <1>6, <1>7, <1>8, <1>9, <1>11

\* A PUT replaces one blob, by one that has it.
LEMMA ArrivesReplaces ==
  ASSUME Maps, NEW d \in Devices, Arrives(d)
  PROVE  /\ phase[d] = "push" /\ blob'[d] = base[d] /\ phase'[d] = "idle"
         /\ must'[d] = FALSE /\ current'[d] = {} /\ \A e \in Devices : got'[d][e] = Missing
         /\ \A x \in Devices : d \notin settled'[x] /\ settled'[x] \subseteq settled[x]
         /\ \A x \in Devices : x # d => /\ blob'[x] = blob[x] /\ phase'[x] = phase[x]
                                        /\ must'[x] = must[x] /\ got'[x] = got[x]
                                        /\ base'[x] = base[x]
                                        /\ current'[x] = current[x] \ {d}
         /\ row' = row /\ login' = login
  BY DEF Arrives, Maps

\* The merge of rows is a row.
LEMMA ImportRows ==
  ASSUME Laws(RowSet), Shape, InRowSet, OwnBlobKept,
         NEW d \in Devices, Import(d)
  PROVE  InRowSet'
  <1>1. ASSUME NEW x \in Devices
        PROVE  /\ row'[x] \in RowSet /\ blob'[x] \in RowSet
               /\ \A e \in Devices : got'[x][e] # Missing => got'[x][e] \in RowSet
               /\ phase'[x] \in {"import", "push"} => base'[x] \in RowSet
    <2>1. CASE x = d
      BY <2>1, ImportWrites DEF Shape, InRowSet
    <2>2. CASE x # d
      BY <2>2, ImportWrites DEF Shape, InRowSet
    <2> QED BY <2>1, <2>2
  <1> QED BY <1>1 DEF InRowSet

\* Rows stay rows.
LEMMA StepInRowSet ==
  ASSUME Laws(RowSet), Shape, InRowSet, OwnBlobKept, [Next]_vars
  PROVE  InRowSet'
  <1> USE DEF Shape, Maps, TypeOK, InRowSet
  <1>1. ASSUME NEW d \in Devices, Start(d) PROVE InRowSet'
    BY <1>1 DEF Start
  <1>2. ASSUME NEW d \in Devices, NEW e \in Devices, Download(d, e) PROVE InRowSet'
    BY <1>2 DEF Download, asked
  <1>3. ASSUME NEW d \in Devices, NEW e \in Devices, SkipDownload(d, e) PROVE InRowSet'
    BY <1>3 DEF SkipDownload, asked
  <1>4. ASSUME NEW d \in Devices, ReadBase(d) PROVE InRowSet'
    BY <1>4 DEF ReadBase, asked
  <1>5. ASSUME NEW d \in Devices, Import(d) PROVE InRowSet'
    BY <1>5, ImportRows
  <1>6. ASSUME NEW d \in Devices, ImportFails(d) PROVE InRowSet'
    BY <1>6 DEF ImportFails, Done
  <1>7. ASSUME NEW d \in Devices, Export(d) PROVE InRowSet'
    BY <1>7 DEF Export, asked
  <1>8. ASSUME NEW d \in Devices, Push(d) PROVE InRowSet'
    BY <1>8 DEF Push, Arrives
  <1>9. ASSUME NEW d \in Devices, PushUnanswered(d) PROVE InRowSet'
    BY <1>9 DEF PushUnanswered, Arrives
  <1>10. ASSUME NEW d \in Devices, PushFails(d) PROVE InRowSet'
    BY <1>10 DEF PushFails, Done
  <1>11. ASSUME NEW d \in Devices, Disconnect(d) PROVE InRowSet'
    BY <1>11 DEF Disconnect, round, asked
  <1>12. ASSUME NEW d \in Devices, Reconnect(d) PROVE InRowSet'
    BY <1>12 DEF Reconnect, round
  <1>13. ASSUME NEW d \in Devices, Restart(d) PROVE InRowSet'
    BY <1>13 DEF Restart, Done
  <1>14. ASSUME NEW d \in Devices, Edit(d) PROVE InRowSet'
    BY <1>14, EditAdds DEF round
  <1>15. CASE UNCHANGED vars
    BY <1>15 DEF vars, round, asked
  <1> QED BY <1>1, <1>2, <1>3, <1>4, <1>5, <1>6, <1>7, <1>8, <1>9, <1>10, <1>11, <1>12, <1>13, <1>14, <1>15 DEF Next, SyncStep, Disturb

\* The merge starts from what has the own blob.
LEMMA ImportOwn ==
  ASSUME Laws(RowSet), Shape, InRowSet, OwnBlobKept,
         NEW d \in Devices, Import(d)
  PROVE  OwnBlobKept'
  <1>1. ASSUME NEW x \in Devices
        PROVE  /\ Has(row'[x], blob'[x])
               /\ phase'[x] \in {"import", "push"} => Has(row'[x], base'[x]) /\ Has(base'[x], blob'[x])
    <2>1. CASE x = d
      <3>1. Has(row'[d], base[d]) /\ Has(base[d], blob[d]) /\ blob' = blob
        BY ImportWrites DEF Import, Shape, OwnBlobKept
      <3>2. row'[d] \in RowSet /\ base[d] \in RowSet /\ blob[d] \in RowSet
        BY ImportWrites DEF Import, Shape, InRowSet
      <3>3. phase'[d] \notin {"import", "push"}
        BY ImportWrites DEF Shape
      <3> QED BY <2>1, <3>1, <3>2, <3>3, Order
    <2>2. CASE x # d
      BY <2>2, ImportWrites DEF Shape, OwnBlobKept
    <2> QED BY <2>1, <2>2
  <1> QED BY <1>1 DEF OwnBlobKept, Has

\* A command adds to what a device has.
LEMMA EditOwn ==
  ASSUME Laws(RowSet), Shape, InRowSet, OwnBlobKept,
         NEW d \in Devices, Edit(d)
  PROVE  OwnBlobKept'
  <1>1. row'[d] \in RowSet /\ Has(row'[d], row[d]) /\ UNCHANGED <<blob, phase, base>>
    BY EditAdds DEF Shape, round
  <1>2. ASSUME NEW x \in Devices
        PROVE  /\ Has(row'[x], blob[x])
               /\ phase[x] \in {"import", "push"} => Has(row'[x], base[x]) /\ Has(base[x], blob[x])
    <2>1. CASE x = d
      BY <1>1, <2>1, Order DEF OwnBlobKept, InRowSet
    <2>2. CASE x # d
      BY <2>2, EditAdds DEF Shape, OwnBlobKept
    <2> QED BY <2>1, <2>2
  <1> QED BY <1>1, <1>2 DEF OwnBlobKept, Has

\* A device keeps what it uploaded.
LEMMA StepOwnBlobKept ==
  ASSUME Laws(RowSet), Shape, InRowSet, OwnBlobKept, [Next]_vars
  PROVE  OwnBlobKept'
  <1> USE HasItself, StepInRowSet DEF Shape, Maps, TypeOK, InRowSet, OwnBlobKept, Has
  <1>1. ASSUME NEW d \in Devices, Start(d) PROVE OwnBlobKept'
    BY <1>1 DEF Start
  <1>2. ASSUME NEW d \in Devices, NEW e \in Devices, Download(d, e) PROVE OwnBlobKept'
    BY <1>2 DEF Download, asked
  <1>3. ASSUME NEW d \in Devices, NEW e \in Devices, SkipDownload(d, e) PROVE OwnBlobKept'
    BY <1>3 DEF SkipDownload, asked
  <1>4. ASSUME NEW d \in Devices, ReadBase(d) PROVE OwnBlobKept'
    BY <1>4 DEF ReadBase, asked
  <1>5. ASSUME NEW d \in Devices, Import(d) PROVE OwnBlobKept'
    BY <1>5, ImportOwn
  <1>6. ASSUME NEW d \in Devices, ImportFails(d) PROVE OwnBlobKept'
    BY <1>6 DEF ImportFails, Done
  <1>7. ASSUME NEW d \in Devices, Export(d) PROVE OwnBlobKept'
    BY <1>7 DEF Export, asked
  <1>8. ASSUME NEW d \in Devices, Push(d) PROVE OwnBlobKept'
    BY <1>8 DEF Push, Arrives
  <1>9. ASSUME NEW d \in Devices, PushUnanswered(d) PROVE OwnBlobKept'
    BY <1>9 DEF PushUnanswered, Arrives
  <1>10. ASSUME NEW d \in Devices, PushFails(d) PROVE OwnBlobKept'
    BY <1>10 DEF PushFails, Done
  <1>11. ASSUME NEW d \in Devices, Disconnect(d) PROVE OwnBlobKept'
    BY <1>11 DEF Disconnect, round, asked
  <1>12. ASSUME NEW d \in Devices, Reconnect(d) PROVE OwnBlobKept'
    BY <1>12 DEF Reconnect, round
  <1>13. ASSUME NEW d \in Devices, Restart(d) PROVE OwnBlobKept'
    BY <1>13 DEF Restart, Done
  <1>14. ASSUME NEW d \in Devices, Edit(d) PROVE OwnBlobKept'
    BY <1>14, EditOwn
  <1>15. CASE UNCHANGED vars
    BY <1>15 DEF vars, round, asked
  <1> QED BY <1>1, <1>2, <1>3, <1>4, <1>5, <1>6, <1>7, <1>8, <1>9, <1>10, <1>11, <1>12, <1>13, <1>14, <1>15 DEF Next, SyncStep, Disturb

\* An import downloads nothing.
LEMMA ImportPayloads ==
  ASSUME Laws(RowSet), Shape, InRowSet, OwnBlobKept, PayloadsAreBlobs,
         NEW d \in Devices, Import(d)
  PROVE  PayloadsAreBlobs'
  <1>1. ASSUME NEW x \in Devices, NEW e \in Devices, got'[x][e] # Missing
        PROVE  got'[x][e] = got[x][e] /\ current'[x] \subseteq current[x]
    <2>1. CASE x = d
      BY <1>1, <2>1, ImportWrites DEF Shape
    <2>2. CASE x # d
      BY <2>2, ImportWrites DEF Shape
    <2> QED BY <2>1, <2>2
  <1>2. blob' = blob
    BY ImportWrites DEF Shape
  <1> QED BY <1>1, <1>2 DEF PayloadsAreBlobs, Has

\* A round lists before it downloads.
LEMMA StartPayloads ==
  ASSUME Laws(RowSet), Shape, InRowSet, OwnBlobKept, PayloadsAreBlobs,
         NEW d \in Devices, Start(d)
  PROVE  PayloadsAreBlobs'
  <1>1. UNCHANGED <<got, blob>> /\ \A x \in Devices : x # d => current'[x] = current[x]
    BY DEF Start, Shape, Maps
  <1>2. \A e \in Devices : got[d][e] = Missing
    <2>1. phase[d] = "idle" /\ Fetched(d) = {}
      BY DEF Start, Shape, TypeOK
    <2> QED BY <2>1 DEF Fetched
  <1> QED BY <1>1, <1>2 DEF PayloadsAreBlobs, Has

\* A new blob has what was downloaded of the one before, and is nobody's current one.
LEMMA ArrivesPayloads ==
  ASSUME Laws(RowSet), Shape, InRowSet, OwnBlobKept, PayloadsAreBlobs,
         NEW d \in Devices, Arrives(d)
  PROVE  PayloadsAreBlobs'
  <1>1. Has(base[d], blob[d]) /\ base[d] \in RowSet /\ blob[d] \in RowSet
    BY DEF Arrives, OwnBlobKept, InRowSet
  <1>2. ASSUME NEW x \in Devices, NEW e \in Devices, got'[x][e] # Missing
        PROVE  Has(blob'[e], got'[x][e]) /\ (e \in current'[x] => got'[x][e] = blob'[e])
    <2>1. x # d
      BY <1>2, ArrivesReplaces DEF Shape
    <2>2. got'[x] = got[x] /\ current'[x] = current[x] \ {d}
      BY <2>1, ArrivesReplaces DEF Shape
    <2>3. /\ got[x][e] \in RowSet /\ Has(blob[e], got[x][e])
          /\ e \in current[x] => got[x][e] = blob[e]
      BY <1>2, <2>2 DEF InRowSet, PayloadsAreBlobs
    <2>4. CASE e = d
      <3>1. blob'[e] = base[d]
        BY <2>4, ArrivesReplaces DEF Shape
      <3> QED BY <1>1, <2>2, <2>3, <2>4, <3>1, Order
    <2>5. CASE e # d
      BY <2>2, <2>3, <2>5, ArrivesReplaces DEF Shape
    <2> QED BY <2>4, <2>5
  <1> QED BY <1>2 DEF PayloadsAreBlobs, Has

\* Payloads are current or older blobs.
LEMMA StepPayloadsAreBlobs ==
  ASSUME Laws(RowSet), Shape, InRowSet, OwnBlobKept, PayloadsAreBlobs, [Next]_vars
  PROVE  PayloadsAreBlobs'
  <1> USE HasItself, StepInRowSet DEF Shape, Maps, TypeOK, InRowSet, PayloadsAreBlobs, OwnBlobKept, Has
  <1>1. ASSUME NEW d \in Devices, Start(d) PROVE PayloadsAreBlobs'
    BY <1>1, StartPayloads
  <1>2. ASSUME NEW d \in Devices, NEW e \in Devices, Download(d, e) PROVE PayloadsAreBlobs'
    BY <1>2 DEF Download, asked
  <1>3. ASSUME NEW d \in Devices, NEW e \in Devices, SkipDownload(d, e) PROVE PayloadsAreBlobs'
    BY <1>3 DEF SkipDownload, asked
  <1>4. ASSUME NEW d \in Devices, ReadBase(d) PROVE PayloadsAreBlobs'
    BY <1>4 DEF ReadBase, asked
  <1>5. ASSUME NEW d \in Devices, Import(d) PROVE PayloadsAreBlobs'
    BY <1>5, ImportPayloads
  <1>6. ASSUME NEW d \in Devices, ImportFails(d) PROVE PayloadsAreBlobs'
    BY <1>6 DEF ImportFails, Done
  <1>7. ASSUME NEW d \in Devices, Export(d) PROVE PayloadsAreBlobs'
    BY <1>7 DEF Export, asked
  <1>8. ASSUME NEW d \in Devices, Push(d) PROVE PayloadsAreBlobs'
    BY <1>8, ArrivesPayloads DEF Push
  <1>9. ASSUME NEW d \in Devices, PushUnanswered(d) PROVE PayloadsAreBlobs'
    BY <1>9, ArrivesPayloads DEF PushUnanswered
  <1>10. ASSUME NEW d \in Devices, PushFails(d) PROVE PayloadsAreBlobs'
    BY <1>10 DEF PushFails, Done
  <1>11. ASSUME NEW d \in Devices, Disconnect(d) PROVE PayloadsAreBlobs'
    BY <1>11 DEF Disconnect, round, asked
  <1>12. ASSUME NEW d \in Devices, Reconnect(d) PROVE PayloadsAreBlobs'
    BY <1>12 DEF Reconnect, round
  <1>13. ASSUME NEW d \in Devices, Restart(d) PROVE PayloadsAreBlobs'
    BY <1>13 DEF Restart, Done
  <1>14. ASSUME NEW d \in Devices, Edit(d) PROVE PayloadsAreBlobs'
    BY <1>14 DEF Edit, round
  <1>15. CASE UNCHANGED vars
    BY <1>15 DEF vars, round, asked
  <1> QED BY <1>1, <1>2, <1>3, <1>4, <1>5, <1>6, <1>7, <1>8, <1>9, <1>10, <1>11, <1>12, <1>13, <1>14, <1>15 DEF Next, SyncStep, Disturb

\* What a merge reads has the settled blobs.
LEMMA StepBaseHasSettled ==
  ASSUME Laws(RowSet), Shape, InRowSet, BaseHasSettled, SettledMeansMerged, [Next]_vars
  PROVE  BaseHasSettled'
  <1> USE HasItself, StepInRowSet DEF Shape, Maps, TypeOK, InRowSet, BaseHasSettled, SettledMeansMerged, Has
  <1>1. ASSUME NEW d \in Devices, Start(d) PROVE BaseHasSettled'
    BY <1>1 DEF Start
  <1>2. ASSUME NEW d \in Devices, NEW e \in Devices, Download(d, e) PROVE BaseHasSettled'
    BY <1>2 DEF Download, asked
  <1>3. ASSUME NEW d \in Devices, NEW e \in Devices, SkipDownload(d, e) PROVE BaseHasSettled'
    BY <1>3 DEF SkipDownload, asked
  <1>4. ASSUME NEW d \in Devices, ReadBase(d) PROVE BaseHasSettled'
    BY <1>4 DEF ReadBase, asked
  <1>5. ASSUME NEW d \in Devices, Import(d) PROVE BaseHasSettled'
    BY <1>5 DEF Import, Done, asked
  <1>6. ASSUME NEW d \in Devices, ImportFails(d) PROVE BaseHasSettled'
    BY <1>6 DEF ImportFails, Done
  <1>7. ASSUME NEW d \in Devices, Export(d) PROVE BaseHasSettled'
    BY <1>7 DEF Export, asked
  <1>8. ASSUME NEW d \in Devices, Push(d) PROVE BaseHasSettled'
    BY <1>8 DEF Push, Arrives
  <1>9. ASSUME NEW d \in Devices, PushUnanswered(d) PROVE BaseHasSettled'
    BY <1>9 DEF PushUnanswered, Arrives
  <1>10. ASSUME NEW d \in Devices, PushFails(d) PROVE BaseHasSettled'
    BY <1>10 DEF PushFails, Done
  <1>11. ASSUME NEW d \in Devices, Disconnect(d) PROVE BaseHasSettled'
    BY <1>11 DEF Disconnect, round, asked
  <1>12. ASSUME NEW d \in Devices, Reconnect(d) PROVE BaseHasSettled'
    BY <1>12 DEF Reconnect, round
  <1>13. ASSUME NEW d \in Devices, Restart(d) PROVE BaseHasSettled'
    BY <1>13 DEF Restart, Done
  <1>14. ASSUME NEW d \in Devices, Edit(d) PROVE BaseHasSettled'
    BY <1>14 DEF Edit, round, Laws
  <1>15. CASE UNCHANGED vars
    BY <1>15 DEF vars, round, asked
  <1> QED BY <1>1, <1>2, <1>3, <1>4, <1>5, <1>6, <1>7, <1>8, <1>9, <1>10, <1>11, <1>12, <1>13, <1>14, <1>15 DEF Next, SyncStep, Disturb

\* A command takes nothing back.
LEMMA EditSettled ==
  ASSUME Laws(RowSet), Exact, Shape, InRowSet, OwnBlobKept, PayloadsAreBlobs, BaseHasSettled, SettledMeansMerged,
         NEW d \in Devices, Edit(d)
  PROVE  SettledMeansMerged'
  <1>1. row'[d] \in RowSet /\ Has(row'[d], row[d]) /\ UNCHANGED <<blob, settled>>
    BY EditAdds DEF Shape
  <1>2. ASSUME NEW x \in Devices, NEW e \in settled[x] PROVE Has(row'[x], blob[e])
    <2>1. e \in Devices /\ Has(row[x], blob[e]) /\ blob[e] \in RowSet /\ row[x] \in RowSet
      BY DEF Shape, Maps, SettledMeansMerged, InRowSet
    <2>2. CASE x = d
      BY <1>1, <2>1, <2>2, Order
    <2>3. CASE x # d
      BY <2>1, <2>3, EditAdds DEF Shape
    <2> QED BY <2>2, <2>3
  <1> QED BY <1>1, <1>2 DEF SettledMeansMerged, Has

\* What an import settles is in the row it leaves.
LEMMA ImportSettled ==
  ASSUME Laws(RowSet), Exact, Shape, InRowSet, OwnBlobKept, PayloadsAreBlobs, BaseHasSettled, SettledMeansMerged,
         NEW d \in Devices, Import(d)
  PROVE  SettledMeansMerged'
  <1>1. /\ blob' = blob /\ row'[d] \in RowSet /\ Has(row'[d], base[d]) /\ base[d] \in RowSet
        /\ phase[d] = "import" /\ settled'[d] = settled[d] \union (Fetched(d) \intersect current[d])
        /\ \A e \in Fetched(d) : Has(row'[d], got[d][e])
    BY ImportWrites DEF Shape, Import, InRowSet
  <1>2. ASSUME NEW e \in settled'[d] PROVE Has(row'[d], blob[e])
    <2>1. CASE e \in settled[d]
      <3>1. e \in Devices /\ Has(base[d], blob[e])
        BY <1>1, <2>1 DEF BaseHasSettled, Shape, Maps
      <3> QED BY <1>1, <3>1, Order DEF InRowSet
    <2>2. CASE e \in Fetched(d) \intersect current[d]
      <3>1. got[d][e] = blob[e]
        BY <2>2 DEF Fetched, PayloadsAreBlobs
      <3> QED BY <1>1, <2>2, <3>1
    <2> QED BY <1>1, <1>2, <2>1, <2>2
  <1>3. ASSUME NEW x \in Devices, x # d PROVE row'[x] = row[x] /\ settled'[x] = settled[x]
    BY <1>3, ImportWrites DEF Shape
  <1> QED BY <1>1, <1>2, <1>3 DEF SettledMeansMerged, Has

\* A blob is settled when its merge has been written.
LEMMA StepSettledMeansMerged ==
  ASSUME Laws(RowSet), Exact, Shape, InRowSet, OwnBlobKept, PayloadsAreBlobs, BaseHasSettled, SettledMeansMerged, [Next]_vars
  PROVE  SettledMeansMerged'
  <1> USE HasItself, StepInRowSet DEF Shape, Maps, TypeOK, InRowSet, OwnBlobKept, PayloadsAreBlobs, BaseHasSettled, SettledMeansMerged, Has
  <1>1. ASSUME NEW d \in Devices, Start(d) PROVE SettledMeansMerged'
    BY <1>1 DEF Start
  <1>2. ASSUME NEW d \in Devices, NEW e \in Devices, Download(d, e) PROVE SettledMeansMerged'
    BY <1>2 DEF Download, asked
  <1>3. ASSUME NEW d \in Devices, NEW e \in Devices, SkipDownload(d, e) PROVE SettledMeansMerged'
    BY <1>3 DEF SkipDownload, asked
  <1>4. ASSUME NEW d \in Devices, ReadBase(d) PROVE SettledMeansMerged'
    BY <1>4 DEF ReadBase, asked
  <1>5. ASSUME NEW d \in Devices, Import(d) PROVE SettledMeansMerged'
    BY <1>5, ImportSettled
  <1>6. ASSUME NEW d \in Devices, ImportFails(d) PROVE SettledMeansMerged'
    BY <1>6 DEF ImportFails, Done
  <1>7. ASSUME NEW d \in Devices, Export(d) PROVE SettledMeansMerged'
    BY <1>7 DEF Export, asked
  <1>8. ASSUME NEW d \in Devices, Push(d) PROVE SettledMeansMerged'
    BY <1>8 DEF Push, Arrives
  <1>9. ASSUME NEW d \in Devices, PushUnanswered(d) PROVE SettledMeansMerged'
    BY <1>9 DEF PushUnanswered, Arrives
  <1>10. ASSUME NEW d \in Devices, PushFails(d) PROVE SettledMeansMerged'
    BY <1>10 DEF PushFails, Done
  <1>11. ASSUME NEW d \in Devices, Disconnect(d) PROVE SettledMeansMerged'
    BY <1>11 DEF Disconnect, round, asked
  <1>12. ASSUME NEW d \in Devices, Reconnect(d) PROVE SettledMeansMerged'
    BY <1>12 DEF Reconnect, round
  <1>13. ASSUME NEW d \in Devices, Restart(d) PROVE SettledMeansMerged'
    BY <1>13 DEF Restart, Done
  <1>14. ASSUME NEW d \in Devices, Edit(d) PROVE SettledMeansMerged'
    BY <1>14, EditSettled
  <1>15. CASE UNCHANGED vars
    BY <1>15 DEF vars, round, asked
  <1> QED BY <1>1, <1>2, <1>3, <1>4, <1>5, <1>6, <1>7, <1>8, <1>9, <1>10, <1>11, <1>12, <1>13, <1>14, <1>15 DEF Next, SyncStep, Disturb

\* An export takes everything; a later command owes another push.
LEMMA StepPushHasAll ==
  ASSUME Laws(RowSet), Shape, InRowSet, PushHasAll, [Next]_vars
  PROVE  PushHasAll'
  <1> USE HasItself, StepInRowSet DEF Shape, Maps, TypeOK, InRowSet, PushHasAll, Has
  <1>1. ASSUME NEW d \in Devices, Start(d) PROVE PushHasAll'
    BY <1>1 DEF Start
  <1>2. ASSUME NEW d \in Devices, NEW e \in Devices, Download(d, e) PROVE PushHasAll'
    BY <1>2 DEF Download, asked
  <1>3. ASSUME NEW d \in Devices, NEW e \in Devices, SkipDownload(d, e) PROVE PushHasAll'
    BY <1>3 DEF SkipDownload, asked
  <1>4. ASSUME NEW d \in Devices, ReadBase(d) PROVE PushHasAll'
    BY <1>4 DEF ReadBase, asked
  <1>5. ASSUME NEW d \in Devices, Import(d) PROVE PushHasAll'
    BY <1>5 DEF Import, Done, asked
  <1>6. ASSUME NEW d \in Devices, ImportFails(d) PROVE PushHasAll'
    BY <1>6 DEF ImportFails, Done
  <1>7. ASSUME NEW d \in Devices, Export(d) PROVE PushHasAll'
    BY <1>7 DEF Export, asked
  <1>8. ASSUME NEW d \in Devices, Push(d) PROVE PushHasAll'
    BY <1>8 DEF Push, Arrives
  <1>9. ASSUME NEW d \in Devices, PushUnanswered(d) PROVE PushHasAll'
    BY <1>9 DEF PushUnanswered, Arrives
  <1>10. ASSUME NEW d \in Devices, PushFails(d) PROVE PushHasAll'
    BY <1>10 DEF PushFails, Done
  <1>11. ASSUME NEW d \in Devices, Disconnect(d) PROVE PushHasAll'
    BY <1>11 DEF Disconnect, round, asked
  <1>12. ASSUME NEW d \in Devices, Reconnect(d) PROVE PushHasAll'
    BY <1>12 DEF Reconnect, round
  <1>13. ASSUME NEW d \in Devices, Restart(d) PROVE PushHasAll'
    BY <1>13 DEF Restart, Done
  <1>14. ASSUME NEW d \in Devices, Edit(d) PROVE PushHasAll'
    BY <1>14 DEF Edit, round, Laws
  <1>15. CASE UNCHANGED vars
    BY <1>15 DEF vars, round, asked
  <1> QED BY <1>1, <1>2, <1>3, <1>4, <1>5, <1>6, <1>7, <1>8, <1>9, <1>10, <1>11, <1>12, <1>13, <1>14, <1>15 DEF Next, SyncStep, Disturb

\* A merge brings in what is in the blobs already.
LEMMA ImportPublished ==
  ASSUME Laws(RowSet), Shape, InRowSet, OwnBlobKept, PayloadsAreBlobs, Published, PushHasAll,
         NEW d \in Devices, Import(d)
  PROVE  Published'
  <1>1. blob' = blob /\ login' = login /\ owed' = owed
    BY ImportWrites DEF Shape
  <1>2. SUFFICES ASSUME NEW x \in Devices, ~(login[x] \/ owed[x] \/ must'[x]),
                        NEW u \in RowSet, \A e \in Devices : Has(u, blob[e])
                 PROVE  Has(u, row'[x])
    BY <1>1 DEF Published, Owes, Has
  <1>3. Has(u, row[x])
    <2>1. must'[x] = must[x]
      BY ImportWrites DEF Shape
    <2> QED BY <1>2, <2>1 DEF Published, Owes
  <1>4. CASE x = d
    <2>1. ASSUME NEW e \in Fetched(d) PROVE Has(u, got[d][e])
      <3>1. /\ e \in Devices /\ Has(blob[e], got[d][e])
            /\ got[d][e] \in RowSet /\ blob[e] \in RowSet
        BY <2>1 DEF Fetched, PayloadsAreBlobs, InRowSet
      <3> QED BY <1>2, <3>1, Order
    <2> QED BY <1>3, <1>4, <2>1, ImportWrites DEF Shape
  <1>5. CASE x # d
    BY <1>3, <1>5, ImportWrites DEF Shape
  <1> QED BY <1>4, <1>5

\* A PUT that arrives publishes what the device has, unless a push is still owed.
LEMMA ArrivesPublished ==
  ASSUME Laws(RowSet), Shape, InRowSet, OwnBlobKept, PayloadsAreBlobs, Published, PushHasAll,
         NEW d \in Devices, Arrives(d), \A x \in Devices : owed[x] => owed'[x]
  PROVE  Published'
  <1>1. /\ Has(base[d], blob[d]) /\ base[d] \in RowSet /\ blob[d] \in RowSet
        /\ login[d] \/ owed[d] \/ Has(base[d], row[d])
    BY DEF Arrives, OwnBlobKept, InRowSet, PushHasAll
  <1>2. SUFFICES ASSUME NEW x \in Devices, ~(login'[x] \/ owed'[x] \/ must'[x]),
                        NEW u \in RowSet, \A e \in Devices : Has(u, blob'[e])
                 PROVE  Has(u, row'[x])
    BY DEF Published, Owes, Has
  <1>3. Has(u, base[d]) /\ row' = row /\ ~login[x] /\ ~owed[x]
    BY <1>2, ArrivesReplaces DEF Shape
  <1>4. CASE x = d
    <2>1. Has(base[d], row[d]) /\ row[d] \in RowSet
      BY <1>1, <1>3, <1>4 DEF InRowSet
    <2> QED BY <1>1, <1>3, <1>4, <2>1, Order
  <1>5. CASE x # d
    <2>1. ~Owes(x)
      BY <1>2, <1>3, <1>5, ArrivesReplaces DEF Owes, Shape
    <2>2. ASSUME NEW e \in Devices PROVE Has(u, blob[e])
      <3>1. CASE e = d
        BY <1>1, <1>3, <3>1, Order
      <3>2. CASE e # d
        BY <1>2, <3>2, ArrivesReplaces DEF Shape
      <3> QED BY <3>1, <3>2
    <2> QED BY <1>3, <2>1, <2>2 DEF Published
  <1> QED BY <1>4, <1>5

\* What a device owes nobody is in the blobs.
LEMMA StepPublished ==
  ASSUME Laws(RowSet), Shape, InRowSet, OwnBlobKept, PayloadsAreBlobs, Published, PushHasAll, [Next]_vars
  PROVE  Published'
  <1> USE HasItself, StepInRowSet DEF Shape, Maps, TypeOK, InRowSet, Published, Owes, PushHasAll, OwnBlobKept, PayloadsAreBlobs, Has
  <1>1. ASSUME NEW d \in Devices, Start(d) PROVE Published'
    BY <1>1 DEF Start
  <1>2. ASSUME NEW d \in Devices, NEW e \in Devices, Download(d, e) PROVE Published'
    BY <1>2 DEF Download, asked
  <1>3. ASSUME NEW d \in Devices, NEW e \in Devices, SkipDownload(d, e) PROVE Published'
    BY <1>3 DEF SkipDownload, asked
  <1>4. ASSUME NEW d \in Devices, ReadBase(d) PROVE Published'
    BY <1>4 DEF ReadBase, asked
  <1>5. ASSUME NEW d \in Devices, Import(d) PROVE Published'
    BY <1>5, ImportPublished
  <1>6. ASSUME NEW d \in Devices, ImportFails(d) PROVE Published'
    BY <1>6 DEF ImportFails, Done
  <1>7. ASSUME NEW d \in Devices, Export(d) PROVE Published'
    BY <1>7 DEF Export, asked
  <1>8. ASSUME NEW d \in Devices, Push(d) PROVE Published'
    BY <1>8, ArrivesPublished DEF Push
  <1>9. ASSUME NEW d \in Devices, PushUnanswered(d) PROVE Published'
    BY <1>9, ArrivesPublished DEF PushUnanswered
  <1>10. ASSUME NEW d \in Devices, PushFails(d) PROVE Published'
    BY <1>10 DEF PushFails, Done
  <1>11. ASSUME NEW d \in Devices, Disconnect(d) PROVE Published'
    BY <1>11 DEF Disconnect, round, asked
  <1>12. ASSUME NEW d \in Devices, Reconnect(d) PROVE Published'
    BY <1>12 DEF Reconnect, round
  <1>13. ASSUME NEW d \in Devices, Restart(d) PROVE Published'
    BY <1>13 DEF Restart, Done
  <1>14. ASSUME NEW d \in Devices, Edit(d) PROVE Published'
    BY <1>14 DEF Edit, round, Laws
  <1>15. CASE UNCHANGED vars
    BY <1>15 DEF vars, round, asked
  <1> QED BY <1>1, <1>2, <1>3, <1>4, <1>5, <1>6, <1>7, <1>8, <1>9, <1>10, <1>11, <1>12, <1>13, <1>14, <1>15 DEF Next, SyncStep, Disturb

(***************************************************************************)
(* The theorems, for any rows that are merged by a least upper bound       *)
(***************************************************************************)

\* All begin with one row.
LEMMA InitIInv == ASSUME Laws(RowSet), Init
                  PROVE  IInv /\ PInv
  <1>1. First \in RowSet /\ Has(First, First)
    BY Order DEF Laws
  <1>2. ASSUME NEW d \in Devices
        PROVE  row[d] = First /\ blob[d] = First /\ phase[d] = "idle"
               /\ \A e \in Devices : got[d][e] = Missing
    BY DEF Init
  <1>3. \A d \in Devices : settled[d] \subseteq Devices
    BY DEF Init
  <1>4. InRowSet /\ OwnBlobKept
    BY <1>1, <1>2 DEF InRowSet, OwnBlobKept
  <1>5. PayloadsAreBlobs /\ BaseHasSettled /\ PushHasAll
    BY <1>2 DEF PayloadsAreBlobs, BaseHasSettled, PushHasAll
  <1>6. SettledMeansMerged
    BY <1>1, <1>2, <1>3 DEF SettledMeansMerged
  <1>7. Published
    BY <1>2 DEF Published
  <1> QED BY <1>4, <1>5, <1>6, <1>7, InitShape DEF IInv, PInv

\* The types need no law.
THEOREM TypeCorrect == Spec => []TypeOK
  <1>1. Shape /\ [Next]_vars => Shape'
    BY StepMaps, StepTypeOK DEF Shape
  <1>2. Shape => TypeOK
    BY DEF Shape
  <1> QED BY <1>1, <1>2, InitShape, PTL DEF Spec

\* The part of the invariant that needs no exact comparison.
Kept == Shape /\ InRowSet /\ OwnBlobKept

\* It is inductive.
LEMMA StepKept == Laws(RowSet) /\ Kept /\ [Next]_vars => Kept'
  BY StepMaps, StepTypeOK, StepInRowSet, StepOwnBlobKept DEF Kept, Shape

\* So is the whole.
LEMMA StepIInv == Laws(RowSet) /\ Exact /\ IInv /\ PInv /\ [Next]_vars => (IInv /\ PInv)'
  <1> SUFFICES ASSUME Laws(RowSet), Exact, IInv, PInv, [Next]_vars PROVE (IInv /\ PInv)'
    OBVIOUS
  <1>1. /\ Shape /\ InRowSet /\ OwnBlobKept /\ PayloadsAreBlobs /\ BaseHasSettled
        /\ SettledMeansMerged /\ Published /\ PushHasAll
    BY DEF IInv, PInv
  <1>2. Shape' /\ InRowSet' /\ OwnBlobKept'
    BY <1>1, StepKept DEF Kept
  <1>3. PayloadsAreBlobs'
    BY <1>1, StepPayloadsAreBlobs
  <1>4. BaseHasSettled' /\ SettledMeansMerged'
    BY <1>1, StepBaseHasSettled, StepSettledMeansMerged
  <1>5. Published' /\ PushHasAll'
    BY <1>1, StepPublished, StepPushHasAll
  <1> QED BY <1>2, <1>3, <1>4, <1>5 DEF IInv, PInv

\* A device at rest that has everybody's blob has everybody's row.
LEMMA AgreeBySettled == ASSUME Laws(RowSet), Exact, IInv, PInv PROVE SettledDevicesAgree
  <1>1. ASSUME NEW d \in Devices, NEW e \in Devices, Rests(d), AllSettled(e)
        PROVE  Has(row[e], row[d])
    <2>1. ~Owes(d)
      BY <1>1 DEF Rests, Owes, IInv, Shape, TypeOK
    <2>2. ASSUME NEW x \in Devices PROVE Has(row[e], blob[x])
      <3>1. CASE x = e
        BY <3>1 DEF IInv, OwnBlobKept
      <3>2. CASE x # e
        BY <1>1, <3>2 DEF AllSettled, IInv, SettledMeansMerged
      <3> QED BY <3>1, <3>2
    <2>3. row[e] \in RowSet
      BY DEF IInv, InRowSet
    <2> QED BY <2>1, <2>2, <2>3 DEF PInv, Published
  <1>2. ASSUME NEW d \in Devices, NEW e \in Devices,
               Rests(d), Rests(e), AllSettled(d), AllSettled(e)
        PROVE  Clocked(row[d]) = Clocked(row[e])
    <2>1. Has(row[e], row[d]) /\ Has(row[d], row[e])
      BY <1>1, <1>2
    <2>2. row[d] \in RowSet /\ row[e] \in RowSet
      BY DEF IInv, InRowSet
    <2> QED BY <2>1, <2>2, Order
  <1> QED BY <1>2 DEF SettledDevicesAgree

\* The merge rules are a lattice, and the comparison is exact: a settled blob has been
\* merged (settledBlobs.ts), and devices that have settled everything agree (crdt.ts:
\* "so both devices converge on the same result").
THEOREM SettledAgree == Lattice /\ Exact /\ Spec => [](SettledMeansMerged /\ SettledDevicesAgree)
  <1> DEFINE C == Laws(RowSet) /\ Exact
             I == IInv /\ PInv
  <1>1. Lattice /\ Exact => C
    BY RowSetLaws
  <1>2. C => C'
    BY DEF Laws, Exact, Has, RowSet
  <1>3. C /\ Init => I
    BY InitIInv
  <1>4. C /\ I /\ [Next]_vars => I'
    BY StepIInv
  <1>5. C /\ I => SettledMeansMerged /\ SettledDevicesAgree
    BY AgreeBySettled DEF IInv
  <1> HIDE DEF C, I
  <1> QED BY <1>1, <1>2, <1>3, <1>4, <1>5, PTL DEF Spec

(***************************************************************************)
(* No write is taken back                                                  *)
(***************************************************************************)

\* While no command writes during a merge, what the merge has read is the row.
BaseIsRow == \A d \in Devices : phase[d] = "import" => base[d] = row[d]

\* Only a command in the window could come between.
LEMMA StepBaseIsRow ==
  ASSUME ~EditsInWindow, Shape, BaseIsRow, [Next]_vars
  PROVE  BaseIsRow'
  <1> USE DEF Shape, Maps, BaseIsRow
  <1>1. ASSUME NEW d \in Devices, Start(d) PROVE BaseIsRow'
    BY <1>1 DEF Start
  <1>2. ASSUME NEW d \in Devices, NEW e \in Devices, Download(d, e) PROVE BaseIsRow'
    BY <1>2 DEF Download
  <1>3. ASSUME NEW d \in Devices, NEW e \in Devices, SkipDownload(d, e) PROVE BaseIsRow'
    BY <1>3 DEF SkipDownload
  <1>4. ASSUME NEW d \in Devices, ReadBase(d) PROVE BaseIsRow'
    BY <1>4 DEF ReadBase
  <1>5. ASSUME NEW d \in Devices, Import(d) PROVE BaseIsRow'
    BY <1>5 DEF Import, Done
  <1>6. ASSUME NEW d \in Devices, ImportFails(d) PROVE BaseIsRow'
    BY <1>6 DEF ImportFails, Done
  <1>7. ASSUME NEW d \in Devices, Export(d) PROVE BaseIsRow'
    BY <1>7 DEF Export
  <1>8. ASSUME NEW d \in Devices, Push(d) \/ PushUnanswered(d) PROVE BaseIsRow'
    BY <1>8 DEF Push, PushUnanswered, Arrives
  <1>9. ASSUME NEW d \in Devices, PushFails(d) PROVE BaseIsRow'
    BY <1>9 DEF PushFails, Done
  <1>10. ASSUME NEW d \in Devices, Disconnect(d) \/ Reconnect(d) PROVE BaseIsRow'
    BY <1>10 DEF Disconnect, Reconnect, round
  <1>11. ASSUME NEW d \in Devices, Restart(d) PROVE BaseIsRow'
    BY <1>11 DEF Restart, Done
  <1>12. ASSUME NEW d \in Devices, Edit(d) PROVE BaseIsRow'
    BY <1>12 DEF Edit, round
  <1>13. CASE UNCHANGED vars
    BY <1>13 DEF vars, round
  <1> QED BY <1>1, <1>2, <1>3, <1>4, <1>5, <1>6, <1>7, <1>8, <1>9, <1>10, <1>11, <1>12, <1>13
          DEF Next, SyncStep, Disturb

\* Rows are left alone by everything but a command and an import.
LEMMA RowsLeftAlone ==
  ASSUME Next, \A d \in Devices : ~Import(d) /\ ~Edit(d)
  PROVE  row' = row
  <1>1. ASSUME NEW d \in Devices, Push(d) \/ PushUnanswered(d) PROVE row' = row
    BY <1>1 DEF Push, PushUnanswered, Arrives
  <1>2. ASSUME NEW d \in Devices, Disconnect(d) \/ Reconnect(d) \/ Restart(d) PROVE row' = row
    BY <1>2 DEF Disconnect, Reconnect, Restart
  <1>3. ASSUME NEW d \in Devices, Start(d) \/ ReadBase(d) \/ ImportFails(d) \/ Export(d) \/ PushFails(d)
        PROVE  row' = row
    BY <1>3 DEF Start, ReadBase, ImportFails, Export, PushFails
  <1>4. ASSUME NEW d \in Devices, NEW e \in Devices, Download(d, e) \/ SkipDownload(d, e)
        PROVE  row' = row
    BY <1>4 DEF Download, SkipDownload
  <1> QED BY <1>1, <1>2, <1>3, <1>4 DEF Next, SyncStep, Disturb

\* Every step leaves each device what it had.
LEMMA StepKeepsWrites ==
  ASSUME Laws(RowSet), Kept, BaseIsRow, Next, NEW x \in Devices
  PROVE  Has(row'[x], row[x])
  <1> USE DEF Kept, Shape
  <1>1. row[x] \in RowSet /\ Has(row[x], row[x])
    BY Order DEF InRowSet
  <1>2. ASSUME NEW d \in Devices, Import(d) PROVE Has(row'[x], row[x])
    <2>1. base[d] = row[d]
      BY <1>2 DEF Import, BaseIsRow
    <2> QED BY <1>1, <1>2, <2>1, ImportWrites
  <1>3. ASSUME NEW d \in Devices, Edit(d) PROVE Has(row'[x], row[x])
    BY <1>1, <1>3, EditAdds
  <1>4. CASE \A d \in Devices : ~Import(d) /\ ~Edit(d)
    BY <1>1, <1>4, RowsLeftAlone
  <1> QED BY <1>2, <1>3, <1>4

\* "every read-merge-write of local state runs here, one at a time" (sync.ts): as long
\* as commands keep out of the window, no step takes a write back.  Entities and secrets.
THEOREM KeepsWrites == Lattice /\ ~EditsInWindow /\ Spec => WritesAreKept
  <1> DEFINE C == Laws(RowSet) /\ ~EditsInWindow
             I == Kept /\ BaseIsRow
             A == \A d \in Devices : Has(row'[d], row[d])
  <1>1. Lattice /\ ~EditsInWindow => C
    BY RowSetLaws
  <1>2. C => C'
    BY DEF Laws, Has, RowSet
  <1>3. C /\ Init => I
    BY InitIInv DEF IInv, Kept, BaseIsRow, Init
  <1>4. C /\ I /\ [Next]_vars => I'
    BY StepKept, StepBaseIsRow DEF Kept
  <1>5. C /\ I /\ [Next]_vars => [A]_vars
    BY StepKeepsWrites
  <1>6. C /\ Spec => [][A]_vars
    <2> HIDE DEF C, I, A
    <2> QED BY <1>2, <1>3, <1>4, <1>5, PTL DEF Spec
  <1> QED BY <1>1, <1>6 DEF WritesAreKept

(***************************************************************************)
(* Entities                                                                *)
(***************************************************************************)

\* The constants are those of the runs over entities.
IsEntity == /\ \A a, b : Merge(a, b) = MCMerge(a, b) /\ Differs(a, b) = MCDiffers(a, b)
            /\ \A r : Edits(r) = MCEdits(r) /\ Clocked(r) = MCClocked(r)
            /\ First = MCFirst

\* What the commands write: every key has a value; only the birth of a row, not deleted,
\* goes without a clock; a delete's time is a stamp.
WellWritten(k, c) == /\ c.val # Undefined
                     /\ c.clock = 0 => k = Deleted /\ c.val = Null
                     /\ k = Deleted => c.val <= Null
WellRows == {r \in Rows : \A k \in Keys : WellWritten(k, r[k])}

\* Cells by clock, then by value.
Older(a, b) == a.clock < b.clock \/ (a.clock = b.clock /\ a.val < b.val)

\* The keys of a row, and the numbers stamps and values are.
LEMMA Constants == /\ Deleted \in Keys /\ Deleted \notin Fields
                   /\ Keys = Fields \union {Deleted}
                   /\ Null \in Nat /\ Null > MaxStamp /\ MaxStamp \in Nat
                   /\ 1 \in Stamps /\ Undefined = 0 /\ ById \subseteq Fields
                   /\ \A s \in Stamps : s \in Nat /\ s > 0 /\ s <= MaxStamp
                   /\ \A v \in Values : v \in Nat /\ v > 0
  BY CrdtAssumption DEF Keys, Null, Undefined, Stamps

\* Two cells of one clock and one value are one cell.
LEMMA CellsByParts == \A a, b \in Cells : a.clock = b.clock /\ a.val = b.val => a = b
  BY DEF Cells

\* mergeTwo takes the newer of two well written cells (crdt.ts:19-23): the rules for a
\* missing value and for two missing clocks do not come up.
LEMMA MergeCellNewest ==
  ASSUME NEW k \in Keys, NEW a \in Cells, NEW b \in Cells, WellWritten(k, a), WellWritten(k, b)
  PROVE  MergeCell(a, b) = IF Older(a, b) THEN b ELSE a
  <1>1. a.clock \in Nat /\ b.clock \in Nat /\ a.val \in Nat /\ b.val \in Nat
    BY Constants DEF Cells
  <1>2. BWins(a, b) <=> Older(a, b)
    BY <1>1, Constants DEF BWins, Older, WellWritten
  <1> QED BY <1>2 DEF MergeCell

\* Taking the newer one is commutative, idempotent and associative.
LEMMA NewestLaws ==
  ASSUME NEW k \in Keys, NEW a \in Cells, NEW b \in Cells, NEW c \in Cells,
         WellWritten(k, a), WellWritten(k, b), WellWritten(k, c)
  PROVE  /\ MergeCell(a, b) \in Cells /\ WellWritten(k, MergeCell(a, b))
         /\ MergeCell(a, b) = MergeCell(b, a)
         /\ MergeCell(a, a) = a
         /\ MergeCell(a, MergeCell(b, c)) = MergeCell(MergeCell(a, b), c)
  <1>1. /\ a.clock \in Nat /\ b.clock \in Nat /\ c.clock \in Nat
        /\ a.val \in Nat /\ b.val \in Nat /\ c.val \in Nat
    BY Constants DEF Cells
  <1>2. MergeCell(a, b) \in {a, b} /\ MergeCell(b, c) \in {b, c}
    BY DEF MergeCell
  <1>3. /\ MergeCell(a, b) \in Cells /\ WellWritten(k, MergeCell(a, b))
        /\ MergeCell(b, c) \in Cells /\ WellWritten(k, MergeCell(b, c))
    BY <1>2
  <1>4. MergeCell(a, b) = MergeCell(b, a)
    BY <1>1, MergeCellNewest, CellsByParts DEF Older
  <1>5. MergeCell(a, a) = a
    BY DEF MergeCell
  <1>6. /\ MergeCell(a, MergeCell(b, c)) = IF Older(a, MergeCell(b, c)) THEN MergeCell(b, c) ELSE a
        /\ MergeCell(MergeCell(a, b), c) = IF Older(MergeCell(a, b), c) THEN c ELSE MergeCell(a, b)
        /\ MergeCell(a, b) = IF Older(a, b) THEN b ELSE a
        /\ MergeCell(b, c) = IF Older(b, c) THEN c ELSE b
    BY <1>3, MergeCellNewest
  <1>7. MergeCell(a, MergeCell(b, c)) = MergeCell(MergeCell(a, b), c)
    BY <1>1, <1>6 DEF Older
  <1> QED BY <1>3, <1>4, <1>5, <1>7

\* The merge of two well written rows (mergeEntities).
LEMMA MergeTwoLaws ==
  ASSUME NEW a \in WellRows, NEW b \in WellRows, NEW c \in WellRows
  PROVE  /\ MergeTwo(a, b) \in WellRows
         /\ MergeTwo(a, b) = MergeTwo(b, a)
         /\ MergeTwo(a, a) = a
         /\ MergeTwo(a, MergeTwo(b, c)) = MergeTwo(MergeTwo(a, b), c)
  <1>1. ASSUME NEW k \in Keys
        PROVE  /\ MergeCell(a[k], b[k]) \in Cells /\ WellWritten(k, MergeCell(a[k], b[k]))
               /\ MergeCell(a[k], b[k]) = MergeCell(b[k], a[k])
               /\ MergeCell(a[k], a[k]) = a[k]
               /\ MergeCell(a[k], MergeCell(b[k], c[k])) = MergeCell(MergeCell(a[k], b[k]), c[k])
    <2>1. /\ a[k] \in Cells /\ b[k] \in Cells /\ c[k] \in Cells
          /\ WellWritten(k, a[k]) /\ WellWritten(k, b[k]) /\ WellWritten(k, c[k])
      BY DEF WellRows, Rows
    <2> QED BY <2>1, NewestLaws
  <1>2. MergeTwo(a, b) \in WellRows
    BY <1>1 DEF MergeTwo, WellRows, Rows
  <1>3. MergeTwo(a, b) = MergeTwo(b, a)
    BY <1>1 DEF MergeTwo
  <1>4. MergeTwo(a, a) = a
    <2>1. a = [k \in Keys |-> a[k]]
      BY DEF WellRows, Rows
    <2>2. [k \in Keys |-> MergeCell(a[k], a[k])] = [k \in Keys |-> a[k]]
      BY <1>1
    <2> QED BY <2>1, <2>2 DEF MergeTwo
  <1>5. MergeTwo(a, MergeTwo(b, c)) = MergeTwo(MergeTwo(a, b), c)
    <2>1. [k \in Keys |-> MergeCell(a[k], MergeTwo(b, c)[k])]
            = [k \in Keys |-> MergeCell(a[k], MergeCell(b[k], c[k]))]
      BY DEF MergeTwo
    <2>2. [k \in Keys |-> MergeCell(MergeTwo(a, b)[k], c[k])]
            = [k \in Keys |-> MergeCell(MergeCell(a[k], b[k]), c[k])]
      BY DEF MergeTwo
    <2>3. [k \in Keys |-> MergeCell(a[k], MergeCell(b[k], c[k]))]
            = [k \in Keys |-> MergeCell(MergeCell(a[k], b[k]), c[k])]
      BY <1>1
    <2> QED BY <2>1, <2>2, <2>3 DEF MergeTwo
  <1> QED BY <1>2, <1>3, <1>4, <1>5

\* What is clocked of two rows is the same when their clocks are, and their values outside
\* the lists that are compared by ids.
SameClocked(a, b) == \A k \in Keys : IF k \in ById THEN a[k].clock = b[k].clock ELSE a[k] = b[k]

\* MCClocked tells no more of a row, and no less.
LEMMA ClockedCells ==
  ASSUME NEW a \in WellRows, NEW b \in WellRows
  PROVE  MCClocked(a) = MCClocked(b) <=> SameClocked(a, b)
  <1> DEFINE c(r, k) == IF k \in ById THEN [clock |-> r[k].clock, val |-> Undefined] ELSE r[k]
  <1>1. ASSUME NEW r \in WellRows PROVE MCClocked(r) = [k \in Keys |-> c(r, k)]
    <2>1. \A k \in Keys : [r[k] EXCEPT !.val = Undefined] = [clock |-> r[k].clock, val |-> Undefined]
      BY DEF WellRows, Rows, Cells
    <2> QED BY <2>1 DEF MCClocked
  <1>2. ASSUME NEW k \in Keys
        PROVE  c(a, k) = c(b, k) <=> (IF k \in ById THEN a[k].clock = b[k].clock ELSE a[k] = b[k])
    <2>1. \A x, y : [clock |-> x, val |-> Undefined] = [clock |-> y, val |-> Undefined] => x = y
      <3> TAKE x, y
      <3> HAVE [clock |-> x, val |-> Undefined] = [clock |-> y, val |-> Undefined]
      <3>1. [clock |-> x, val |-> Undefined].clock = [clock |-> y, val |-> Undefined].clock
        OBVIOUS
      <3> QED BY <3>1
    <2> QED BY <2>1
  <1>3. MCClocked(a) = [k \in Keys |-> c(a, k)] /\ MCClocked(b) = [k \in Keys |-> c(b, k)]
    BY <1>1
  <1> HIDE DEF c
  <1>4. [k \in Keys |-> c(a, k)] = [k \in Keys |-> c(b, k)] <=> \A k \in Keys : c(a, k) = c(b, k)
    <2>1. ASSUME [k \in Keys |-> c(a, k)] = [k \in Keys |-> c(b, k)], NEW k \in Keys
          PROVE  c(a, k) = c(b, k)
      <3>1. [x \in Keys |-> c(a, x)][k] = [x \in Keys |-> c(b, x)][k]
        BY <2>1
      <3> QED BY <3>1
    <2> QED BY <2>1
  <1> QED BY <1>2, <1>3, <1>4 DEF SameClocked

\* The later clock of two cells is the clock of their merge.
LEMMA MergeCellClock ==
  ASSUME NEW a \in Cells, NEW b \in Cells
  PROVE  MergeCell(a, b).clock = IF b.clock > a.clock THEN b.clock ELSE a.clock
  <1>1. a.clock \in Nat /\ b.clock \in Nat
    BY DEF Cells
  <1> QED BY <1>1 DEF MergeCell, BWins

\* What is clocked of a merge depends on what is clocked of the rows.
LEMMA MergeClocked ==
  ASSUME NEW a \in WellRows, NEW b \in WellRows, NEW c \in WellRows,
         MCClocked(a) = MCClocked(b)
  PROVE  MCClocked(MergeTwo(a, c)) = MCClocked(MergeTwo(b, c))
  <1>1. SameClocked(a, b)
    BY ClockedCells
  <1>2. MergeTwo(a, c) \in WellRows /\ MergeTwo(b, c) \in WellRows
    BY MergeTwoLaws
  <1>3. ASSUME NEW k \in Keys
        PROVE  IF k \in ById THEN MergeTwo(a, c)[k].clock = MergeTwo(b, c)[k].clock
                             ELSE MergeTwo(a, c)[k] = MergeTwo(b, c)[k]
    <2>1. a[k] \in Cells /\ b[k] \in Cells /\ c[k] \in Cells
      BY DEF WellRows, Rows
    <2>2. /\ MergeTwo(a, c)[k] = MergeCell(a[k], c[k])
          /\ MergeTwo(b, c)[k] = MergeCell(b[k], c[k])
      BY DEF MergeTwo
    <2> QED BY <1>1, <2>1, <2>2, MergeCellClock DEF SameClocked
  <1>4. SameClocked(MergeTwo(a, c), MergeTwo(b, c))
    BY <1>3 DEF SameClocked
  <1> QED BY <1>2, <1>4, ClockedCells

\* A row that is newer key by key, or of a later clock where elements are edited in place,
\* has the other.
Covers(e, a) == \A k \in Keys : IF k \in ById THEN e[k].clock >= a[k].clock ELSE ~Older(e[k], a[k])

\* Merging what is covered changes nothing of what is clocked.
LEMMA NewerRowHas ==
  ASSUME NEW a \in WellRows, NEW e \in WellRows, Covers(e, a)
  PROVE  MCClocked(MergeTwo(e, a)) = MCClocked(e)
  <1>1. ASSUME NEW k \in Keys
        PROVE  IF k \in ById THEN MergeTwo(e, a)[k].clock = e[k].clock
                             ELSE MergeTwo(e, a)[k] = e[k]
    <2>1. /\ a[k] \in Cells /\ e[k] \in Cells
          /\ WellWritten(k, a[k]) /\ WellWritten(k, e[k])
      BY DEF WellRows, Rows
    <2>2. MergeTwo(e, a)[k] = MergeCell(e[k], a[k])
      BY DEF MergeTwo
    <2>3. CASE k \in ById
      <3>1. e[k].clock \in Nat /\ a[k].clock \in Nat /\ e[k].clock >= a[k].clock
        BY <2>1, <2>3 DEF Covers, Cells
      <3> QED BY <2>1, <2>2, <2>3, <3>1, MergeCellClock
    <2>4. CASE k \notin ById
      <3>1. ~Older(e[k], a[k])
        BY <2>4 DEF Covers
      <3> QED BY <2>1, <2>2, <2>4, <3>1, MergeCellNewest
    <2> QED BY <2>3, <2>4
  <1>2. SameClocked(MergeTwo(e, a), e)
    BY <1>1 DEF SameClocked
  <1>3. MergeTwo(e, a) \in WellRows
    BY MergeTwoLaws
  <1> QED BY <1>2, <1>3, ClockedCells

\* A cell that is not older is of no earlier clock.
LEMMA NotOlderClock ==
  ASSUME NEW a \in Cells, NEW e \in Cells, ~Older(e, a) PROVE e.clock >= a.clock
  BY DEF Older, Cells

\* A delete (tombstone) stamps one cell past the row.
LEMMA TombstoneAdds ==
  ASSUME NEW r \in WellRows, NEW s \in MCNow(r)
  PROVE  Tombstone(r, s) \in WellRows /\ Covers(Tombstone(r, s), r)
  <1> DEFINE t == Tombstone(r, s)
  <1>1. /\ r \in [Keys -> Cells] /\ \A k \in Keys : WellWritten(k, r[k])
        /\ s \in Stamps /\ \A k \in Keys : s > r[k].clock
    BY DEF WellRows, Rows, MCNow
  <1>2. /\ t[Deleted] = [clock |-> s, val |-> s] /\ \A k \in Keys : k # Deleted => t[k] = r[k]
        /\ t = [k \in Keys |-> t[k]]
    BY <1>1, Constants DEF Tombstone
  <1>3. [clock |-> s, val |-> s] \in Cells /\ WellWritten(Deleted, [clock |-> s, val |-> s])
    BY <1>1, Constants DEF Cells, WellWritten
  <1>4. \A k \in Keys : t[k] \in Cells /\ WellWritten(k, t[k])
    <2> HIDE DEF t
    <2> QED BY <1>1, <1>2, <1>3
  <1>5. ASSUME NEW k \in Keys PROVE ~Older(t[k], r[k])
    <2>1. r[k].clock \in Nat /\ r[k].val \in Nat /\ s \in Nat /\ s > r[k].clock
      BY <1>1, Constants DEF Cells
    <2> HIDE DEF t
    <2> QED BY <1>2, <2>1 DEF Older
  <1>6. t \in WellRows
    <2> HIDE DEF t
    <2> QED BY <1>2, <1>4 DEF WellRows, Rows
  <1> HIDE DEF t
  <1>7. Covers(t, r)
    BY <1>1, <1>4, <1>5, NotOlderClock DEF Covers
  <1> QED BY <1>6, <1>7 DEF t

\* So does a command of a field or two (refile_into_folder and the like).
LEMMA StampFieldsAdds ==
  ASSUME NEW r \in WellRows, NEW s \in MCNow(r), NEW F \in SUBSET Fields, NEW g \in [F -> Values]
  PROVE  StampFields(r, g, s) \in WellRows /\ Covers(StampFields(r, g, s), r)
  <1> DEFINE t == StampFields(r, g, s)
  <1>1. /\ r \in [Keys -> Cells] /\ \A k \in Keys : WellWritten(k, r[k])
        /\ s \in Stamps /\ s \in Nat /\ \A k \in Keys : s > r[k].clock
    BY Constants DEF WellRows, Rows, MCNow
  <1>2. t = [k \in Keys |-> t[k]]
    BY DEF StampFields
  <1>3. ASSUME NEW k \in Keys
        PROVE  t[k] \in Cells /\ WellWritten(k, t[k]) /\ ~Older(t[k], r[k])
    <2>1. r[k] \in Cells /\ r[k].clock \in 0..MaxStamp /\ r[k].val \in Nat /\ s > r[k].clock
      BY <1>1 DEF Cells
    <2>2. CASE k \in F
      <3>1. t[k] = [clock |-> s, val |-> g[k]] /\ g[k] \in Nat /\ g[k] > 0 /\ k # Deleted
        BY <2>2, Constants DEF StampFields
      <3> HIDE DEF t
      <3> QED BY <1>1, <2>1, <3>1, Constants DEF Cells, WellWritten, Older
    <2>3. CASE k \notin F
      <3>1. t[k] = r[k]
        BY <2>3 DEF StampFields
      <3> HIDE DEF t
      <3> QED BY <1>1, <2>1, <3>1 DEF Older
    <2> QED BY <2>2, <2>3
  <1> HIDE DEF t
  <1>4. t \in WellRows
    BY <1>2, <1>3 DEF WellRows, Rows
  <1>5. Covers(t, r)
    BY <1>1, <1>3, NotOlderClock DEF Covers
  <1> QED BY <1>4, <1>5 DEF t

\* A saved form (bump_changed_clocks, finish_update) stamps what it changes, but for the
\* elements it edits in place, and clears deleted_at under the delete's own clock: no value
\* of that clock is greater.
LEMMA UpdateAdds ==
  ASSUME NEW r \in WellRows, NEW s \in MCNow(r), NEW data \in [Fields -> Values]
  PROVE  Update(r, data, s) \in WellRows /\ Covers(Update(r, data, s), r)
  <1> DEFINE t == Update(r, data, s)
  <1>1. /\ r \in [Keys -> Cells] /\ \A k \in Keys : WellWritten(k, r[k])
        /\ s \in Stamps /\ s \in Nat /\ \A k \in Keys : s > r[k].clock
    BY Constants DEF WellRows, Rows, MCNow
  <1>2. t = [k \in Keys |-> t[k]]
    BY DEF Update
  <1>3. ASSUME NEW k \in Keys
        PROVE  /\ t[k] \in Cells /\ WellWritten(k, t[k])
               /\ IF k \in ById THEN t[k].clock >= r[k].clock ELSE ~Older(t[k], r[k])
    <2>1. /\ r[k] \in Cells /\ r[k].clock \in 0..MaxStamp /\ r[k].val \in Nat
          /\ s > r[k].clock /\ WellWritten(k, r[k])
      BY <1>1 DEF Cells
    <2>2. CASE k = Deleted
      <3>1. t[k] = [r[k] EXCEPT !.val = Null] /\ k \notin ById
        BY <2>2, Constants DEF Update
      <3>2. t[k] = [clock |-> r[k].clock, val |-> Null]
        BY <2>1, <3>1 DEF Cells
      <3> HIDE DEF t
      <3> QED BY <2>1, <2>2, <3>1, <3>2, Constants DEF Cells, WellWritten, Older
    <2>3. CASE k # Deleted
      <3>1. t[k] = Bump(k, r[k], data[k], s) /\ data[k] \in Nat /\ data[k] > 0
        BY <2>3, Constants DEF Update
      <3>2. CASE Changes(k, r[k].val, data[k])
        <4>1. t[k] = [clock |-> s, val |-> data[k]]
          BY <3>1, <3>2 DEF Bump
        <4> HIDE DEF t
        <4> QED BY <1>1, <2>1, <2>3, <3>1, <4>1, Constants DEF Cells, WellWritten, Older
      <3>3. CASE ~Changes(k, r[k].val, data[k])
        <4>1. t[k] = [clock |-> r[k].clock, val |-> data[k]]
          BY <3>1, <3>3 DEF Bump
        <4>2. k \notin ById => t[k].val = r[k].val
          BY <3>3, <4>1 DEF Changes
        <4>3. r[k].clock # 0
          BY <2>1, <2>3 DEF WellWritten
        <4> HIDE DEF t
        <4> QED BY <1>1, <2>1, <2>3, <3>1, <4>1, <4>2, <4>3, Constants DEF Cells, WellWritten, Older
      <3> QED BY <3>2, <3>3
    <2> QED BY <2>2, <2>3
  <1> HIDE DEF t
  <1>4. t \in WellRows
    BY <1>2, <1>3 DEF WellRows, Rows
  <1>5. Covers(t, r)
    BY <1>3 DEF Covers
  <1> QED BY <1>4, <1>5 DEF t

\* Entities obey the laws.
LEMMA EntitiesAreLattice == IsEntity => Lattice /\ Exact
  <1> SUFFICES ASSUME IsEntity PROVE Lattice /\ Exact
    OBVIOUS
  <1>1. First \in WellRows
    <2>1. [clock |-> 1, val |-> 2] \in Cells /\ [clock |-> 0, val |-> Null] \in Cells
      BY Constants DEF Cells
    <2>2. /\ \A k \in Fields : WellWritten(k, [clock |-> 1, val |-> 2])
          /\ WellWritten(Deleted, [clock |-> 0, val |-> Null])
      BY Constants DEF WellWritten
    <2>3. First = [k \in Keys |-> IF k = Deleted THEN [clock |-> 0, val |-> Null]
                                                ELSE [clock |-> 1, val |-> 2]]
      BY Constants DEF IsEntity, MCFirst, NewRow
    <2> QED BY <2>1, <2>2, <2>3, Constants DEF WellRows, Rows
  <1>2. ASSUME NEW r \in WellRows, NEW e \in Edits(r)
        PROVE  e \in WellRows /\ MCClocked(MergeTwo(e, r)) = MCClocked(e)
    <2>1. e \in MCEdits(r)
      BY <1>2 DEF IsEntity
    <2>2. PICK s \in MCNow(r) :
            \/ e = Tombstone(r, s)
            \/ \E data \in [Fields -> Values] : e = Update(r, data, s)
            \/ \E F \in SUBSET (Fields \ ById) : \E g \in [F -> Values] : e = StampFields(r, g, s)
      BY <2>1 DEF MCEdits
    <2>3. e \in WellRows /\ Covers(e, r)
      BY <2>2, TombstoneAdds, UpdateAdds, StampFieldsAdds
    <2> QED BY <2>3, NewerRowHas
  <1>3. \A a, b : Merge(a, b) = MergeTwo(a, b) /\ Clocked(a) = MCClocked(a)
    BY DEF IsEntity, MCMerge
  <1>4. Laws(WellRows)
    <2>1. \A r \in WellRows : \A e \in Edits(r) : e \in WellRows /\ Has(e, r)
      BY <1>2, <1>3 DEF Has
    <2>2. \A a, b, c \in WellRows :
            Clocked(a) = Clocked(b) => Clocked(Merge(a, c)) = Clocked(Merge(b, c))
      BY <1>3, MergeClocked
    <2> QED BY <1>1, <1>3, <2>1, <2>2, MergeTwoLaws DEF Laws
  <1>5. Exact
    BY DEF IsEntity, MCDiffers, EntityDiffers, Exact
  <1> QED BY <1>4, <1>5 DEF Lattice

\* Devices that sync an entity: what is settled has been merged, restarts, lost answers,
\* failed downloads and commands during the merge included.
THEOREM EntitySettled == IsEntity /\ Spec => []SettledMeansMerged
  <1>1. IsEntity => Lattice /\ Exact
    BY EntitiesAreLattice
  <1> QED BY <1>1, SettledAgree, PTL

\* Devices at rest that have settled everybody's blob hold one entity, but for elements
\* edited in place.
THEOREM EntityAgree == IsEntity /\ Spec => []SettledDevicesAgree
  <1>1. IsEntity => Lattice /\ Exact
    BY EntitiesAreLattice
  <1> QED BY <1>1, SettledAgree, PTL

\* Outside the window no stamped write to an entity is taken back.
THEOREM EntityKeepsWrites == IsEntity /\ ~EditsInWindow /\ Spec => WritesAreKept
  <1>1. IsEntity => Lattice
    BY EntitiesAreLattice
  <1> QED BY <1>1, KeepsWrites

(***************************************************************************)
(* Secrets                                                                 *)
(***************************************************************************)

\* The constants of the runs over secrets (MCSecretSync).
SecretEdits(r) == UNION {{DeleteSecret(s)} \union {SetSecret(v, s) : v \in Values} :
                         s \in {t \in Stamps : t > r.clock}}
IsSecret == /\ \A a, b : Merge(a, b) = MergeSecret(a, b)
            /\ \A r : Edits(r) = SecretEdits(r) /\ Clocked(r) = r
            /\ First = SetSecret(1, 1)

\* mergeSecrets takes the newer of any two secrets, tombstones included.
LEMMA SecretsAreLattice == IsSecret => Lattice
  <1> SUFFICES ASSUME IsSecret PROVE Lattice
    OBVIOUS
  <1>1. \A a \in Cells : a.clock \in Nat /\ a.val \in Nat
    BY Constants DEF Cells
  <1>2. \A a, b \in Cells : Merge(a, b) = IF Older(a, b) THEN b ELSE a
    BY <1>1 DEF IsSecret, MergeSecret, Older
  <1>3. First \in Cells
    BY Constants DEF IsSecret, SetSecret, Cells
  <1>4. ASSUME NEW r \in Cells, NEW e \in Edits(r)
        PROVE  e \in Cells /\ Has(e, r)
    <2>1. PICK s \in Stamps : s > r.clock /\ (e = DeleteSecret(s) \/ \E v \in Values : e = SetSecret(v, s))
      BY <1>4 DEF IsSecret, SecretEdits
    <2>2. PICK v \in Nat : e = [clock |-> s, val |-> v]
      BY <2>1, Constants DEF DeleteSecret, SetSecret
    <2>3. e \in Cells /\ ~Older(e, r)
      BY <1>1, <2>1, <2>2, Constants DEF Cells, Older
    <2> QED BY <1>2, <2>3 DEF IsSecret, Has
  <1>5. ASSUME NEW a \in Cells, NEW b \in Cells
        PROVE  Merge(a, b) \in Cells /\ Merge(a, b) = Merge(b, a) /\ Merge(a, a) = a
    BY <1>1, <1>2, CellsByParts DEF Older
  <1>6. ASSUME NEW a \in Cells, NEW b \in Cells, NEW c \in Cells
        PROVE  Merge(a, Merge(b, c)) = Merge(Merge(a, b), c)
    <2>1. /\ a.clock \in Nat /\ b.clock \in Nat /\ c.clock \in Nat
          /\ a.val \in Nat /\ b.val \in Nat /\ c.val \in Nat
      BY <1>1
    <2>2. /\ Merge(a, Merge(b, c)) = IF Older(a, Merge(b, c)) THEN Merge(b, c) ELSE a
          /\ Merge(Merge(a, b), c) = IF Older(Merge(a, b), c) THEN c ELSE Merge(a, b)
          /\ Merge(a, b) = IF Older(a, b) THEN b ELSE a
          /\ Merge(b, c) = IF Older(b, c) THEN c ELSE b
      BY <1>2, <1>5
    <2> QED BY <2>1, <2>2 DEF Older
  <1>7. Laws(Cells)
    BY <1>3, <1>4, <1>5, <1>6 DEF Laws, IsSecret
  <1> QED BY <1>7 DEF Lattice

\* No write of a secret is taken back either; but their comparison is not exact (it leaves
\* the clocks out), so the agreement of settled devices does not follow, and fails.
THEOREM SecretKeepsWrites == IsSecret /\ ~EditsInWindow /\ Spec => WritesAreKept
  <1>1. IsSecret => Lattice
    BY SecretsAreLattice
  <1> QED BY <1>1, KeepsWrites
=============================================================================
