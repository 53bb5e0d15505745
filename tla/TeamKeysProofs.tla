----------------------------- MODULE TeamKeysProofs -----------------------------
(***************************************************************************)
(* For any members, rows and number of epochs: the variables of TeamKeys   *)
(* keep to their types, a client that was told of its removal holds no key *)
(* of the team (teamVaultSync.ts), and what the server keeps under an      *)
(* epoch is under that epoch's key (teamKeyRotation.ts), provided no key   *)
(* changes under an init.                                                  *)
(***************************************************************************)
EXTENDS TeamKeys, TLAPS

FetchType == [at: {"none", "asked", "answered"}, got: Pair, valid: BOOLEAN]
JobType   == [op: {"none", "save", "grant", "init"}, at: {"none", "key", "go", "answer"},
              slot: Slots \cup {0}, pair: Pair, on: SUBSET (Members \cup Rows), again: BOOLEAN]
PassType  == [at: {"idle", "rotate", "post", "drain", "key", "list", "objects", "encode",
                   "secrets", "put"},
              slot: Slots \cup {0}, pair: Pair, members: SUBSET Members,
              listed: [Rows -> Pair], put: Pair, items: SUBSET Rows]

ServerTyped ==
  /\ epoch \in 1..MaxEpoch /\ team \subseteq Members /\ stale \in BOOLEAN
  /\ wraps \in [1..MaxEpoch -> [Members -> Keys]] /\ rows \in [Rows -> Pair]
KeysTyped ==
  /\ cache \in [Members -> Pair] /\ inflight \in [Members -> Slots \cup {0}]
  /\ fetches \in [Members -> [Slots -> FetchType]] /\ held \in [Members -> [1..MaxEpoch -> Keys]]
JobTyped  == job \in [Members -> JobType]
PassTyped == pass \in [Members -> PassType]
ToldTyped == out \in [Members -> BOOLEAN] /\ late \subseteq Members
Typed     == ServerTyped /\ KeysTyped /\ JobTyped /\ PassTyped /\ ToldTyped

\* A task that waits for a key waits for a fetch on its way.
WaitsOK(m) ==
  /\ job[m].at = "key" <=> job[m].slot # 0
  /\ pass[m].at \in {"key", "encode"} <=> pass[m].slot # 0
  /\ \A i \in {job[m].slot, pass[m].slot, inflight[m]} \ {0} : fetches[m][i].at # "none"
Waits == \A m \in Members : WaitsOK(m)

(***************************************************************************)
(* Types                                                                   *)
(***************************************************************************)

LEMMA Constants ==
  /\ None \in Pair /\ NoFetch \in FetchType /\ Asked \in FetchType
  /\ NoJob \in JobType /\ NoPass \in PassType
  /\ 1 \in 1..MaxEpoch /\ 1 \in Keys /\ 0 \in Keys /\ Owner \in Members
  BY TeamAssumption DEF None, Pair, Keys, NoFetch, FetchType, Asked, NoJob, JobType, NoPass, PassType, Slots

LEMMA InitTyped == Init => Typed /\ Waits
  <1> SUFFICES ASSUME Init PROVE Typed /\ Waits
    OBVIOUS
  <1>1. ServerTyped
    BY Constants, TeamAssumption DEF Init, ServerTyped, Pair, Keys
  <1>2. KeysTyped /\ JobTyped /\ PassTyped /\ ToldTyped
    BY Constants DEF Init, KeysTyped, JobTyped, PassTyped, ToldTyped
  <1>3. Waits
    BY DEF Init, Waits, WaitsOK, NoJob, NoPass
  <1> QED BY <1>1, <1>2, <1>3 DEF Typed

LEMMA ToldKept == ASSUME ToldTyped, UNCHANGED told PROVE ToldTyped'
  BY DEF ToldTyped, told

\* What is held for older epochs stays a key.
LEMMA HoldsTyped ==
  ASSUME Typed, NEW m \in Members, NEW V, Holds(m, V)
  PROVE  held' \in [Members -> [1..MaxEpoch -> Keys]]
  <1>1. \A v \in 1..MaxEpoch : KeyAt(m, v) \in Keys
    BY Constants DEF Typed, ServerTyped, KeysTyped, KeyAt
  <1>2. [v \in 1..MaxEpoch |-> IF v \in V THEN KeyAt(m, v) ELSE held[m][v]]
          \in [1..MaxEpoch -> Keys]
    BY <1>1 DEF Typed, KeysTyped
  <1> QED BY <1>2 DEF Typed, KeysTyped, Holds

LEMMA LabelledTyped == ASSUME NEW p \in Pair PROVE Labelled(p) \in Pair
  BY Constants DEF Labelled, Pair

LEMMA OutdatedTyped ==
  ASSUME KeysTyped, NEW m \in Members
  PROVE  /\ Outdated(m) \in [Slots -> FetchType]
         /\ \A i \in Slots : /\ Outdated(m)[i].at = fetches[m][i].at
                             /\ ~Outdated(m)[i].valid
                             /\ Outdated(m)[i].got = fetches[m][i].got
  <1>1. \A i \in Slots : fetches[m][i] \in FetchType
    BY DEF KeysTyped
  <1>2. \A i \in Slots : Outdated(m)[i] = [fetches[m][i] EXCEPT !.valid = FALSE]
    BY DEF Outdated
  <1>3. \A f \in FetchType : LET g == [f EXCEPT !.valid = FALSE] IN
          g \in FetchType /\ g.at = f.at /\ ~g.valid /\ g.got = f.got
    BY DEF FetchType
  <1>4. \A i \in Slots : /\ Outdated(m)[i] \in FetchType
                         /\ Outdated(m)[i].at = fetches[m][i].at
                         /\ ~Outdated(m)[i].valid
                         /\ Outdated(m)[i].got = fetches[m][i].got
    BY <1>1, <1>2, <1>3
  <1> QED BY <1>4 DEF Outdated

\* Joining a fetch, evicting a key and both.
LEMMA AsksTyped ==
  ASSUME KeysTyped, NEW m \in Members, NEW i \in Fetch(m), Asks(m, i)
  PROVE  /\ i \in Slots /\ KeysTyped'
         /\ inflight'[m] = i
         /\ \A n \in Members \ {m} : inflight'[n] = inflight[n] /\ fetches'[n] = fetches[n]
         /\ \A j \in Slots \ {i} : fetches'[m][j] = fetches[m][j]
         /\ inflight[m] = i \/ fetches'[m][i] = Asked
         /\ inflight[m] = i => fetches' = fetches
  <1>1. i \in Slots /\ m \in Members
    BY DEF Fetch, Free, KeysTyped, Slots
  <1>2. CASE inflight[m] = i
    BY <1>1, <1>2 DEF Asks, KeysTyped
  <1>3. CASE inflight[m] # i
    BY <1>1, <1>3, Constants DEF Asks, KeysTyped
  <1> QED BY <1>2, <1>3

LEMMA EvictTyped ==
  ASSUME KeysTyped, NEW m \in Members, Evict(m)
  PROVE  /\ KeysTyped' /\ inflight'[m] = 0 /\ cache'[m] = None
         /\ fetches'[m] = Outdated(m)
         /\ \A n \in Members \ {m} : /\ cache'[n] = cache[n] /\ inflight'[n] = inflight[n]
                                     /\ fetches'[n] = fetches[n]
  BY OutdatedTyped, Constants DEF Evict, KeysTyped

LEMMA EvictAndAskTyped ==
  ASSUME KeysTyped, NEW m \in Members, NEW i \in Slots, EvictAndAsk(m, i)
  PROVE  /\ KeysTyped' /\ inflight'[m] = i /\ cache'[m] = None
         /\ fetches'[m][i] = Asked
         /\ \A j \in Slots \ {i} : fetches'[m][j] = Outdated(m)[j]
         /\ \A n \in Members \ {m} : /\ cache'[n] = cache[n] /\ inflight'[n] = inflight[n]
                                     /\ fetches'[n] = fetches[n]
  BY OutdatedTyped, Constants DEF EvictAndAsk, KeysTyped

LEMMA WrappedTyped ==
  ASSUME ServerTyped, NEW m \in Members
  PROVE  Wrapped(m) \in Pair
  BY Constants DEF Wrapped, ServerTyped, Pair, Keys

LEMMA WrapTyped ==
  ASSUME ServerTyped, JobTyped, NEW m \in Members, Wrap(m)
  PROVE  wraps' \in [1..MaxEpoch -> [Members -> Keys]]
  <1>1. job[m].pair.key \in Keys
    BY DEF JobTyped, JobType, Pair
  <1>2. [x \in Members |-> IF x \in job[m].on \cap team THEN job[m].pair.key ELSE wraps[epoch][x]]
          \in [Members -> Keys]
    BY <1>1 DEF ServerTyped
  <1> QED BY <1>2 DEF Wrap, ServerTyped

LEMMA BeginsTyped ==
  ASSUME Typed, Waits, NEW m \in Members, NEW op \in {"save", "grant", "init"},
         NEW on \in SUBSET (Members \cup Rows), Begins(m, op, on)
  PROVE  Typed' /\ Waits'
  <1> USE DEF Typed
  <1>1. job[m] = NoJob /\ UNCHANGED <<server, pass, told>>
    BY DEF Begins
  <1>2. ServerTyped' /\ PassTyped' /\ ToldTyped'
    BY <1>1, ToldKept DEF ServerTyped, PassTyped, server
  <1>3. CASE cache[m].key # 0
    <2>1. /\ job' = [job EXCEPT ![m] = [NoJob EXCEPT !.op = op, !.at = "go",
                                                     !.pair = cache[m], !.on = on]]
          /\ UNCHANGED keys
      BY <1>3 DEF Begins
    <2>2. KeysTyped'
      BY <2>1 DEF KeysTyped, keys
    <2>3. JobTyped'
      BY <2>1, Constants DEF JobTyped, JobType, KeysTyped, NoJob
    <2>4. Waits'
      BY <1>1, <2>1 DEF Waits, WaitsOK, keys, NoJob, JobTyped
    <2> QED BY <1>2, <2>2, <2>3, <2>4
  <1>4. CASE cache[m].key = 0
    <2>1. PICK i \in Fetch(m) :
            /\ Asks(m, i)
            /\ job' = [job EXCEPT ![m] = [NoJob EXCEPT !.op = op, !.at = "key",
                                                       !.slot = i, !.on = on]]
      BY <1>4 DEF Begins
    <2>2. i \in Slots /\ KeysTyped'
      BY <2>1, AsksTyped
    <2>3. JobTyped'
      BY <2>1, <2>2, Constants DEF JobTyped, JobType, NoJob
    <2>4. ASSUME NEW n \in Members PROVE WaitsOK(n)'
      <3>1. CASE n = m
        <4>1. \A j \in Slots : fetches[m][j].at # "none" => fetches'[m][j].at # "none"
          BY <2>1, AsksTyped DEF Asked
        <4>2. fetches'[m][i].at # "none" /\ inflight'[m] = i
          BY <2>1, <2>2, AsksTyped DEF Asked, Waits, WaitsOK, Slots
        <4>3. job'[m].at = "key" /\ job'[m].slot = i
          BY <2>1 DEF JobTyped, NoJob
        <4>4. pass[m].slot \in Slots \cup {0}
          BY DEF PassTyped, PassType
        <4> QED BY <1>1, <2>2, <3>1, <4>1, <4>2, <4>3, <4>4 DEF Waits, WaitsOK, Slots
      <3>2. CASE n # m
        BY <1>1, <2>1, <3>2, AsksTyped DEF Waits, WaitsOK, JobTyped
      <3> QED BY <3>1, <3>2
    <2> QED BY <1>2, <2>2, <2>3, <2>4 DEF Waits
  <1> QED BY <1>3, <1>4

\* A step that leaves the fetches alone and ends or changes what one client is doing.
LEMMA QuietStep ==
  ASSUME Typed, Waits, NEW m \in Members, ServerTyped', KeysTyped', JobTyped', PassTyped',
         ToldTyped',
         UNCHANGED <<fetches, inflight>>,
         \A n \in Members \ {m} : job'[n] = job[n] /\ pass'[n] = pass[n],
         job'[m] = job[m] \/ (job'[m].at # "key" /\ job'[m].slot = 0),
         pass'[m] = pass[m] \/ (pass'[m].at \notin {"key", "encode"} /\ pass'[m].slot = 0)
  PROVE  Typed' /\ Waits'
  <1>1. ASSUME NEW n \in Members \ {m} PROVE WaitsOK(n)'
    BY <1>1 DEF Waits, WaitsOK
  <1>2. WaitsOK(m)'
    BY DEF Waits, WaitsOK
  <1> QED BY <1>1, <1>2 DEF Waits, Typed

LEMMA AnsweredTyped ==
  ASSUME Typed, Waits, NEW m \in Members, NEW i \in Slots, FetchAnswered(m, i)
  PROVE  Typed' /\ Waits'
  <1> USE DEF Typed
  <1>1. UNCHANGED <<server, cache, inflight, held, job, pass, told, left>>
    BY DEF FetchAnswered
  <1>2. fetches[m][i] \in FetchType /\ Wrapped(m) \in Pair
    BY WrappedTyped DEF KeysTyped
  <1>3. [fetches[m][i] EXCEPT !.at = "answered", !.got = Wrapped(m)] \in FetchType
    BY <1>2 DEF FetchType
  <1>4. fetches' = [fetches EXCEPT ![m][i] =
                      [fetches[m][i] EXCEPT !.at = "answered", !.got = Wrapped(m)]]
    BY <1>2 DEF FetchAnswered, KeysTyped, FetchType
  <1>5. KeysTyped'
    BY <1>1, <1>3, <1>4 DEF KeysTyped
  <1>6. \A n \in Members, j \in Slots : fetches[n][j].at # "none" => fetches'[n][j].at # "none"
    BY <1>2, <1>4 DEF KeysTyped, FetchType
  <1>7. \A n \in Members : {job[n].slot, pass[n].slot, inflight[n]} \ {0} \subseteq Slots
    BY DEF KeysTyped, JobTyped, JobType, PassTyped, PassType
  <1>8. Waits'
    BY <1>1, <1>6, <1>7 DEF Waits, WaitsOK
  <1> QED BY <1>1, <1>5, <1>8, ToldKept DEF ServerTyped, JobTyped, PassTyped, server

LEMMA LandsTyped ==
  ASSUME Typed, Waits, NEW m \in Members, NEW i \in Slots, FetchLands(m, i)
  PROVE  Typed' /\ Waits'
  <1> USE DEF Typed
  <1> DEFINE kept == fetches[m][i].valid /\ fetches[m][i].got # None
  <1>1. /\ fetches[m][i].got \in Pair /\ kept \in BOOLEAN
        /\ UNCHANGED <<server, held, told, left>>
        /\ cache' = IF kept THEN [cache EXCEPT ![m] = fetches[m][i].got] ELSE cache
        /\ fetches' = [fetches EXCEPT ![m][i] = NoFetch]
        /\ inflight' = [inflight EXCEPT ![m] = 0]
        /\ job' = JobGoes(m, i, kept)
        /\ pass' = PassGoes(m, i, kept)
    BY DEF FetchLands, KeysTyped, FetchType
  <1> HIDE DEF kept
  <1>2. KeysTyped'
    BY <1>1, Constants DEF KeysTyped
  <1>3. /\ JobTyped'
        /\ \/ job' = job /\ job[m].slot # i
           \/ job'[m].at # "key" /\ job'[m].slot = 0
    <2>1. job[m] \in JobType
      BY DEF JobTyped
    <2> DEFINE j == [job[m] EXCEPT !.at = "go", !.slot = 0, !.pair = fetches[m][i].got]
    <2>3. j \in JobType /\ j.at # "key" /\ j.slot = 0
      BY <1>1, <2>1 DEF JobType
    <2>4. CASE job[m].slot # i
      BY <1>1, <2>4 DEF JobGoes, JobTyped
    <2>5. CASE job[m].slot = i /\ kept
      <3>1. job' = [job EXCEPT ![m] = j]
        BY <1>1, <2>1, <2>5 DEF JobGoes, JobTyped, JobType
      <3> HIDE DEF j
      <3> QED BY <2>3, <3>1 DEF JobTyped
    <2>6. CASE job[m].slot = i /\ ~kept
      BY <1>1, <2>6, Constants DEF JobGoes, JobTyped, NoJob
    <2> QED BY <1>1, <2>4, <2>5, <2>6
  <1>4. /\ PassTyped'
        /\ \/ pass' = pass /\ pass[m].slot # i
           \/ pass'[m].at \notin {"key", "encode"} /\ pass'[m].slot = 0
    <2>1. pass[m] \in PassType
      BY DEF PassTyped
    <2> DEFINE o == [pass[m] EXCEPT !.at = IF kept THEN "objects" ELSE "secrets", !.slot = 0]
               l == [pass[m] EXCEPT !.at = "list", !.slot = 0, !.pair = fetches[m][i].got]
    <2>2. o \in PassType /\ o.at \notin {"key", "encode"} /\ o.slot = 0
      BY <1>1, <2>1 DEF PassType
    <2>3. l \in PassType /\ l.at \notin {"key", "encode"} /\ l.slot = 0
      BY <1>1, <2>1 DEF PassType
    <2>4. CASE pass[m].slot # i
      BY <1>1, <2>1, <2>4 DEF PassGoes, PassTyped
    <2>5. CASE pass[m].slot = i /\ pass[m].at = "encode"
      <3>1. pass' = [pass EXCEPT ![m] = o]
        BY <1>1, <2>1, <2>5 DEF PassGoes, PassTyped, PassType
      <3> HIDE DEF o
      <3> QED BY <2>1, <2>2, <3>1 DEF PassTyped
    <2>6. CASE pass[m].slot = i /\ pass[m].at # "encode" /\ kept
      <3>1. pass' = [pass EXCEPT ![m] = l]
        BY <1>1, <2>1, <2>6 DEF PassGoes, PassTyped, PassType
      <3> HIDE DEF l
      <3> QED BY <2>1, <2>3, <3>1 DEF PassTyped
    <2>7. CASE pass[m].slot = i /\ pass[m].at # "encode" /\ ~kept
      BY <1>1, <2>1, <2>7, Constants DEF PassGoes, PassTyped, NoPass
    <2> QED BY <1>1, <2>4, <2>5, <2>6, <2>7
  <1>5. ASSUME NEW n \in Members \ {m} PROVE WaitsOK(n)'
    <2>1. job'[n] = job[n] /\ pass'[n] = pass[n]
      BY <1>1, <1>5 DEF JobGoes, PassGoes, JobTyped, PassTyped
    <2>2. fetches'[n] = fetches[n] /\ inflight'[n] = inflight[n]
      BY <1>1, <1>5 DEF KeysTyped
    <2> QED BY <1>5, <2>1, <2>2 DEF Waits, WaitsOK
  <1>6. WaitsOK(m)'
    <2>3. inflight'[m] = 0 /\ \A j \in Slots \ {i} : fetches'[m][j] = fetches[m][j]
      BY <1>1 DEF KeysTyped
    <2>4. {job[m].slot, pass[m].slot} \subseteq Slots \cup {0}
      BY DEF JobTyped, JobType, PassTyped, PassType
    <2> QED BY <1>3, <1>4, <2>3, <2>4 DEF Waits, WaitsOK
  <1> QED BY <1>1, <1>2, <1>3, <1>4, <1>5, <1>6, ToldKept DEF Waits, ServerTyped, server

LEMMA OffboardTyped ==
  ASSUME Typed, Waits, NEW m \in Members, Offboard(m)
  PROVE  Typed' /\ Waits'
  <1> USE DEF Typed
  <1>1. Evict(m) /\ out' = [out EXCEPT ![m] = TRUE] /\ UNCHANGED <<server, job, pass, late, left>>
    BY DEF Offboard
  <1>2. ServerTyped' /\ JobTyped' /\ PassTyped' /\ KeysTyped' /\ ToldTyped'
    BY <1>1, EvictTyped DEF ServerTyped, JobTyped, PassTyped, ToldTyped, server
  <1>3. {job[m].slot, pass[m].slot} \subseteq Slots \cup {0}
    BY DEF JobTyped, JobType, PassTyped, PassType
  <1>4. WaitsOK(m)'
    BY <1>1, <1>3, EvictTyped, OutdatedTyped DEF Waits, WaitsOK
  <1>5. ASSUME NEW n \in Members \ {m} PROVE WaitsOK(n)'
    BY <1>1, <1>5, EvictTyped DEF Waits, WaitsOK
  <1> QED BY <1>2, <1>4, <1>5 DEF Waits

LEMMA GrantLandsTyped ==
  ASSUME Typed, Waits, NEW m \in Members, GrantLands(m)
  PROVE  Typed' /\ Waits'
  <1> USE DEF Typed
  <1>1. AtGo(m, "grant") /\ UNCHANGED <<pass, told, left>>
    BY DEF GrantLands
  <1>2. job[m].slot = 0 /\ job[m] \in JobType /\ ToldTyped'
    BY <1>1, ToldKept DEF AtGo, Waits, WaitsOK, JobTyped
  <1>3. CASE UNCHANGED <<epoch, team, stale, rows, keys>> /\ Wrap(m) /\ JobEnds(m)
    <2>1. ServerTyped'
      BY <1>3, WrapTyped DEF ServerTyped
    <2>2. KeysTyped' /\ JobTyped' /\ PassTyped'
      BY <1>1, <1>3, Constants DEF KeysTyped, JobTyped, PassTyped, keys, JobEnds
    <2> QED BY <1>1, <1>2, <1>3, <2>1, <2>2, QuietStep DEF JobEnds, JobTyped, NoJob, keys
  <1>4. CASE UNCHANGED <<server, keys>> /\ JobEnds(m)
    <2>1. ServerTyped' /\ KeysTyped' /\ JobTyped' /\ PassTyped'
      BY <1>1, <1>4, Constants DEF ServerTyped, KeysTyped, JobTyped, PassTyped, keys, server, JobEnds
    <2> QED BY <1>1, <1>2, <1>4, <2>1, QuietStep DEF JobEnds, JobTyped, NoJob, keys
  <1>5. ASSUME NEW i \in Slots, EvictAndAsk(m, i), UNCHANGED server,
               job' = [job EXCEPT ![m].at = "key", ![m].slot = i, ![m].again = TRUE]
        PROVE  Typed' /\ Waits'
    <2>1. ServerTyped' /\ PassTyped' /\ KeysTyped'
      BY <1>1, <1>5, EvictAndAskTyped DEF ServerTyped, PassTyped, server
    <2>2. JobTyped' /\ job'[m].at = "key" /\ job'[m].slot = i
      BY <1>2, <1>5 DEF JobTyped, JobType
    <2>3. pass[m].slot \in Slots \cup {0}
      BY DEF PassTyped, PassType
    <2>4. \A j \in Slots : fetches[m][j].at # "none" => fetches'[m][j].at # "none"
      BY <1>5, EvictAndAskTyped, OutdatedTyped DEF Asked
    <2>5. fetches'[m][i].at # "none" /\ inflight'[m] = i /\ i # 0
      BY <1>5, EvictAndAskTyped DEF Asked, Slots
    <2>6. WaitsOK(m)'
      BY <1>1, <2>2, <2>3, <2>4, <2>5 DEF Waits, WaitsOK
    <2>7. ASSUME NEW n \in Members \ {m} PROVE WaitsOK(n)'
      BY <1>1, <1>5, <2>7, EvictAndAskTyped DEF Waits, WaitsOK, JobTyped
    <2> QED BY <1>2, <2>1, <2>2, <2>6, <2>7 DEF Waits
  <1> QED BY <1>3, <1>4, <1>5 DEF GrantLands

\* What one client is doing changes, and it waits for no key.
LEMMA QuietJob ==
  ASSUME Typed, Waits, NEW m \in Members, NEW j \in JobType, j.at # "key", j.slot = 0,
         job' = [job EXCEPT ![m] = j], ServerTyped', KeysTyped', ToldTyped',
         UNCHANGED <<fetches, inflight, pass>>
  PROVE  Typed' /\ Waits'
  <1>1. JobTyped' /\ PassTyped'
    BY DEF Typed, JobTyped, PassTyped
  <1>2. job'[m] = j /\ \A n \in Members \ {m} : job'[n] = job[n]
    BY DEF Typed, JobTyped
  <1> QED BY <1>1, <1>2, QuietStep

LEMMA QuietPass ==
  ASSUME Typed, Waits, NEW m \in Members, NEW p \in PassType,
         p.at \notin {"key", "encode"}, p.slot = 0,
         pass' = [pass EXCEPT ![m] = p], ServerTyped',
         held' = held \/ (\E V : Holds(m, V)),
         UNCHANGED <<cache, fetches, inflight, job, told>>
  PROVE  Typed' /\ Waits'
  <1>1. KeysTyped' /\ JobTyped' /\ PassTyped' /\ ToldTyped'
    BY HoldsTyped, ToldKept DEF Typed, KeysTyped, JobTyped, PassTyped
  <1>2. pass'[m] = p /\ \A n \in Members \ {m} : pass'[n] = pass[n]
    BY DEF Typed, PassTyped
  <1> QED BY <1>1, <1>2, QuietStep

\* The pass of one client comes to wait for a key.
LEMMA PassAsks ==
  ASSUME Typed, Waits, NEW m \in Members, NEW i \in Slots, NEW p \in PassType,
         p.at \in {"key", "encode"}, p.slot = i, pass' = [pass EXCEPT ![m] = p],
         (Asks(m, i) /\ i \in Fetch(m)) \/ EvictAndAsk(m, i),
         UNCHANGED <<server, job, told>>
  PROVE  Typed' /\ Waits'
  <1> USE DEF Typed
  <1>1. /\ KeysTyped' /\ inflight'[m] = i /\ fetches'[m][i].at # "none"
        /\ \A j \in Slots : fetches[m][j].at # "none" => fetches'[m][j].at # "none"
        /\ \A n \in Members \ {m} : inflight'[n] = inflight[n] /\ fetches'[n] = fetches[n]
    <2>1. CASE Asks(m, i) /\ i \in Fetch(m)
      BY <2>1, AsksTyped DEF Asked, Waits, WaitsOK, Slots
    <2>2. CASE EvictAndAsk(m, i)
      BY <2>2, EvictAndAskTyped, OutdatedTyped DEF Asked
    <2> QED BY <2>1, <2>2
  <1>2. pass'[m] = p /\ \A n \in Members \ {m} : pass'[n] = pass[n]
    BY DEF PassTyped
  <1>3. ServerTyped' /\ JobTyped' /\ PassTyped' /\ ToldTyped'
    BY ToldKept DEF ServerTyped, JobTyped, PassTyped, server
  <1>4. job[m].slot \in Slots \cup {0}
    BY DEF JobTyped, JobType
  <1>5. WaitsOK(m)'
    BY <1>1, <1>2, <1>4 DEF Waits, WaitsOK, Slots
  <1>6. ASSUME NEW n \in Members \ {m} PROVE WaitsOK(n)'
    BY <1>1, <1>2, <1>6 DEF Waits, WaitsOK
  <1> QED BY <1>1, <1>3, <1>5, <1>6 DEF Waits

LEMMA JobStepTyped ==
  ASSUME Typed, Waits, NEW m \in Members, JobStep(m)
  PROVE  Typed' /\ Waits'
  <1> USE DEF Typed
  <1>1. job[m] \in JobType /\ cache[m] \in Pair
    BY DEF JobTyped, KeysTyped
  <1>2. NoJob.at # "key" /\ NoJob.slot = 0 /\ NoJob \in JobType
    BY Constants DEF NoJob
  <1>3. CASE SaveLands(m)
    <2>1. ServerTyped'
      BY <1>1, <1>3, LabelledTyped DEF SaveLands, ServerTyped, JobType
    <2>2. KeysTyped' /\ ToldTyped'
      BY <1>3, ToldKept DEF SaveLands, keys, KeysTyped
    <2> QED BY <1>2, <1>3, <2>1, <2>2, QuietJob DEF SaveLands, JobEnds, keys
  <1>4. CASE GrantLands(m)
    BY <1>4, GrantLandsTyped
  <1>5. CASE InitLands(m)
    <2>1. KeysTyped' /\ ToldTyped' /\ UNCHANGED <<fetches, inflight, pass>>
      BY <1>5, ToldKept DEF InitLands, keys, KeysTyped
    <2>2. CASE Wrap(m) /\ job' = [job EXCEPT ![m].at = "answer"]
               /\ UNCHANGED <<epoch, team, stale, rows>>
      <3> DEFINE j == [job[m] EXCEPT !.at = "answer"]
      <3>1. job[m].slot = 0
        BY <1>5 DEF InitLands, AtGo, Waits, WaitsOK
      <3>2. j \in JobType /\ j.at # "key" /\ j.slot = 0
        BY <1>1, <3>1 DEF JobType
      <3>3. job' = [job EXCEPT ![m] = j]
        BY <1>1, <2>2 DEF JobTyped, JobType
      <3>4. ServerTyped'
        BY <2>2, WrapTyped DEF ServerTyped
      <3> HIDE DEF j
      <3> QED BY <2>1, <3>2, <3>3, <3>4, QuietJob
    <2>3. CASE JobEnds(m) /\ UNCHANGED server
      BY <1>2, <2>1, <2>3, QuietJob DEF JobEnds, server, ServerTyped
    <2> QED BY <1>5, <2>2, <2>3 DEF InitLands
  <1>6. CASE InitAnswered(m)
    <2>1. [cache[m] EXCEPT !.key = job[m].pair.key] \in Pair
      BY <1>1 DEF JobType, Pair
    <2>2. cache' = [cache EXCEPT ![m] = [cache[m] EXCEPT !.key = job[m].pair.key]]
      BY <1>1, <1>6 DEF InitAnswered, KeysTyped, Pair
    <2>3. KeysTyped' /\ ServerTyped' /\ ToldTyped'
      BY <1>6, <2>1, <2>2 DEF InitAnswered, KeysTyped, ServerTyped, ToldTyped, server
    <2> QED BY <1>2, <1>6, <2>3, QuietJob DEF InitAnswered, JobEnds
  <1> QED BY <1>3, <1>4, <1>5, <1>6 DEF JobStep

LEMMA PassStepTyped ==
  ASSUME Typed, Waits, NEW m \in Members,
         PassStep(m) \/ Check(m) \/ PassFails(m)
  PROVE  Typed' /\ Waits'
  <1> USE DEF Typed
  <1>1. pass[m] \in PassType /\ cache[m] \in Pair
    BY DEF PassTyped, KeysTyped
  <1>2. pass[m].at \notin {"key", "encode"} => pass[m].slot = 0
    BY DEF Waits, WaitsOK
  <1>3. NoPass \in PassType /\ NoPass.at \notin {"key", "encode"} /\ NoPass.slot = 0
    BY Constants DEF NoPass
  <1>4. ASSUME PassEnds(m), UNCHANGED <<cache, fetches, inflight, job, told>>, ServerTyped',
               held' = held \/ (\E V : Holds(m, V))
        PROVE  Typed' /\ Waits'
    BY <1>3, <1>4, QuietPass DEF PassEnds
  <1>5. ASSUME UNCHANGED server PROVE ServerTyped'
    BY <1>5 DEF ServerTyped, server
  <1>6. CASE Check(m)
    <2>1. PICK a \in {"drain", "rotate"} : PassGoesTo(m, a)
      BY <1>6 DEF Check
    <2> DEFINE p == [pass[m] EXCEPT !.at = a]
    <2>2. p \in PassType /\ p.at \notin {"key", "encode"} /\ p.slot = 0
      BY <1>1, <1>2, <1>6 DEF PassType, Check, PassAt
    <2>3. pass' = [pass EXCEPT ![m] = p]
      BY <1>1, <2>1 DEF PassGoesTo, PassTyped, PassType
    <2> HIDE DEF p
    <2> QED BY <1>5, <1>6, <2>2, <2>3, QuietPass DEF Check, keys
  <1>7. CASE ListMembers(m)
    <2> DEFINE p == [pass[m] EXCEPT !.at = "post", !.members = team \cup {m}]
    <2>1. p \in PassType /\ p.at \notin {"key", "encode"} /\ p.slot = 0
      BY <1>1, <1>2, <1>7 DEF PassType, ListMembers, PassAt, ServerTyped
    <2>2. pass' = [pass EXCEPT ![m] = p]
      BY <1>1, <1>7 DEF ListMembers, PassTyped, PassType
    <2> HIDE DEF p
    <2> QED BY <1>5, <1>7, <2>1, <2>2, QuietPass DEF ListMembers, keys
  <1>8. CASE PostRotation(m)
    <2>1. UNCHANGED <<cache, fetches, inflight, held, job, told>>
      BY <1>8 DEF PostRotation, keys
    <2>2. CASE /\ epoch < MaxEpoch /\ epoch' = epoch + 1 /\ stale' = FALSE
               /\ wraps' = [wraps EXCEPT ![epoch + 1] = [x \in Members |->
                              IF x \in pass[m].members THEN epoch + 1 ELSE 0]]
               /\ pass' = [pass EXCEPT ![m] = [NoPass EXCEPT !.at = "drain"]]
               /\ UNCHANGED <<team, rows>>
      <3> DEFINE p == [NoPass EXCEPT !.at = "drain"]
      <3>1. p \in PassType /\ p.at \notin {"key", "encode"} /\ p.slot = 0
        BY <1>3 DEF PassType, NoPass
      <3>2. epoch' \in 1..MaxEpoch /\ epoch + 1 \in Keys /\ 0 \in Keys
        BY <2>2, TeamAssumption DEF ServerTyped, Keys
      <3>3. ServerTyped'
        BY <2>2, <3>2 DEF ServerTyped
      <3> HIDE DEF p
      <3> QED BY <2>1, <2>2, <3>1, <3>3, QuietPass DEF p
    <2>3. CASE PassEnds(m) /\ UNCHANGED server
      BY <1>4, <1>5, <2>1, <2>3
    <2> QED BY <1>8, <2>2, <2>3 DEF PostRotation
  <1>9. CASE DrainStarts(m)
    <2>1. PICK i \in Slots : EvictAndAsk(m, i) /\ pass' = [pass EXCEPT ![m].at = "key", ![m].slot = i]
      BY <1>9 DEF DrainStarts
    <2> DEFINE p == [pass[m] EXCEPT !.at = "key", !.slot = i]
    <2>2. p \in PassType /\ p.at = "key" /\ p.slot = i
      BY <1>1 DEF PassType
    <2>3. pass' = [pass EXCEPT ![m] = p]
      BY <1>1, <2>1 DEF PassTyped, PassType
    <2> HIDE DEF p
    <2> QED BY <1>9, <2>1, <2>2, <2>3, PassAsks DEF DrainStarts
  <1>10. CASE DrainLists(m)
    <2> DEFINE p == [pass[m] EXCEPT !.at = "objects", !.listed = rows]
    <2>1. p \in PassType /\ p.at \notin {"key", "encode"} /\ p.slot = 0
      BY <1>1, <1>2, <1>10 DEF PassType, DrainLists, PassAt, ServerTyped
    <2>2. CASE pass' = [pass EXCEPT ![m].at = "objects", ![m].listed = rows]
      <3>1. pass' = [pass EXCEPT ![m] = p]
        BY <1>1, <2>2 DEF PassTyped, PassType
      <3> HIDE DEF p
      <3> QED BY <1>5, <1>10, <2>1, <3>1, QuietPass DEF DrainLists, keys
    <2> QED BY <1>4, <1>5, <1>10, <2>2 DEF DrainLists, keys
  <1>11. OldObjects(m) \in SUBSET Rows /\ OldSecrets(m) \in SUBSET Rows
    BY DEF OldObjects, OldSecrets, Behind, Rows
  <1>12. CASE EncodeObjects(m)
    <2>1. CASE /\ UNCHANGED <<cache, fetches, inflight>> /\ \E V : Holds(m, V)
               /\ pass' = [pass EXCEPT ![m].at = "secrets"]
      <3> DEFINE p == [pass[m] EXCEPT !.at = "secrets"]
      <3>1. p \in PassType /\ p.at \notin {"key", "encode"} /\ p.slot = 0
        BY <1>1, <1>2, <1>12 DEF PassType, EncodeObjects, PassAt
      <3>2. pass' = [pass EXCEPT ![m] = p]
        BY <1>1, <2>1 DEF PassTyped, PassType
      <3> HIDE DEF p
      <3> QED BY <1>5, <1>12, <2>1, <3>1, <3>2, QuietPass DEF EncodeObjects
    <2>2. CASE /\ UNCHANGED <<cache, fetches, inflight>> /\ \E V : Holds(m, V)
               /\ pass' = [pass EXCEPT ![m].at = "put", ![m].put = Labelled(cache[m]),
                                       ![m].items = OldObjects(m)]
      <3> DEFINE p == [pass[m] EXCEPT !.at = "put", !.put = Labelled(cache[m]),
                                      !.items = OldObjects(m)]
      <3>1. p \in PassType /\ p.at \notin {"key", "encode"} /\ p.slot = 0
        <4>1. Labelled(cache[m]) \in Pair /\ OldObjects(m) \in SUBSET Rows
          BY <1>1, <1>11, LabelledTyped
        <4> QED BY <1>1, <1>2, <1>12, <4>1 DEF PassType, EncodeObjects, PassAt
      <3>2. pass' = [pass EXCEPT ![m] = p]
        BY <1>1, <2>2 DEF PassTyped, PassType
      <3> HIDE DEF p
      <3> QED BY <1>5, <1>12, <2>2, <3>1, <3>2, QuietPass DEF EncodeObjects
    <2>3. ASSUME NEW i \in Fetch(m), Asks(m, i),
                 pass' = [pass EXCEPT ![m].at = "encode", ![m].slot = i]
          PROVE  Typed' /\ Waits'
      <3> DEFINE p == [pass[m] EXCEPT !.at = "encode", !.slot = i]
      <3>1. i \in Slots
        BY <2>3, AsksTyped
      <3>2. p \in PassType /\ p.at = "encode" /\ p.slot = i
        BY <1>1, <3>1 DEF PassType
      <3>3. pass' = [pass EXCEPT ![m] = p]
        BY <1>1, <2>3 DEF PassTyped, PassType
      <3> HIDE DEF p
      <3> QED BY <1>12, <2>3, <3>1, <3>2, <3>3, PassAsks DEF EncodeObjects
    <2> QED BY <1>12, <2>1, <2>2, <2>3 DEF EncodeObjects
  <1>13. CASE EncodeSecrets(m)
    <2> DEFINE p == [pass[m] EXCEPT !.at = "put", !.put = pass[m].pair,
                                    !.items = OldSecrets(m)]
    <2>1. CASE pass' = [pass EXCEPT ![m].at = "put", ![m].put = pass[m].pair,
                                    ![m].items = OldSecrets(m)]
      <3>1. p \in PassType /\ p.at \notin {"key", "encode"} /\ p.slot = 0
        <4>1. pass[m].pair \in Pair /\ OldSecrets(m) \in SUBSET Rows
          BY <1>1, <1>11 DEF PassType
        <4> QED BY <1>1, <1>2, <1>13, <4>1 DEF PassType, EncodeSecrets, PassAt
      <3>2. pass' = [pass EXCEPT ![m] = p]
        BY <1>1, <2>1 DEF PassTyped, PassType
      <3> HIDE DEF p
      <3> QED BY <1>5, <1>13, <3>1, <3>2, QuietPass DEF EncodeSecrets
    <2> QED BY <1>4, <1>5, <1>13, <2>1 DEF EncodeSecrets
  <1>14. CASE Reencrypt(m)
    <2>1. UNCHANGED <<cache, fetches, inflight, held, job, told>> /\ ServerTyped'
      BY <1>1, <1>14 DEF Reencrypt, ServerTyped, PassType, keys
    <2> DEFINE p == [pass[m] EXCEPT !.at = "secrets", !.put = None, !.items = {}]
    <2>2. CASE pass' = [pass EXCEPT ![m].at = "secrets", ![m].put = None, ![m].items = {}]
      <3>1. p \in PassType /\ p.at \notin {"key", "encode"} /\ p.slot = 0
        BY <1>1, <1>2, <1>14, Constants DEF PassType, Reencrypt, PassAt
      <3>2. pass' = [pass EXCEPT ![m] = p]
        BY <1>1, <2>2 DEF PassTyped, PassType
      <3> HIDE DEF p
      <3> QED BY <2>1, <3>1, <3>2, QuietPass
    <2> QED BY <1>4, <1>14, <2>1, <2>2 DEF Reencrypt
  <1>15. CASE PassFails(m)
    BY <1>4, <1>5, <1>15 DEF PassFails, keys
  <1> QED BY <1>6, <1>7, <1>8, <1>9, <1>10, <1>12, <1>13, <1>14, <1>15 DEF PassStep

LEMMA TeamTyped ==
  ASSUME Typed, Waits,
         AccessEnds \/ \E x \in Members : Remove(x) \/ Add(x)
  PROVE  Typed' /\ Waits'
  <1>1. UNCHANGED <<keys, job, pass>>
    BY DEF AccessEnds, Remove, Add
  <1>2. KeysTyped' /\ JobTyped' /\ Waits'
    BY <1>1 DEF keys, Typed, KeysTyped, JobTyped, Waits, WaitsOK
  <1>3. CASE AccessEnds
    BY <1>1, <1>2, <1>3, ToldKept DEF AccessEnds, Typed, ServerTyped, PassTyped
  <1>4. ASSUME NEW x \in Members, Add(x) PROVE Typed' /\ Waits'
    BY <1>1, <1>2, <1>4 DEF Add, Typed, ServerTyped, PassTyped, ToldTyped
  <1>5. ASSUME NEW x \in Members, Remove(x) PROVE Typed' /\ Waits'
    <2>1. wraps' \in [1..MaxEpoch -> [Members -> Keys]]
      BY <1>5, Constants DEF Remove, Typed, ServerTyped
    <2> QED BY <1>1, <1>2, <1>5, <2>1, ToldKept DEF Remove, Typed, ServerTyped, PassTyped
  <1> QED BY <1>3, <1>4, <1>5

LEMMA StepTyped == Typed /\ Waits /\ [Next]_vars => Typed' /\ Waits'
  <1> SUFFICES ASSUME Typed, Waits, [Next]_vars PROVE Typed' /\ Waits'
    OBVIOUS
  <1>1. CASE UNCHANGED vars
    BY <1>1 DEF vars, server, keys, told, Typed, ServerTyped, KeysTyped, JobTyped, PassTyped,
                ToldTyped, Waits, WaitsOK
  <1>2. ASSUME NEW m \in Members, NEW i \in Slots, FetchAnswered(m, i) \/ FetchLands(m, i)
        PROVE  Typed' /\ Waits'
    BY <1>2, AnsweredTyped, LandsTyped
  <1>3. ASSUME NEW m \in Members, NEW r \in Rows, Save(m, r) PROVE Typed' /\ Waits'
    BY <1>3, BeginsTyped DEF Save
  <1>4. ASSUME NEW m \in Members, NEW x \in Members, Grant(m, x) PROVE Typed' /\ Waits'
    BY <1>4, BeginsTyped DEF Grant
  <1>5. ASSUME NEW m \in Members, Redistribute(m) PROVE Typed' /\ Waits'
    <2>1. team \in SUBSET (Members \cup Rows)
      BY DEF Typed, ServerTyped
    <2> QED BY <1>5, <2>1, BeginsTyped DEF Redistribute
  <1>6. ASSUME NEW m \in Members, Check(m) \/ PassFails(m) \/ PassStep(m) PROVE Typed' /\ Waits'
    BY <1>6, PassStepTyped
  <1>7. ASSUME NEW m \in Members, Offboard(m) \/ JobStep(m) PROVE Typed' /\ Waits'
    BY <1>7, OffboardTyped, JobStepTyped
  <1>8. CASE AccessEnds \/ \E x \in Members : Remove(x) \/ Add(x)
    BY <1>8, TeamTyped
  <1> QED BY <1>1, <1>2, <1>3, <1>4, <1>5, <1>6, <1>7, <1>8 DEF Next

\* The variables keep to their types, and a task that waits for the team key
\* waits for a fetch on its way (getTeamVaultKey, teamVaultSync.ts).
THEOREM TypeCorrect == Spec => []TypeOK
  <1>1. Typed /\ Waits => TypeOK
    BY DEF Typed, ServerTyped, KeysTyped, ToldTyped, FetchType, Waits, WaitsOK, TypeOK
  <1> QED BY <1>1, InitTyped, StepTyped, PTL DEF Spec

(***************************************************************************)
(* A client that was told of its removal                                   *)
(***************************************************************************)

\* It is not on the team, and what its fetches may still put into the cache is no
\* key.
GoneOK(m) ==
  out[m] => /\ m \notin team /\ (m \in late \/ cache[m] = None)
            /\ \A i \in Slots : fetches[m][i].valid => fetches[m][i].got = None
Gone == \A m \in Members : GoneOK(m)

LEMMA GoneQuiet ==
  ASSUME Gone, UNCHANGED <<team, told, cache, fetches>>
  PROVE  Gone'
  BY DEF Gone, GoneOK, told

\* A client that goes on is on the team, or is about to lose its key.
LEMMA GoneOne ==
  ASSUME Gone, NEW m \in Members, UNCHANGED <<team, told>>,
         \A n \in Members \ {m} : cache'[n] = cache[n] /\ fetches'[n] = fetches[n],
         GoneOK(m)'
  PROVE  Gone'
  <1>1. ASSUME NEW n \in Members \ {m} PROVE GoneOK(n)'
    BY <1>1 DEF Gone, GoneOK, told
  <1> QED BY <1>1 DEF Gone

\* Joining a fetch and evicting a key bring no key.
LEMMA GoneAsks ==
  ASSUME Typed, Gone, NEW m \in Members, NEW i \in Slots, UNCHANGED <<team, told>>,
         (Asks(m, i) /\ i \in Fetch(m)) \/ EvictAndAsk(m, i)
  PROVE  /\ GoneOK(m)'
         /\ \A n \in Members \ {m} : cache'[n] = cache[n] /\ fetches'[n] = fetches[n]
  <1> USE DEF Typed
  <1>1. CASE Asks(m, i) /\ i \in Fetch(m)
    <2>1. \A j \in Slots : fetches'[m][j] = fetches[m][j] \/ fetches'[m][j] = Asked
      BY <1>1, AsksTyped
    <2>2. UNCHANGED cache
      BY <1>1 DEF Asks
    <2> QED BY <1>1, <2>1, <2>2, AsksTyped DEF Gone, GoneOK, Asked, told
  <1>2. CASE EvictAndAsk(m, i)
    <2>1. \A j \in Slots : ~fetches'[m][j].valid \/ fetches'[m][j] = Asked
      BY <1>2, EvictAndAskTyped, OutdatedTyped
    <2> QED BY <1>2, <2>1, EvictAndAskTyped DEF Gone, GoneOK, Asked, told
  <1> QED BY <1>1, <1>2

LEMMA GoneBegins ==
  ASSUME Typed, Gone, NEW m \in Members, NEW op \in {"save", "grant", "init"},
         NEW on \in SUBSET (Members \cup Rows), Begins(m, op, on)
  PROVE  Gone'
  <1> USE DEF Typed
  <1>1. UNCHANGED <<team, told>>
    BY DEF Begins, server
  <1>2. CASE UNCHANGED keys
    BY <1>1, <1>2, GoneQuiet DEF keys
  <1>3. ASSUME NEW i \in Fetch(m), Asks(m, i) PROVE Gone'
    BY <1>1, <1>3, AsksTyped, GoneAsks, GoneOne
  <1> QED BY <1>2, <1>3 DEF Begins

LEMMA GoneAnswered ==
  ASSUME Typed, Gone, NEW m \in Members, NEW i \in Slots, FetchAnswered(m, i)
  PROVE  Gone'
  <1> USE DEF Typed
  <1>1. UNCHANGED <<server, cache, inflight, held, job, pass, told, left>>
    BY DEF FetchAnswered
  <1>2. /\ \A n \in Members \ {m} : fetches'[n] = fetches[n]
        /\ \A j \in Slots \ {i} : fetches'[m][j] = fetches[m][j]
        /\ fetches'[m][i].got = Wrapped(m)
    <2>1. fetches[m] \in [Slots -> FetchType] /\ fetches[m][i] \in FetchType
      BY DEF KeysTyped
    <2> QED BY <2>1 DEF FetchAnswered, KeysTyped, FetchType
  <1>3. m \notin team => Wrapped(m) = None
    BY DEF Wrapped
  <1>4. GoneOK(m)'
    BY <1>1, <1>2, <1>3 DEF Gone, GoneOK, server, told
  <1> QED BY <1>1, <1>2, <1>4, GoneOne DEF server

LEMMA GoneLands ==
  ASSUME Typed, Gone, NEW m \in Members, NEW i \in Slots, FetchLands(m, i)
  PROVE  Gone'
  <1> USE DEF Typed
  <1> DEFINE kept == fetches[m][i].valid /\ fetches[m][i].got # None
  <1>1. /\ UNCHANGED <<server, held, told, left>>
        /\ cache' = IF kept THEN [cache EXCEPT ![m] = fetches[m][i].got] ELSE cache
        /\ fetches' = [fetches EXCEPT ![m][i] = NoFetch]
    BY DEF FetchLands
  <1>2. \A n \in Members \ {m} : cache'[n] = cache[n] /\ fetches'[n] = fetches[n]
    BY <1>1 DEF KeysTyped
  <1>3. GoneOK(m)'
    <2>1. \A j \in Slots : fetches'[m][j] = fetches[m][j] \/ fetches'[m][j] = NoFetch
      BY <1>1 DEF KeysTyped
    <2>2. out[m] => ~kept
      BY DEF Gone, GoneOK
    <2> HIDE DEF kept
    <2> QED BY <1>1, <2>1, <2>2 DEF Gone, GoneOK, NoFetch, server, told
  <1> QED BY <1>1, <1>2, <1>3, GoneOne DEF server

\* Of what a task does, only the answer to an init brings a key.
LEMMA GoneJobStep ==
  ASSUME Typed, Gone, NEW m \in Members, JobStep(m)
  PROVE  Gone'
  <1>1. CASE SaveLands(m) \/ InitLands(m)
    BY <1>1, GoneQuiet DEF SaveLands, InitLands, keys, server
  <1>2. CASE GrantLands(m)
    <2>1. ASSUME NEW i \in Slots, EvictAndAsk(m, i), UNCHANGED server PROVE Gone'
      <3>1. UNCHANGED <<team, told>>
        BY <1>2, <2>1 DEF GrantLands, server
      <3> QED BY <2>1, <3>1, GoneAsks, GoneOne
    <2>2. CASE UNCHANGED <<team, keys>>
      BY <1>2, <2>2, GoneQuiet DEF GrantLands, keys
    <2> QED BY <1>2, <2>1, <2>2 DEF GrantLands, server
  <1>3. CASE InitAnswered(m)
    <2>1. /\ UNCHANGED <<team, out, fetches>>
          /\ \A n \in Members \ {m} : cache'[n] = cache[n] /\ (n \in late => n \in late')
          /\ out[m] => m \in late'
      BY <1>3 DEF InitAnswered, server, Typed, KeysTyped
    <2>2. ASSUME NEW n \in Members PROVE GoneOK(n)'
      <3>1. CASE n = m
        BY <2>1, <3>1 DEF Gone, GoneOK
      <3>2. CASE n # m
        BY <2>1, <3>2 DEF Gone, GoneOK
      <3> QED BY <3>1, <3>2
    <2> QED BY <2>2 DEF Gone
  <1> QED BY <1>1, <1>2, <1>3 DEF JobStep

LEMMA GonePassStep ==
  ASSUME Typed, Gone, NEW m \in Members, PassStep(m) \/ Check(m) \/ PassFails(m)
  PROVE  Gone'
  <1>1. UNCHANGED <<team, told>>
    BY DEF PassStep, Check, PassFails, ListMembers, PostRotation, DrainStarts, DrainLists,
           EncodeObjects, EncodeSecrets, Reencrypt, server
  <1>2. CASE UNCHANGED <<cache, fetches>>
    BY <1>1, <1>2, GoneQuiet
  <1>3. ASSUME NEW i \in Slots, (Asks(m, i) /\ i \in Fetch(m)) \/ EvictAndAsk(m, i) PROVE Gone'
    BY <1>1, <1>3, GoneAsks, GoneOne
  <1>4. CASE DrainStarts(m)
    BY <1>3, <1>4 DEF DrainStarts
  <1>5. CASE EncodeObjects(m)
    BY <1>2, <1>3, <1>5, AsksTyped DEF EncodeObjects, Typed
  <1>6. CASE Check(m) \/ PassFails(m) \/ ListMembers(m) \/ PostRotation(m) \/ DrainLists(m)
             \/ EncodeSecrets(m) \/ Reencrypt(m)
    BY <1>2, <1>6 DEF Check, PassFails, ListMembers, PostRotation, DrainLists, EncodeSecrets, Reencrypt,
                     keys
  <1> QED BY <1>4, <1>5, <1>6 DEF PassStep

LEMMA GoneStep == Typed /\ Gone /\ [Next]_vars => Gone'
  <1> SUFFICES ASSUME Typed, Gone, [Next]_vars PROVE Gone'
    OBVIOUS
  <1>1. CASE UNCHANGED vars
    BY <1>1, GoneQuiet DEF vars, server, keys, told
  <1>2. ASSUME NEW m \in Members, NEW i \in Slots, FetchAnswered(m, i) \/ FetchLands(m, i)
        PROVE  Gone'
    BY <1>2, GoneAnswered, GoneLands
  <1>3. ASSUME NEW m \in Members, NEW r \in Rows, Save(m, r) PROVE Gone'
    BY <1>3, GoneBegins DEF Save
  <1>4. ASSUME NEW m \in Members, NEW x \in Members, Grant(m, x) PROVE Gone'
    BY <1>4, GoneBegins DEF Grant
  <1>5. ASSUME NEW m \in Members, Redistribute(m) PROVE Gone'
    <2>1. team \in SUBSET (Members \cup Rows)
      BY DEF Typed, ServerTyped
    <2> QED BY <1>5, <2>1, GoneBegins DEF Redistribute
  <1>6. ASSUME NEW m \in Members, Check(m) \/ PassFails(m) \/ PassStep(m) \/ JobStep(m) PROVE Gone'
    BY <1>6, GonePassStep, GoneJobStep
  <1>7. ASSUME NEW m \in Members, Offboard(m) PROVE Gone'
    <2>1. GoneOK(m)' /\ UNCHANGED <<team, late>>
      BY <1>7, EvictTyped, OutdatedTyped DEF Offboard, GoneOK, Typed, server
    <2>2. ASSUME NEW n \in Members \ {m} PROVE GoneOK(n)'
      BY <1>7, <2>1, <2>2, EvictTyped DEF Offboard, Gone, GoneOK, Typed, ToldTyped
    <2> QED BY <2>1, <2>2 DEF Gone
  <1>8. CASE AccessEnds
    BY <1>8, GoneQuiet DEF AccessEnds, keys
  <1>9. ASSUME NEW x \in Members, Remove(x) \/ Add(x) PROVE Gone'
    <2>1. UNCHANGED <<cache, fetches>>
      BY <1>9 DEF Remove, Add, keys
    <2>2. \A m \in Members : out'[m] => /\ out[m] /\ (m \notin team => m \notin team')
                                        /\ (m \in late => m \in late')
      BY <1>9 DEF Remove, Add, Typed, ToldTyped, told
    <2> QED BY <2>1, <2>2 DEF Gone, GoneOK
  <1> QED BY <1>1, <1>2, <1>3, <1>4, <1>5, <1>6, <1>7, <1>8, <1>9 DEF Next

\* A client that was told of its removal holds the current key no more, though
\* fetches, drains, saves and grants were on their way (_teamKeyGeneration,
\* teamVaultSync.ts): only an init answered since puts one back, whoever runs it.
THEOREM KickedLosesTheKey == Spec => []KickedHoldsNoKey
  <1>1. Init => Gone
    BY DEF Init, Gone, GoneOK
  <1>2. Gone => KickedHoldsNoKey
    BY DEF Gone, GoneOK, KickedHoldsNoKey
  <1> QED BY <1>1, <1>2, InitTyped, StepTyped, GoneStep, PTL DEF Spec

(***************************************************************************)
(* What is under an epoch                                                  *)
(***************************************************************************)

\* A key and the epoch beside it, wherever a client carries the two: they
\* disagree nowhere.
Lockstep(p) == p.key = p.ver

WrapsOK == \A e \in 1..MaxEpoch, x \in Members : wraps[e][x] \in {0, e}
RowsOK  == \A r \in Rows : Lockstep(rows[r])
KeyOK(m) == Lockstep(cache[m]) /\ \A i \in Slots : Lockstep(fetches[m][i].got)

\* A task that has a key has one, and an init the one that is still in memory.
HasKey(j) == j.at = "go" => j.pair.key # 0
InitKeeps(m) == job[m].op = "init" /\ job[m].at \in {"go", "answer"} => cache[m] = job[m].pair
JobOK(m)  == Lockstep(job[m].pair) /\ HasKey(job[m]) /\ InitKeeps(m)
PassOK(m) == Lockstep(pass[m].pair) /\ Lockstep(pass[m].put)

ClientOK(m) == KeyOK(m) /\ JobOK(m) /\ PassOK(m)
Epochs == WrapsOK /\ RowsOK /\ \A m \in Members : ClientOK(m)

LEMMA EpochsOne ==
  ASSUME Epochs, NEW m \in Members, WrapsOK', RowsOK',
         \A n \in Members \ {m} : /\ cache'[n] = cache[n] /\ fetches'[n] = fetches[n]
                                  /\ job'[n] = job[n] /\ pass'[n] = pass[n],
         ClientOK(m)'
  PROVE  Epochs'
  <1>1. ASSUME NEW n \in Members \ {m} PROVE ClientOK(n)'
    BY <1>1 DEF Epochs, ClientOK, KeyOK, JobOK, PassOK, InitKeeps
  <1> QED BY <1>1 DEF Epochs

LEMMA EpochsServer ==
  ASSUME Epochs, WrapsOK', RowsOK', UNCHANGED <<keys, job, pass>>
  PROVE  Epochs'
  BY DEF Epochs, ClientOK, KeyOK, JobOK, PassOK, InitKeeps, keys

LEMMA NoKeys ==
  /\ Lockstep(None) /\ Lockstep(NoFetch.got) /\ Lockstep(Asked.got)
  /\ Lockstep(NoJob.pair) /\ NoJob.at = "none" /\ NoJob.op = "none"
  /\ Lockstep(NoPass.pair) /\ Lockstep(NoPass.put)
  BY DEF Lockstep, None, NoFetch, Asked, NoJob, NoPass

LEMMA LabelledLockstep ==
  ASSUME NEW p \in Pair, Lockstep(p), p.key # 0
  PROVE  Labelled(p) = p
  BY DEF Labelled, Lockstep, Pair

LEMMA WrappedLockstep ==
  ASSUME ServerTyped, WrapsOK, NEW m \in Members
  PROVE  Lockstep(Wrapped(m))
  BY DEF Wrapped, WrapsOK, ServerTyped, Lockstep, None

\* The fetches of a client that asks or evicts still bring a key with its epoch.
LEMMA AsksKeyOK ==
  ASSUME Typed, NEW m \in Members, NEW i \in Slots, KeyOK(m),
         (Asks(m, i) /\ i \in Fetch(m)) \/ EvictAndAsk(m, i)
  PROVE  /\ KeyOK(m)'
         /\ \A n \in Members \ {m} : cache'[n] = cache[n] /\ fetches'[n] = fetches[n]
  <1> USE DEF Typed
  <1>1. CASE Asks(m, i) /\ i \in Fetch(m)
    <2>1. \A j \in Slots : fetches'[m][j] = fetches[m][j] \/ fetches'[m][j] = Asked
      BY <1>1, AsksTyped
    <2>2. UNCHANGED cache
      BY <1>1 DEF Asks
    <2> QED BY <1>1, <2>1, <2>2, AsksTyped, NoKeys DEF KeyOK
  <1>2. CASE EvictAndAsk(m, i)
    <2>1. \A j \in Slots : fetches'[m][j].got = fetches[m][j].got \/ fetches'[m][j] = Asked
      BY <1>2, EvictAndAskTyped, OutdatedTyped
    <2> QED BY <1>2, <2>1, EvictAndAskTyped, NoKeys DEF KeyOK
  <1> QED BY <1>1, <1>2

LEMMA EpochsBegins ==
  ASSUME Typed, Epochs, NEW m \in Members, NEW op \in {"save", "grant", "init"},
         NEW on \in SUBSET (Members \cup Rows), Begins(m, op, on)
  PROVE  Epochs'
  <1> USE DEF Typed
  <1>1. UNCHANGED <<server, pass>>
    BY DEF Begins
  <1>2. WrapsOK' /\ RowsOK' /\ PassOK(m)' /\ ClientOK(m)
    BY <1>1 DEF server, Epochs, WrapsOK, RowsOK, ClientOK, PassOK
  <1>3. CASE /\ cache[m].key # 0 /\ UNCHANGED keys
             /\ job' = [job EXCEPT ![m] = [NoJob EXCEPT !.op = op, !.at = "go",
                                                        !.pair = cache[m], !.on = on]]
    <2>1. job'[m].pair = cache'[m] /\ job'[m].pair.key # 0
      BY <1>3 DEF keys, JobTyped, NoJob
    <2>2. \A n \in Members \ {m} : job'[n] = job[n]
      BY <1>3 DEF JobTyped
    <2>3. ClientOK(m)'
      BY <1>2, <1>3, <2>1 DEF ClientOK, KeyOK, JobOK, HasKey, InitKeeps, keys
    <2> QED BY <1>1, <1>2, <1>3, <2>2, <2>3, EpochsOne DEF keys
  <1>4. ASSUME NEW i \in Fetch(m), Asks(m, i),
               job' = [job EXCEPT ![m] = [NoJob EXCEPT !.op = op, !.at = "key",
                                                       !.slot = i, !.on = on]]
        PROVE  Epochs'
    <2>1. i \in Slots
      BY <1>4, AsksTyped
    <2>2. /\ KeyOK(m)'
          /\ \A n \in Members \ {m} : cache'[n] = cache[n] /\ fetches'[n] = fetches[n]
      BY <1>2, <1>4, <2>1, AsksKeyOK DEF ClientOK
    <2>3. /\ job'[m].pair = NoJob.pair /\ job'[m].at = "key"
          /\ \A n \in Members \ {m} : job'[n] = job[n]
      BY <1>4 DEF JobTyped, NoJob
    <2>4. ClientOK(m)'
      BY <1>2, <2>2, <2>3, NoKeys DEF ClientOK, JobOK, HasKey, InitKeeps
    <2> QED BY <1>1, <1>2, <2>2, <2>3, <2>4, EpochsOne
  <1> QED BY <1>3, <1>4 DEF Begins

LEMMA EpochsAnswered ==
  ASSUME Typed, Epochs, NEW m \in Members, NEW i \in Slots, FetchAnswered(m, i)
  PROVE  Epochs'
  <1> USE DEF Typed
  <1>1. UNCHANGED <<server, cache, inflight, held, job, pass, told, left>>
    BY DEF FetchAnswered
  <1>2. /\ \A n \in Members \ {m} : fetches'[n] = fetches[n]
        /\ \A j \in Slots \ {i} : fetches'[m][j] = fetches[m][j]
        /\ fetches'[m][i].got = Wrapped(m)
    <2>1. fetches[m] \in [Slots -> FetchType] /\ fetches[m][i] \in FetchType
      BY DEF KeysTyped
    <2> QED BY <2>1 DEF FetchAnswered, KeysTyped, FetchType
  <1>3. WrapsOK' /\ RowsOK' /\ WrapsOK /\ ClientOK(m)
    BY <1>1 DEF server, Epochs, WrapsOK, RowsOK
  <1>4. ClientOK(m)'
    BY <1>1, <1>2, <1>3, WrappedLockstep DEF ClientOK, KeyOK, JobOK, PassOK, InitKeeps
  <1> QED BY <1>1, <1>2, <1>3, <1>4, EpochsOne

\* A fetch lands while no init holds a key: it then is the key of who waits for it.
LEMMA EpochsLands ==
  ASSUME ~InitOverlaps, Typed, Epochs, NEW m \in Members, NEW i \in Slots, FetchLands(m, i)
  PROVE  Epochs'
  <1> USE DEF Typed
  <1> DEFINE got  == fetches[m][i].got
             kept == fetches[m][i].valid /\ got # None
  <1>1. /\ UNCHANGED server /\ MayChangeKey(m)
        /\ cache' = IF kept THEN [cache EXCEPT ![m] = got] ELSE cache
        /\ fetches' = [fetches EXCEPT ![m][i] = NoFetch]
        /\ job' = JobGoes(m, i, kept)
        /\ pass' = PassGoes(m, i, kept)
    BY DEF FetchLands
  <1>2. WrapsOK' /\ RowsOK' /\ ClientOK(m)
    BY <1>1 DEF server, Epochs, WrapsOK, RowsOK
  <1>3. got \in Pair /\ Lockstep(got) /\ (kept => got.key # 0)
    <2>1. got \in Pair /\ Lockstep(got)
      BY <1>2 DEF ClientOK, KeyOK, KeysTyped, FetchType
    <2>2. got.key = 0 => got = None
      BY <2>1 DEF Pair, Lockstep, None
    <2> QED BY <2>1, <2>2
  <1>4. \A n \in Members \ {m} : /\ cache'[n] = cache[n] /\ fetches'[n] = fetches[n]
                                 /\ job'[n] = job[n] /\ pass'[n] = pass[n]
    BY <1>1 DEF KeysTyped, JobGoes, JobTyped, PassGoes, PassTyped
  <1>5. cache'[m] = IF kept THEN got ELSE cache[m]
    BY <1>1 DEF KeysTyped
  <1>6. \A j \in Slots : fetches'[m][j] = fetches[m][j] \/ fetches'[m][j] = NoFetch
    BY <1>1 DEF KeysTyped
  <1>7. \/ job'[m] = job[m] /\ job[m].slot # i
        \/ job'[m] = NoJob
        \/ kept /\ job'[m].pair = got
    <2>1. job[m] \in JobType
      BY DEF JobTyped
    <2> HIDE DEF kept
    <2> QED BY <1>1, <2>1 DEF JobGoes, JobTyped, JobType
  <1>8. \/ pass'[m].pair = pass[m].pair /\ pass'[m].put = pass[m].put
        \/ pass'[m] = NoPass
        \/ pass'[m].pair = got /\ pass'[m].put = pass[m].put
    <2>1. pass[m] \in PassType
      BY DEF PassTyped
    <2> HIDE DEF kept
    <2> QED BY <1>1, <2>1 DEF PassGoes, PassTyped, PassType
  <1> HIDE DEF kept, got
  <1>9. KeyOK(m)' /\ PassOK(m)'
    BY <1>2, <1>3, <1>5, <1>6, <1>8, NoKeys DEF ClientOK, KeyOK, PassOK, got
  <1>10. job[m].op # "init" \/ job[m].at = "key"
    BY <1>1 DEF MayChangeKey
  <1>11. JobOK(m)'
    BY <1>2, <1>3, <1>5, <1>7, <1>10, NoKeys DEF ClientOK, JobOK, HasKey, InitKeeps
  <1> QED BY <1>2, <1>4, <1>9, <1>11, EpochsOne DEF ClientOK

LEMMA EpochsJobStep ==
  ASSUME Typed, Epochs, NEW m \in Members, JobStep(m)
  PROVE  Epochs'
  <1> USE DEF Typed
  <1>1. ClientOK(m) /\ WrapsOK /\ RowsOK /\ job[m] \in JobType /\ cache[m] \in Pair
    BY DEF Epochs, JobTyped, KeysTyped
  <1>2. ASSUME JobEnds(m), UNCHANGED <<cache, fetches, pass>>, WrapsOK', RowsOK' PROVE Epochs'
    <2>1. job'[m] = NoJob /\ \A n \in Members \ {m} : job'[n] = job[n]
      BY <1>2 DEF JobEnds, JobTyped
    <2>2. ClientOK(m)'
      BY <1>1, <1>2, <2>1, NoKeys DEF ClientOK, KeyOK, JobOK, HasKey, InitKeeps, PassOK
    <2> QED BY <1>2, <2>1, <2>2, EpochsOne
  <1>3. ASSUME Wrap(m), AtGo(m, "grant") \/ AtGo(m, "init"), job[m].pair.ver = epoch PROVE WrapsOK'
    <2>1. job[m].pair.key = epoch /\ epoch \in 1..MaxEpoch
      BY <1>1, <1>3 DEF ClientOK, JobOK, Lockstep, ServerTyped
    <2>2. \A x \in Members : wraps'[epoch][x] \in {wraps[epoch][x], epoch}
      BY <1>3, <2>1 DEF Wrap, ServerTyped
    <2>3. \A e \in (1..MaxEpoch) \ {epoch} : wraps'[e] = wraps[e]
      BY <1>3 DEF Wrap, ServerTyped
    <2> QED BY <1>1, <2>1, <2>2, <2>3 DEF WrapsOK
  <1>4. CASE SaveLands(m)
    <2>1. Labelled(job[m].pair) = job[m].pair /\ Lockstep(job[m].pair)
      BY <1>1, <1>4, LabelledLockstep DEF SaveLands, AtGo, ClientOK, JobOK, HasKey, JobType
    <2>2. \A r \in Rows : rows'[r] = rows[r] \/ rows'[r] = job[m].pair
      BY <1>4, <2>1 DEF SaveLands
    <2>3. RowsOK' /\ WrapsOK'
      BY <1>1, <1>4, <2>1, <2>2 DEF SaveLands, RowsOK, WrapsOK
    <2> QED BY <1>2, <1>4, <2>3 DEF SaveLands, keys
  <1>5. CASE GrantLands(m)
    <2>1. CASE /\ job[m].pair.ver = epoch /\ Wrap(m) /\ JobEnds(m)
               /\ UNCHANGED <<epoch, team, stale, rows, keys>>
      BY <1>1, <1>2, <1>3, <1>5, <2>1 DEF GrantLands, keys, RowsOK
    <2>2. CASE JobEnds(m) /\ UNCHANGED <<server, keys>>
      BY <1>1, <1>2, <1>5, <2>2 DEF GrantLands, keys, server, RowsOK, WrapsOK
    <2>3. ASSUME NEW i \in Slots, EvictAndAsk(m, i), UNCHANGED server,
                 job' = [job EXCEPT ![m].at = "key", ![m].slot = i, ![m].again = TRUE]
          PROVE  Epochs'
      <3>1. /\ KeyOK(m)'
            /\ \A n \in Members \ {m} : cache'[n] = cache[n] /\ fetches'[n] = fetches[n]
        BY <1>1, <2>3, AsksKeyOK DEF ClientOK
      <3>2. /\ job'[m].pair = job[m].pair /\ job'[m].at = "key"
            /\ \A n \in Members \ {m} : job'[n] = job[n]
        BY <1>1, <2>3 DEF JobTyped, JobType
      <3>3. UNCHANGED pass /\ WrapsOK' /\ RowsOK'
        BY <1>1, <1>5, <2>3 DEF GrantLands, server, WrapsOK, RowsOK
      <3>4. ClientOK(m)'
        BY <1>1, <3>1, <3>2, <3>3 DEF ClientOK, JobOK, HasKey, InitKeeps, PassOK
      <3> QED BY <3>1, <3>2, <3>3, <3>4, EpochsOne
    <2> QED BY <1>5, <2>1, <2>2, <2>3 DEF GrantLands
  <1>6. CASE InitLands(m)
    <2>1. UNCHANGED <<cache, fetches, pass>>
      BY <1>6 DEF InitLands, keys
    <2>2. CASE /\ cache[m].ver = epoch /\ Wrap(m) /\ job' = [job EXCEPT ![m].at = "answer"]
               /\ UNCHANGED <<epoch, team, stale, rows>>
      <3>1. cache[m] = job[m].pair /\ AtGo(m, "init")
        BY <1>1, <1>6 DEF InitLands, AtGo, ClientOK, JobOK, InitKeeps
      <3>2. WrapsOK' /\ RowsOK'
        BY <1>1, <1>3, <2>2, <3>1 DEF RowsOK
      <3>3. /\ job'[m].pair = job[m].pair /\ job'[m].at = "answer"
            /\ \A n \in Members \ {m} : job'[n] = job[n]
        BY <1>1, <2>2 DEF JobTyped, JobType
      <3>4. ClientOK(m)'
        BY <1>1, <2>1, <3>1, <3>3 DEF ClientOK, KeyOK, JobOK, HasKey, InitKeeps, PassOK
      <3> QED BY <2>1, <3>2, <3>3, <3>4, EpochsOne
    <2>3. CASE JobEnds(m) /\ UNCHANGED server
      BY <1>1, <1>2, <2>1, <2>3 DEF server, RowsOK, WrapsOK
    <2> QED BY <1>6, <2>2, <2>3 DEF InitLands
  <1>7. CASE InitAnswered(m)
    <2>1. cache[m] = job[m].pair
      BY <1>1, <1>7 DEF InitAnswered, ClientOK, JobOK, InitKeeps
    <2>2. UNCHANGED cache
      BY <1>1, <1>7, <2>1 DEF InitAnswered, KeysTyped, Pair
    <2>3. WrapsOK' /\ RowsOK'
      BY <1>1, <1>7 DEF InitAnswered, server, WrapsOK, RowsOK
    <2> QED BY <1>2, <1>7, <2>2, <2>3 DEF InitAnswered
  <1> QED BY <1>4, <1>5, <1>6, <1>7 DEF JobStep

LEMMA EpochsPassStep ==
  ASSUME ~InitOverlaps, Typed, Epochs, NEW m \in Members,
         PassStep(m) \/ Check(m) \/ PassFails(m)
  PROVE  Epochs'
  <1> USE DEF Typed
  <1>1. ClientOK(m) /\ WrapsOK /\ RowsOK /\ pass[m] \in PassType /\ cache[m] \in Pair
    BY DEF Epochs, PassTyped, KeysTyped
  <1>2. UNCHANGED job
    BY DEF PassStep, Check, PassFails, ListMembers, PostRotation, DrainStarts, DrainLists,
           EncodeObjects, EncodeSecrets, Reencrypt
  <1>3. ASSUME UNCHANGED <<cache, fetches>>, WrapsOK', RowsOK', PassOK(m)',
               \A n \in Members \ {m} : pass'[n] = pass[n]
        PROVE  Epochs'
    <2>1. ClientOK(m)'
      BY <1>1, <1>2, <1>3 DEF ClientOK, KeyOK, JobOK, HasKey, InitKeeps
    <2> QED BY <1>2, <1>3, <2>1, EpochsOne
  <1>4. ASSUME UNCHANGED server PROVE WrapsOK' /\ RowsOK'
    BY <1>1, <1>4 DEF server, WrapsOK, RowsOK
  <1>5. ASSUME PassEnds(m) PROVE PassOK(m)' /\ \A n \in Members \ {m} : pass'[n] = pass[n]
    BY <1>5, NoKeys DEF PassEnds, PassOK, PassTyped
  <1>6. ASSUME NEW i \in Slots, (Asks(m, i) /\ i \in Fetch(m)) \/ EvictAndAsk(m, i), UNCHANGED server,
               cache'[m] = cache[m] \/ job[m].op # "init" \/ job[m].at = "key",
               NEW a \in {"key", "encode"}, pass' = [pass EXCEPT ![m].at = a, ![m].slot = i]
        PROVE  Epochs'
    <2>1. /\ KeyOK(m)'
          /\ \A n \in Members \ {m} : cache'[n] = cache[n] /\ fetches'[n] = fetches[n]
      BY <1>1, <1>6, AsksKeyOK DEF ClientOK
    <2>2. /\ pass'[m].pair = pass[m].pair /\ pass'[m].put = pass[m].put
          /\ \A n \in Members \ {m} : pass'[n] = pass[n]
      BY <1>1, <1>6 DEF PassTyped, PassType
    <2>3. ClientOK(m)'
      BY <1>1, <1>2, <1>6, <2>1, <2>2 DEF ClientOK, JobOK, HasKey, InitKeeps, PassOK
    <2> QED BY <1>2, <1>4, <1>6, <2>1, <2>2, <2>3, EpochsOne
  <1>7. CASE Check(m) \/ ListMembers(m)
    <2>1. /\ pass'[m].pair = pass[m].pair /\ pass'[m].put = pass[m].put
          /\ \A n \in Members \ {m} : pass'[n] = pass[n]
      BY <1>1, <1>7 DEF Check, ListMembers, PassGoesTo, PassTyped, PassType
    <2> QED BY <1>1, <1>3, <1>4, <1>7, <2>1 DEF Check, ListMembers, ClientOK, PassOK, keys
  <1>8. CASE PostRotation(m)
    <2>1. CASE /\ epoch < MaxEpoch /\ UNCHANGED <<team, rows>>
               /\ wraps' = [wraps EXCEPT ![epoch + 1] = [x \in Members |->
                              IF x \in pass[m].members THEN epoch + 1 ELSE 0]]
               /\ pass' = [pass EXCEPT ![m] = [NoPass EXCEPT !.at = "drain"]]
      <3>1. epoch + 1 \in 1..MaxEpoch
        BY <2>1, TeamAssumption DEF ServerTyped
      <3>2. \A x \in Members : wraps'[epoch + 1][x] \in {0, epoch + 1}
        BY <2>1, <3>1 DEF ServerTyped
      <3>3. \A e \in (1..MaxEpoch) \ {epoch + 1} : wraps'[e] = wraps[e]
        BY <2>1 DEF ServerTyped
      <3>4. WrapsOK' /\ RowsOK'
        BY <1>1, <2>1, <3>1, <3>2, <3>3 DEF WrapsOK, RowsOK
      <3>5. PassOK(m)' /\ \A n \in Members \ {m} : pass'[n] = pass[n]
        BY <2>1, NoKeys DEF PassTyped, NoPass, PassOK
      <3> QED BY <1>3, <1>8, <3>4, <3>5 DEF PostRotation, keys
    <2>2. CASE PassEnds(m) /\ UNCHANGED server
      BY <1>3, <1>4, <1>5, <1>8, <2>2 DEF PostRotation, keys
    <2> QED BY <1>8, <2>1, <2>2 DEF PostRotation
  <1>9. CASE DrainStarts(m)
    BY <1>6, <1>9 DEF DrainStarts, MayChangeKey
  <1>10. CASE DrainLists(m)
    <2>1. CASE pass' = [pass EXCEPT ![m].at = "objects", ![m].listed = rows]
      <3>1. /\ pass'[m].pair = pass[m].pair /\ pass'[m].put = pass[m].put
            /\ \A n \in Members \ {m} : pass'[n] = pass[n]
        BY <1>1, <2>1 DEF PassTyped, PassType
      <3> QED BY <1>1, <1>3, <1>4, <1>10, <3>1 DEF DrainLists, ClientOK, PassOK, keys
    <2> QED BY <1>3, <1>4, <1>5, <1>10, <2>1 DEF DrainLists, keys
  <1>11. CASE EncodeObjects(m)
    <2>1. CASE \E i \in Fetch(m) : Asks(m, i) /\ pass' = [pass EXCEPT ![m].at = "encode", ![m].slot = i]
      <3>1. PICK i \in Fetch(m) :
              Asks(m, i) /\ pass' = [pass EXCEPT ![m].at = "encode", ![m].slot = i]
        BY <2>1
      <3>2. i \in Slots /\ UNCHANGED cache
        BY <3>1, AsksTyped DEF Asks
      <3> QED BY <1>6, <1>11, <3>1, <3>2 DEF EncodeObjects
    <2>2. CASE pass' = [pass EXCEPT ![m].at = "secrets"] /\ UNCHANGED <<cache, fetches>>
      <3>1. /\ pass'[m].pair = pass[m].pair /\ pass'[m].put = pass[m].put
            /\ \A n \in Members \ {m} : pass'[n] = pass[n]
        BY <1>1, <2>2 DEF PassTyped, PassType
      <3> QED BY <1>1, <1>3, <1>4, <1>11, <2>2, <3>1 DEF EncodeObjects, ClientOK, PassOK
    <2>3. CASE /\ Behind(m, Objects) = {} \/ cache[m].key # 0
               /\ OldObjects(m) # {} /\ UNCHANGED <<cache, fetches>>
               /\ pass' = [pass EXCEPT ![m].at = "put", ![m].put = Labelled(cache[m]),
                                       ![m].items = OldObjects(m)]
      <3>1. Labelled(cache[m]) = cache[m]
        BY <1>1, <2>3, LabelledLockstep DEF OldObjects, ClientOK, KeyOK
      <3>2. /\ pass'[m].pair = pass[m].pair /\ pass'[m].put = cache[m]
            /\ \A n \in Members \ {m} : pass'[n] = pass[n]
        BY <1>1, <2>3, <3>1 DEF PassTyped, PassType
      <3> QED BY <1>1, <1>3, <1>4, <1>11, <2>3, <3>2 DEF EncodeObjects, ClientOK, KeyOK, PassOK
    <2> QED BY <1>11, <2>1, <2>2, <2>3 DEF EncodeObjects
  <1>12. CASE EncodeSecrets(m)
    <2>1. CASE pass' = [pass EXCEPT ![m].at = "put", ![m].put = pass[m].pair,
                                    ![m].items = OldSecrets(m)]
      <3>1. /\ pass'[m].pair = pass[m].pair /\ pass'[m].put = pass[m].pair
            /\ \A n \in Members \ {m} : pass'[n] = pass[n]
        BY <1>1, <2>1 DEF PassTyped, PassType
      <3> QED BY <1>1, <1>3, <1>4, <1>12, <3>1 DEF EncodeSecrets, ClientOK, PassOK
    <2> QED BY <1>3, <1>4, <1>5, <1>12, <2>1 DEF EncodeSecrets
  <1>13. CASE Reencrypt(m)
    <2>1. Lockstep(pass[m].put)
      BY <1>1 DEF ClientOK, PassOK
    <2>2. \A r \in Rows : rows'[r] = rows[r] \/ rows'[r] = pass[m].put
      BY <1>13 DEF Reencrypt
    <2>3. WrapsOK' /\ RowsOK' /\ UNCHANGED <<cache, fetches>>
      BY <1>1, <1>13, <2>1, <2>2 DEF Reencrypt, WrapsOK, RowsOK, keys
    <2>4. CASE pass' = [pass EXCEPT ![m].at = "secrets", ![m].put = None, ![m].items = {}]
      <3>1. /\ pass'[m].pair = pass[m].pair /\ pass'[m].put = None
            /\ \A n \in Members \ {m} : pass'[n] = pass[n]
        BY <1>1, <2>4 DEF PassTyped, PassType
      <3> QED BY <1>1, <1>3, <2>3, <3>1, NoKeys DEF ClientOK, PassOK
    <2> QED BY <1>3, <1>5, <1>13, <2>3, <2>4 DEF Reencrypt
  <1>14. CASE PassFails(m)
    BY <1>3, <1>4, <1>5, <1>14 DEF PassFails, keys
  <1> QED BY <1>7, <1>8, <1>9, <1>10, <1>11, <1>12, <1>13, <1>14 DEF PassStep

LEMMA EpochsOffboard ==
  ASSUME ~InitOverlaps, Typed, Epochs, NEW m \in Members, Offboard(m)
  PROVE  Epochs'
  <1> USE DEF Typed
  <1>1. Evict(m) /\ UNCHANGED <<server, job, pass>> /\ (job[m].op # "init" \/ job[m].at = "key")
    BY DEF Offboard, MayChangeKey
  <1>2. \A i \in Slots : fetches'[m][i].got = fetches[m][i].got
    BY <1>1, EvictTyped, OutdatedTyped
  <1>3. WrapsOK' /\ RowsOK' /\ ClientOK(m)
    BY <1>1 DEF server, Epochs, WrapsOK, RowsOK
  <1>4. ClientOK(m)'
    BY <1>1, <1>2, <1>3, EvictTyped, NoKeys DEF ClientOK, KeyOK, JobOK, HasKey, InitKeeps, PassOK
  <1> QED BY <1>1, <1>3, <1>4, EvictTyped, EpochsOne

LEMMA EpochsStep ==
  ASSUME ~InitOverlaps
  PROVE  Typed /\ Epochs /\ [Next]_vars => Epochs'
  <1> SUFFICES ASSUME Typed, Epochs, [Next]_vars PROVE Epochs'
    OBVIOUS
  <1>1. CASE UNCHANGED vars
    BY <1>1, EpochsServer DEF vars, server, Epochs, WrapsOK, RowsOK
  <1>2. ASSUME NEW m \in Members, NEW i \in Slots, FetchAnswered(m, i) \/ FetchLands(m, i)
        PROVE  Epochs'
    BY <1>2, EpochsAnswered, EpochsLands
  <1>3. ASSUME NEW m \in Members, NEW r \in Rows, Save(m, r) PROVE Epochs'
    BY <1>3, EpochsBegins DEF Save
  <1>4. ASSUME NEW m \in Members, NEW x \in Members, Grant(m, x) PROVE Epochs'
    BY <1>4, EpochsBegins DEF Grant
  <1>5. ASSUME NEW m \in Members, Redistribute(m) PROVE Epochs'
    <2>1. team \in SUBSET (Members \cup Rows)
      BY DEF Typed, ServerTyped
    <2> QED BY <1>5, <2>1, EpochsBegins DEF Redistribute
  <1>6. ASSUME NEW m \in Members, Check(m) \/ PassFails(m) \/ PassStep(m) \/ JobStep(m) PROVE Epochs'
    BY <1>6, EpochsPassStep, EpochsJobStep
  <1>7. ASSUME NEW m \in Members, Offboard(m) PROVE Epochs'
    BY <1>7, EpochsOffboard
  <1>8. CASE AccessEnds
    BY <1>8, EpochsServer DEF AccessEnds, Epochs, WrapsOK, RowsOK
  <1>9. ASSUME NEW x \in Members, Add(x) PROVE Epochs'
    BY <1>9, EpochsServer DEF Add, Epochs, WrapsOK, RowsOK
  <1>10. ASSUME NEW x \in Members, Remove(x) PROVE Epochs'
    <2>1. \A e \in 1..MaxEpoch, y \in Members : wraps'[e][y] \in {wraps[e][y], 0}
      BY <1>10 DEF Remove, Typed, ServerTyped
    <2>2. WrapsOK' /\ RowsOK' /\ UNCHANGED <<keys, job, pass>>
      BY <1>10, <2>1 DEF Remove, Epochs, WrapsOK, RowsOK
    <2> QED BY <2>2, EpochsServer
  <1> QED BY <1>1, <1>2, <1>3, <1>4, <1>5, <1>6, <1>7, <1>8, <1>9, <1>10 DEF Next

LEMMA EpochsInvariant ==
  ASSUME ~InitOverlaps
  PROVE  Spec => []Epochs
  <1>1. Init => Epochs
    <2> SUFFICES ASSUME Init PROVE Epochs
      OBVIOUS
    <2>1. WrapsOK /\ RowsOK
      BY DEF Init, WrapsOK, RowsOK, Lockstep
    <2>2. \A m \in Members : ClientOK(m)
      BY NoKeys DEF Init, ClientOK, KeyOK, JobOK, HasKey, InitKeeps, PassOK
    <2> QED BY <2>1, <2>2 DEF Epochs
  <1>2. Typed /\ Epochs /\ [Next]_vars => Epochs'
    BY EpochsStep
  <1> QED BY <1>1, <1>2, InitTyped, StepTyped, PTL DEF Spec

\* While no key is evicted or fetched under an init, what the server keeps under an
\* epoch is under that epoch's key: rows that saves and overlapping drains wrote
\* (teamKeyRotation.ts) and keys wrapped for newcomers (teamVaultSync.ts).
THEOREM EpochKeys == ASSUME ~InitOverlaps PROVE Spec => []KeysAreTheirEpochs
  <1>1. Epochs => KeysAreTheirEpochs
    BY DEF Epochs, WrapsOK, RowsOK, Lockstep, KeysAreTheirEpochs
  <1> QED BY <1>1, EpochsInvariant, PTL

\* Under the same condition no client can read a key and a version that disagree
\* (teamVaultSync.ts:59-60).
THEOREM CacheKeepsLockstep == ASSUME ~InitOverlaps PROVE Spec => []CacheInLockstep
  <1>1. Epochs => CacheInLockstep
    BY DEF Epochs, ClientOK, KeyOK, Lockstep, CacheInLockstep
  <1> QED BY <1>1, EpochsInvariant, PTL
=============================================================================
