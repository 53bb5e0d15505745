------------------------------ MODULE TeamKeys ------------------------------
(***************************************************************************)
(* The key of a team vault: its epochs on the server, the copy each client *)
(* keeps in memory (teamVaultSync.ts), the pass that rotates it and then   *)
(* re-encrypts what still lies under an older epoch (teamKeyRotation.ts),  *)
(* and the work that uses it meanwhile: saves, keys wrapped for newcomers, *)
(* and the redistribution a manager's login makes.                         *)
(*                                                                         *)
(* A key is named by the epoch it was minted for, 0 is no key.  What lies  *)
(* between two awaits on the network is one step.  The server is external: *)
(* it answers members only, and refuses a wrapped key whose epoch is not   *)
(* the current one.                                                        *)
(***************************************************************************)
EXTENDS Naturals

CONSTANTS Members,       \* users that may be on the team and whose app runs
          Owner,         \* the one that is never removed
          Managers,      \* those whose login hands the key out again
          Objects,       \* encrypted under the key in memory
          Secrets,       \* encrypted under the key the drain fetched
          MaxEpoch,
          MaxEvents,     \* saves, changes of the team, logins, failed requests
          InitOverlaps   \* the key may change while an init is using it

ASSUME TeamAssumption ==
  /\ Owner \in Managers /\ Managers \subseteq Members
  /\ MaxEpoch \in Nat \ {0} /\ MaxEvents \in Nat
  /\ InitOverlaps \in BOOLEAN

VARIABLES epoch, team, stale, wraps, rows,   \* the server
          cache, fetches, inflight, held,    \* teamVaultSync.ts, per client
          job, pass,                         \* what a client is doing
          out,                               \* clients told of their removal
          late,                              \* those an init was answered for since
          left                               \* events MaxEvents still allows

server == <<epoch, team, stale, wraps, rows>>
keys   == <<cache, fetches, inflight, held>>
told   == <<out, late>>
vars   == <<server, keys, job, pass, told, left>>

Rows  == Objects \cup Secrets
Keys  == 0..MaxEpoch
Slots == {1, 2}                         \* fetches of one client on their way

Pair == [key: Keys, ver: Keys]
None == [key |-> 0, ver |-> 0]

NoFetch == [at |-> "none", got |-> None, valid |-> FALSE]
Asked   == [at |-> "asked", got |-> None, valid |-> TRUE]
NoJob   == [op |-> "none", at |-> "none", slot |-> 0, pair |-> None,
            on |-> {}, again |-> FALSE]
NoPass  == [at |-> "idle", slot |-> 0, pair |-> None, members |-> {},
            listed |-> [r \in Rows |-> None], put |-> None, items |-> {}]

(* Rows on an older epoch: what rotation-status answers as "draining". *)
Draining == \E r \in Rows : rows[r].ver < epoch

(* The key and epoch the server hands a member. *)
Wrapped(m) == IF m \in team /\ wraps[epoch][m] # 0
              THEN [key |-> wraps[epoch][m], ver |-> epoch]
              ELSE None

(* getTeamVaultKeyAtVersion: once fetched, the key of an epoch is held for *)
(* the session; it survives deleteTeamKey.                                 *)
KeyAt(m, v) == IF held[m][v] # 0 THEN held[m][v]
               ELSE IF m \in team THEN wraps[v][m] ELSE 0

Holds(m, V) ==
  held' = [held EXCEPT ![m] = [v \in 1..MaxEpoch |->
             IF v \in V THEN KeyAt(m, v) ELSE held[m][v]]]

(* decodeObjectMetadata opens an object of this epoch with the key in      *)
(* memory, or with the epoch's own key.                                    *)
IsCurrent(m, v) == cache[m].ver \in {0, v}
Opens(m, p) == p.key = IF IsCurrent(m, p.ver) THEN cache[m].key ELSE KeyAt(m, p.ver)

(* getCachedTeamKeyVersion(teamId) ?? 1 *)
Labelled(p) == [p EXCEPT !.ver = IF p.ver = 0 THEN 1 ELSE p.ver]

Init ==
  /\ epoch = 1 /\ team = Members /\ stale = FALSE
  /\ wraps = [e \in 1..MaxEpoch |-> [m \in Members |-> IF e = 1 THEN 1 ELSE 0]]
  /\ rows = [r \in Rows |-> [key |-> 1, ver |-> 1]]
  /\ cache = [m \in Members |-> None]
  /\ fetches = [m \in Members |-> [i \in Slots |-> NoFetch]]
  /\ inflight = [m \in Members |-> 0]
  /\ held = [m \in Members |-> [v \in 1..MaxEpoch |-> 0]]
  /\ job = [m \in Members |-> NoJob]
  /\ pass = [m \in Members |-> NoPass]
  /\ out = [m \in Members |-> FALSE] /\ late = {}
  /\ left = MaxEvents

-----------------------------------------------------------------------------
(* The key in memory. *)

Free(m) == {i \in Slots : fetches[m][i].at = "none"}

(* The fetch getTeamVaultKey joins, or the one it starts. *)
Fetch(m) == IF inflight[m] # 0
            THEN {inflight[m]}
            ELSE {i \in Free(m) : \A j \in Free(m) : i <= j}

(* getTeamVaultKey on a cold cache: join the fetch on its way or start one. *)
Asks(m, i) ==
  /\ fetches' = IF inflight[m] = i THEN fetches
                                   ELSE [fetches EXCEPT ![m][i] = Asked]
  /\ inflight' = [inflight EXCEPT ![m] = i]
  /\ UNCHANGED <<cache, held>>

(* A fetch on its way when the key is evicted no longer counts. *)
Outdated(m) == [i \in Slots |-> [fetches[m][i] EXCEPT !.valid = FALSE]]

(* deleteTeamKey *)
Evict(m) ==
  /\ cache' = [cache EXCEPT ![m] = None]
  /\ inflight' = [inflight EXCEPT ![m] = 0]
  /\ fetches' = [fetches EXCEPT ![m] = Outdated(m)]
  /\ UNCHANGED held

(* deleteTeamKey followed by getTeamVaultKey: always a new fetch. *)
EvictAndAsk(m, i) ==
  /\ i \in Free(m) /\ \A j \in Free(m) : i <= j
  /\ cache' = [cache EXCEPT ![m] = None]
  /\ inflight' = [inflight EXCEPT ![m] = i]
  /\ fetches' = [fetches EXCEPT ![m] = [Outdated(m) EXCEPT ![i] = Asked]]
  /\ UNCHANGED held

FetchAnswered(m, i) ==
  /\ fetches[m][i].at = "asked"
  /\ fetches' = [fetches EXCEPT ![m][i].at = "answered", ![m][i].got = Wrapped(m)]
  /\ UNCHANGED <<server, cache, inflight, held, job, pass, told, left>>

(* Without InitOverlaps no key is evicted or fetched while an init holds one. *)
MayChangeKey(m) == InitOverlaps \/ job[m].op # "init" \/ job[m].at = "key"

(* Every caller that joined goes on with the key the fetch brought, before *)
(* anything else runs, or fails with it.                                   *)
JobGoes(m, i, kept) ==
  IF job[m].slot # i THEN job
  ELSE IF kept THEN [job EXCEPT ![m].at = "go", ![m].slot = 0,
                                ![m].pair = fetches[m][i].got]
  ELSE [job EXCEPT ![m] = NoJob]

PassGoes(m, i, kept) ==
  IF pass[m].slot # i THEN pass
  ELSE IF pass[m].at = "encode"      \* the objects fail, the secrets are next
       THEN [pass EXCEPT ![m].at = IF kept THEN "objects" ELSE "secrets",
                         ![m].slot = 0]
  ELSE IF kept THEN [pass EXCEPT ![m].at = "list", ![m].slot = 0,
                                 ![m].pair = fetches[m][i].got]
  ELSE [pass EXCEPT ![m] = NoPass]

(* A fetch that fails stays registered, and is joined for good. *)
FetchLandsPoisoned(m, i) ==
  LET kept == fetches[m][i].valid /\ fetches[m][i].got # None IN
  /\ fetches[m][i].at = "answered" /\ MayChangeKey(m)
  /\ cache' = IF kept THEN [cache EXCEPT ![m] = fetches[m][i].got] ELSE cache
  /\ fetches' = [fetches EXCEPT ![m][i] = NoFetch]
  /\ inflight' = IF kept THEN [inflight EXCEPT ![m] = 0] ELSE inflight
  /\ job' = JobGoes(m, i, kept)
  /\ pass' = PassGoes(m, i, kept)
  /\ UNCHANGED <<server, held, told, left>>

(* Without the generation: an evicted key is put back into the cache. *)
FetchLandsAnyway(m, i) ==
  LET kept == fetches[m][i].got # None IN
  /\ fetches[m][i].at = "answered" /\ MayChangeKey(m)
  /\ cache' = IF kept THEN [cache EXCEPT ![m] = fetches[m][i].got] ELSE cache
  /\ fetches' = [fetches EXCEPT ![m][i] = NoFetch]
  /\ inflight' = [inflight EXCEPT ![m] = 0]
  /\ job' = JobGoes(m, i, kept)
  /\ pass' = PassGoes(m, i, kept)
  /\ UNCHANGED <<server, held, told, left>>

FetchLands(m, i) ==
  LET kept == fetches[m][i].valid /\ fetches[m][i].got # None IN
  /\ fetches[m][i].at = "answered" /\ MayChangeKey(m)
  /\ cache' = IF kept THEN [cache EXCEPT ![m] = fetches[m][i].got] ELSE cache
  /\ fetches' = [fetches EXCEPT ![m][i] = NoFetch]
  /\ inflight' = [inflight EXCEPT ![m] = 0]   \* whichever fetch is registered
  /\ job' = JobGoes(m, i, kept)
  /\ pass' = PassGoes(m, i, kept)
  /\ UNCHANGED <<server, held, told, left>>

-----------------------------------------------------------------------------
(* Saves, keys for newcomers, and the redistribution at a manager's login. *)

Begins(m, op, on) ==
  /\ job[m] = NoJob /\ ~out[m]
  /\ \/ /\ cache[m].key # 0
        /\ job' = [job EXCEPT ![m] = [NoJob EXCEPT !.op = op, !.at = "go",
                                                   !.pair = cache[m], !.on = on]]
        /\ UNCHANGED keys
     \/ /\ cache[m].key = 0
        /\ \E i \in Fetch(m) :
             /\ Asks(m, i)
             /\ job' = [job EXCEPT ![m] = [NoJob EXCEPT !.op = op, !.at = "key",
                                                        !.slot = i, !.on = on]]
  /\ UNCHANGED <<server, pass, told>>

JobEnds(m) == job' = [job EXCEPT ![m] = NoJob]
AtGo(m, op) == job[m].op = op /\ job[m].at = "go"

(* saveTeamVaultObject, saveTeamVaultSecret *)
Save(m, r) ==
  /\ left > 0 /\ left' = left - 1
  /\ Begins(m, "save", {r})

SaveLands(m) ==
  /\ AtGo(m, "save")
  /\ rows' = [r \in Rows |-> IF m \in team /\ r \in job[m].on
                             THEN Labelled(job[m].pair) ELSE rows[r]]
  /\ JobEnds(m)
  /\ UNCHANGED <<epoch, team, stale, wraps, keys, pass, told, left>>

(* Whoever holds the key of some epoch is taken to need none. *)
GrantKeyless(m, x) ==
  /\ m \in team /\ x \in team /\ x # m
  /\ \A e \in 1..MaxEpoch : wraps[e][x] = 0
  /\ Begins(m, "grant", {x})
  /\ UNCHANGED left

(* reconcileTeamVaultKeys found x without a key. *)
Grant(m, x) ==
  /\ m \in team /\ x \in team /\ x # m /\ wraps[epoch][x] = 0
  /\ Begins(m, "grant", {x})
  /\ UNCHANGED left

Wrap(m) ==
  wraps' = [wraps EXCEPT ![epoch] = [x \in Members |->
              IF x \in job[m].on \cap team THEN job[m].pair.key ELSE @[x]]]

GrantLands(m) ==
  /\ AtGo(m, "grant")
  /\ \/ /\ m \in team /\ job[m].pair.ver = epoch
        /\ Wrap(m) /\ JobEnds(m)
        /\ UNCHANGED <<epoch, team, stale, rows, keys>>
     \/ /\ m \in team /\ job[m].pair.ver # epoch /\ ~job[m].again   \* 409
        /\ \E i \in Slots :
             /\ EvictAndAsk(m, i)
             /\ job' = [job EXCEPT ![m].at = "key", ![m].slot = i,
                                   ![m].again = TRUE]
        /\ UNCHANGED server
     \/ /\ m \notin team \/ (job[m].pair.ver # epoch /\ job[m].again)
        /\ JobEnds(m)
        /\ UNCHANGED <<server, keys>>
  /\ UNCHANGED <<pass, told, left>>

(* completeTeamLoginSetup: initTeamVaultKey for the members listed.  Whoever *)
(* holds no key of the epoch would mint one here, which is left out.         *)
Redistribute(m) ==
  /\ m \in Managers \cap team /\ wraps[epoch][m] # 0
  /\ left > 0 /\ left' = left - 1
  /\ Begins(m, "init", team)

(* The key was read before the members' wraps were made, the epoch it is   *)
(* sent under only now.                                                    *)
InitLands(m) ==
  /\ AtGo(m, "init")
  /\ \/ /\ m \in team /\ cache[m].ver = epoch
        /\ Wrap(m)
        /\ job' = [job EXCEPT ![m].at = "answer"]
        /\ UNCHANGED <<epoch, team, stale, rows>>
     \/ /\ m \notin team \/ cache[m].ver # epoch
        /\ JobEnds(m)
        /\ UNCHANGED server
  /\ UNCHANGED <<keys, pass, told, left>>

InitAnswered(m) ==
  /\ job[m].op = "init" /\ job[m].at = "answer"
  /\ cache' = [cache EXCEPT ![m].key = job[m].pair.key]
  /\ late' = IF out[m] THEN late \cup {m} ELSE late
  /\ JobEnds(m)
  /\ UNCHANGED <<server, fetches, inflight, held, pass, out, left>>

-----------------------------------------------------------------------------
(* The pass: checkAndRotateTeamKey, one per client at a time. *)

PassAt(m, at) == pass[m].at = at
PassGoesTo(m, at) == pass' = [pass EXCEPT ![m].at = at]
PassEnds(m) == pass' = [pass EXCEPT ![m] = NoPass]

Check(m) ==
  /\ PassAt(m, "idle") /\ ~out[m] /\ m \in team
  /\ \/ Draining /\ PassGoesTo(m, "drain")
     \/ ~Draining /\ stale /\ PassGoesTo(m, "rotate")
  /\ UNCHANGED <<server, keys, job, told, left>>

ListMembers(m) ==
  /\ PassAt(m, "rotate")
  /\ pass' = [pass EXCEPT ![m].at = "post", ![m].members = team \cup {m}]
  /\ UNCHANGED <<server, keys, job, told, left>>

PostRotation(m) ==
  /\ PassAt(m, "post")
  /\ \/ /\ m \in team /\ epoch < MaxEpoch
        /\ epoch' = epoch + 1 /\ stale' = FALSE
        /\ wraps' = [wraps EXCEPT ![epoch + 1] = [x \in Members |->
                       IF x \in pass[m].members THEN epoch + 1 ELSE 0]]
        /\ pass' = [pass EXCEPT ![m] = [NoPass EXCEPT !.at = "drain"]]
        /\ UNCHANGED <<team, rows>>
     \/ /\ m \notin team \/ epoch = MaxEpoch
        /\ PassEnds(m)
        /\ UNCHANGED server
  /\ UNCHANGED <<keys, job, told, left>>

(* The drain takes the key in memory for the current one. *)
DrainStartsCached(m) ==
  /\ PassAt(m, "drain") /\ MayChangeKey(m)
  /\ \/ /\ cache[m].key # 0
        /\ pass' = [pass EXCEPT ![m].at = "list", ![m].pair = cache[m]]
        /\ UNCHANGED keys
     \/ /\ cache[m].key = 0
        /\ \E i \in Fetch(m) :
             /\ Asks(m, i)
             /\ pass' = [pass EXCEPT ![m].at = "key", ![m].slot = i]
  /\ UNCHANGED <<server, job, told, left>>

DrainStarts(m) ==
  /\ PassAt(m, "drain") /\ MayChangeKey(m)
  /\ \E i \in Slots :
       /\ EvictAndAsk(m, i)
       /\ pass' = [pass EXCEPT ![m].at = "key", ![m].slot = i]
  /\ UNCHANGED <<server, job, told, left>>

DrainLists(m) ==
  /\ PassAt(m, "list")
  /\ \/ /\ m \in team
        /\ pass' = [pass EXCEPT ![m].at = "objects", ![m].listed = rows]
     \/ m \notin team /\ PassEnds(m)
  /\ UNCHANGED <<server, keys, job, told, left>>

(* Listed rows of one kind that are strictly behind, and the epochs of them. *)
Behind(m, kind) == {r \in kind : pass[m].listed[r].ver < pass[m].pair.ver}
EpochsOf(m, R) == {pass[m].listed[r].ver : r \in R}

OldObjects(m) == {r \in Behind(m, Objects) : Opens(m, pass[m].listed[r])}
OldSecrets(m) == {r \in Behind(m, Secrets) :
                    KeyAt(m, pass[m].listed[r].ver) = pass[m].listed[r].key}

(* Objects go under the key in memory by now, fetched again if it is gone. *)
EncodeObjects(m) ==
  /\ PassAt(m, "objects")
  /\ \/ /\ Behind(m, Objects) # {} /\ cache[m].key = 0
        /\ \E i \in Fetch(m) :
             /\ Asks(m, i)
             /\ pass' = [pass EXCEPT ![m].at = "encode", ![m].slot = i]
     \/ /\ Behind(m, Objects) = {} \/ cache[m].key # 0
        /\ Holds(m, {v \in EpochsOf(m, Behind(m, Objects)) : ~IsCurrent(m, v)})
        /\ pass' = IF OldObjects(m) = {}
                   THEN [pass EXCEPT ![m].at = "secrets"]
                   ELSE [pass EXCEPT ![m].at = "put",
                                     ![m].put = Labelled(cache[m]),
                                     ![m].items = OldObjects(m)]
        /\ UNCHANGED <<cache, fetches, inflight>>
  /\ UNCHANGED <<server, job, told, left>>

(* Secrets go under the key in memory, labelled with the drain's epoch. *)
EncodeSecretsUnderCached(m) ==
  /\ PassAt(m, "secrets")
  /\ Holds(m, EpochsOf(m, Behind(m, Secrets)))
  /\ IF OldSecrets(m) = {} \/ cache[m].key = 0
     THEN PassEnds(m)
     ELSE pass' = [pass EXCEPT ![m].at = "put",
                               ![m].put = [pass[m].pair EXCEPT !.key = cache[m].key],
                               ![m].items = OldSecrets(m)]
  /\ UNCHANGED <<server, cache, fetches, inflight, job, told, left>>

(* Secrets go under the key the drain began with. *)
EncodeSecrets(m) ==
  /\ PassAt(m, "secrets")
  /\ Holds(m, EpochsOf(m, Behind(m, Secrets)))
  /\ IF OldSecrets(m) = {}
     THEN PassEnds(m)
     ELSE pass' = [pass EXCEPT ![m].at = "put", ![m].put = pass[m].pair,
                               ![m].items = OldSecrets(m)]
  /\ UNCHANGED <<server, cache, fetches, inflight, job, told, left>>

(* reencryptTeamObjects, reencryptTeamSecrets: a batch that fails is logged. *)
Reencrypt(m) ==
  /\ PassAt(m, "put")
  /\ rows' = [r \in Rows |-> IF m \in team /\ r \in pass[m].items
                             THEN pass[m].put ELSE rows[r]]
  /\ IF pass[m].items \subseteq Objects
     THEN pass' = [pass EXCEPT ![m].at = "secrets", ![m].put = None, ![m].items = {}]
     ELSE PassEnds(m)
  /\ UNCHANGED <<epoch, team, stale, wraps, keys, job, told, left>>

(* A request of the pass fails; the next check takes up what is left. *)
PassFails(m) ==
  /\ pass[m].at \in {"rotate", "post", "list"}
  /\ left > 0 /\ left' = left - 1
  /\ PassEnds(m)
  /\ UNCHANGED <<server, keys, job, told>>

-----------------------------------------------------------------------------
(* Membership. *)

Remove(x) ==
  /\ x \in team \ {Owner}
  /\ left > 0 /\ left' = left - 1
  /\ team' = team \ {x} /\ stale' = TRUE
  /\ wraps' = [e \in 1..MaxEpoch |-> [wraps[e] EXCEPT ![x] = 0]]
  /\ UNCHANGED <<epoch, rows, keys, job, pass, told>>

(* Somebody else loses access to the secrets: another member leaves, or is *)
(* denied them by a change of permissions.                                 *)
AccessEnds ==
  /\ left > 0 /\ left' = left - 1
  /\ ~stale /\ stale' = TRUE
  /\ UNCHANGED <<epoch, team, wraps, rows, keys, job, pass, told>>

(* offboardFromTeam *)
Offboard(m) ==
  /\ m \notin team /\ ~out[m] /\ MayChangeKey(m)
  /\ Evict(m)
  /\ out' = [out EXCEPT ![m] = TRUE]
  /\ UNCHANGED <<server, job, pass, late, left>>

Add(x) ==
  /\ x \in Members \ team /\ out[x]
  /\ left > 0 /\ left' = left - 1
  /\ team' = team \cup {x}
  /\ out' = [out EXCEPT ![x] = FALSE] /\ late' = late \ {x}
  /\ UNCHANGED <<epoch, stale, wraps, rows, keys, job, pass>>

-----------------------------------------------------------------------------
JobStep(m) == SaveLands(m) \/ GrantLands(m) \/ InitLands(m) \/ InitAnswered(m)

PassStep(m) ==
  \/ ListMembers(m) \/ PostRotation(m) \/ DrainStarts(m) \/ DrainLists(m)
  \/ EncodeObjects(m) \/ EncodeSecrets(m) \/ Reencrypt(m)

Next ==
  \/ \E m \in Members :
       \/ \E i \in Slots : FetchAnswered(m, i) \/ FetchLands(m, i)
       \/ \E r \in Rows : Save(m, r)
       \/ \E x \in Members : Grant(m, x)
       \/ Redistribute(m) \/ Check(m) \/ PassFails(m) \/ Offboard(m)
       \/ JobStep(m) \/ PassStep(m)
  \/ \E x \in Members : Remove(x) \/ Add(x)
  \/ AccessEnds

Spec == Init /\ [][Next]_vars

(* Requests are answered and clients go on; the owner is told of changes   *)
(* of the team, or logs in, again and again (handleRealtimeEvent,          *)
(* onTeamLogin): it then reconciles the keys and checks the rotation.      *)
Fairness ==
  /\ \A m \in Members :
       /\ \A i \in Slots : WF_vars(FetchAnswered(m, i)) /\ WF_vars(FetchLands(m, i))
       /\ WF_vars(JobStep(m)) /\ WF_vars(PassStep(m))
  /\ WF_vars(Check(Owner))
  /\ WF_vars(\E x \in Members : Grant(Owner, x))

FairSpec == Spec /\ Fairness
-----------------------------------------------------------------------------
(* Every variable keeps to its type, a task that waits for a key waits for *)
(* a fetch on its way, and so does the next caller of getTeamVaultKey.     *)
TypeOK ==
  /\ epoch \in 1..MaxEpoch /\ team \subseteq Members /\ stale \in BOOLEAN
  /\ wraps \in [1..MaxEpoch -> [Members -> Keys]] /\ rows \in [Rows -> Pair]
  /\ cache \in [Members -> Pair] /\ inflight \in [Members -> Slots \cup {0}]
  /\ held \in [Members -> [1..MaxEpoch -> Keys]] /\ late \subseteq Members
  /\ fetches \in [Members -> [Slots -> [at: {"none", "asked", "answered"},
                                        got: Pair, valid: BOOLEAN]]]
  /\ \A m \in Members :
       /\ job[m].at = "key" <=> job[m].slot # 0
       /\ pass[m].at \in {"key", "encode"} <=> pass[m].slot # 0
       /\ \A i \in {job[m].slot, pass[m].slot, inflight[m]} \ {0} :
            fetches[m][i].at # "none"

(* What the server keeps under an epoch is under that epoch's key: no row  *)
(* is written with another key than its label names, by a save, a drain or *)
(* a rotation overtaken by another (encodeObjectMetadata reads the key and *)
(* its version for the label separately), and no member is handed a key of *)
(* an older epoch as the current one (distributeKeyToNewMember).           *)
KeysAreTheirEpochs ==
  /\ \A r \in Rows : rows[r].key = rows[r].ver
  /\ \A e \in 1..MaxEpoch, x \in Members : wraps[e][x] \in {0, e}

(* A client that was told of its removal holds the current key no more: a  *)
(* fetch on its way when the key was evicted does not bring it back        *)
(* (teamVaultSync.ts, _teamKeyGeneration), nor does a drain, a save or a   *)
(* grant that goes on; an init answered since is the one way back.  The    *)
(* keys held for older epochs are kept on purpose.                         *)
KickedHoldsNoKey == \A m \in Members : out[m] /\ m \notin late => cache[m] = None

(* "Evict the in-memory vault key immediately so the kicked member can't   *)
(* use a cached key to decrypt data after losing access." (sync.ts:1134)   *)
KickedIsKeyless == \A m \in Members : out[m] => cache[m].key = 0

(* "a caller can never read a key and a version that disagree"             *)
(* (teamVaultSync.ts:59-60): the cached key is that of the cached epoch.   *)
CacheInLockstep == \A m \in Members : cache[m].ver # 0 => cache[m].key = cache[m].ver

(* A rotation comes to its end: once the team changes no more, the key has *)
(* been replaced (or MaxEpoch is reached) and every row lies under it,     *)
(* whichever clients rotated or drained at once or gave up half-way.       *)
RotationCompletes == <>[](~Draining /\ (stale => epoch = MaxEpoch))

(* Everyone on the team comes to hold the current key, also who joined     *)
(* while it was rotated and whose key was first wrapped from an old one.   *)
NewcomersGetTheKey == <>[](\A x \in team : wraps[epoch][x] = epoch)
=============================================================================
