------------------------------ MODULE CloudSync ------------------------------
(***************************************************************************)
(* A Pro account's devices syncing through the server: each uploads a blob *)
(* of its own state, downloads the others' and merges them (pull, merge    *)
(* and push of src/services/sync.ts, and settledBlobs.ts).  SyncEngine     *)
(* models when a device starts a round; here a round that is due starts.   *)
(*                                                                         *)
(* A device's state is one row.  Merge and Differs are what crdt.ts does   *)
(* with it, Edits what a local command may make of it, so that the same    *)
(* protocol is checked over entities and over secrets.                     *)
(***************************************************************************)
EXTENDS FiniteSetsExt

CONSTANTS Devices,
          Merge(_, _),   \* mergeEntities, or mergeSecrets
          Differs(_, _), \* entitiesDiffer, or secretsDiffer
          Clocked(_),    \* what of a row is written under a clock of its own
          Edits(_),      \* the rows a local command may leave of a row
          First,         \* the row all devices hold when the history begins
          Missing,       \* no row: nothing downloaded, nothing read
          Restarts,      \* devices whose app may be restarted
          Flaky,         \* devices that may lose the server
          EditsInWindow, \* TRUE: a command may write while a merge is under way
          Faults         \* TRUE: a download or a local write may fail

ASSUME CloudAssumption == /\ IsFiniteSet(Devices)
                          /\ Restarts \subseteq Devices /\ Flaky \subseteq Devices
                          /\ EditsInWindow \in BOOLEAN
                          /\ Faults \in BOOLEAN

VARIABLES
  row,      \* row[d]: the state on d's disk
  blob,     \* blob[d]: d's blob on the server
  settled,  \* settled[d]: whose blobs, in the version the server has, d has merged
  phase,    \* where d's round is
  must,     \* mustPush of the round
  todo,     \* todo[d]: listed and not downloaded yet
  current,  \* current[d]: listed in the version the server still has
  got,      \* got[d]: the payloads downloaded, by device
  base,     \* base[d]: what the merge under way read, then what it exports
  login,    \* login[d]: the launch sync is due
  owed,     \* owed[d]: a local change is to be pushed
  nudged,   \* nudged[d]: a sync was asked for by the stream
  online

round == <<phase, must, todo, current, got, base>>
asked == <<login, owed, nudged>>
vars  == <<row, blob, settled, round, asked, online>>

\* The devices have synced; some of them are just being launched.
Init ==
  /\ row     = [d \in Devices |-> First]
  /\ blob    = [d \in Devices |-> First]
  /\ settled = [d \in Devices |-> IF d \in Restarts THEN {} ELSE Devices \ {d}]
  /\ phase   = [d \in Devices |-> "idle"]
  /\ must    = [d \in Devices |-> FALSE]
  /\ todo    = [d \in Devices |-> {}]
  /\ current = [d \in Devices |-> {}]
  /\ got     = [d \in Devices |-> [e \in Devices |-> Missing]]
  /\ base    = [d \in Devices |-> Missing]
  /\ login   = [d \in Devices |-> d \in Restarts]
  /\ owed    = [d \in Devices |-> FALSE]
  /\ nudged  = [d \in Devices |-> FALSE]
  /\ online  = [d \in Devices |-> TRUE]

\* A local command; scheduleSync asks for a push.
Edit(d) ==
  /\ EditsInWindow \/ phase[d] # "import"
  /\ \E r \in Edits(row[d]) : row' = [row EXCEPT ![d] = r]
  /\ owed' = [owed EXCEPT ![d] = TRUE]
  /\ UNCHANGED <<blob, settled, round, login, nudged, online>>

DoneKeepsPayloads(d) == \* mutant: what was downloaded is left for the next round
  /\ phase'   = [phase EXCEPT ![d] = "idle"]
  /\ must'    = [must EXCEPT ![d] = FALSE]
  /\ todo'    = [todo EXCEPT ![d] = {}]
  /\ current' = [current EXCEPT ![d] = {}]
  /\ base'    = [base EXCEPT ![d] = Missing]
  /\ UNCHANGED got

Done(d) == /\ phase'   = [phase EXCEPT ![d] = "idle"]
           /\ must'    = [must EXCEPT ![d] = FALSE]
           /\ todo'    = [todo EXCEPT ![d] = {}]
           /\ current' = [current EXCEPT ![d] = {}]
           /\ got'     = [got EXCEPT ![d] = [e \in Devices |-> Missing]]
           /\ base'    = [base EXCEPT ![d] = Missing]

(***************************************************************************)
(* A round: list, download, merge, push                                    *)
(***************************************************************************)

\* The launch sync takes every blob, its own too, and always pushes; any other
\* round takes the others' unsettled blobs, and pushes if a push is owed.
Start(d) ==
  /\ phase[d] = "idle" /\ online[d]
  /\ login[d] \/ owed[d] \/ nudged[d]
  /\ LET list == IF login[d] THEN Devices ELSE Devices \ (settled[d] \union {d}) IN
       /\ todo'    = [todo EXCEPT ![d] = list]
       /\ current' = [current EXCEPT ![d] = list]
  /\ must'   = [must EXCEPT ![d] = login[d] \/ owed[d]]
  /\ phase'  = [phase EXCEPT ![d] = "pull"]
  /\ login'  = [login EXCEPT ![d] = FALSE]
  /\ owed'   = [owed EXCEPT ![d] = FALSE]
  /\ nudged' = [nudged EXCEPT ![d] = FALSE]
  /\ UNCHANGED <<row, blob, settled, got, base, online>>

\* The blob that comes back may be newer than the one listed.
Download(d, e) ==
  /\ phase[d] = "pull" /\ e \in todo[d] /\ online[d]
  /\ todo' = [todo EXCEPT ![d] = @ \ {e}]
  /\ got'  = [got EXCEPT ![d][e] = blob[e]]
  /\ UNCHANGED <<row, blob, settled, phase, must, current, base, asked, online>>

\* A device that fails is skipped, and not settled.
SkipDownload(d, e) ==
  /\ phase[d] = "pull" /\ e \in todo[d]
  /\ Faults \/ ~online[d]
  /\ todo' = [todo EXCEPT ![d] = @ \ {e}]
  /\ UNCHANGED <<row, blob, settled, phase, must, current, got, base, asked, online>>

Fetched(d) == {e \in Devices : got[d][e] # Missing}

\* mergePayloadsInto: one merge after the other, `changed` if any of them was.
MergeStep(acc, r) == LET m == Merge(acc.row, r) IN
                     [row |-> m, changed |-> acc.changed \/ Differs(acc.row, m)]
MergedIntoUploaded(r, d) == \* mutant: the merge starts from the device's own blob
  FoldSet(LAMBDA e, acc : MergeStep(acc, got[d][e]),
          [row |-> blob[d], changed |-> FALSE], Fetched(d))

MergedInto(r, d) == FoldSet(LAMBDA e, acc : MergeStep(acc, got[d][e]),
                            [row |-> r, changed |-> FALSE], Fetched(d))

\* state_export_raw, inside serialMerge.
ReadBase(d) ==
  /\ phase[d] = "pull" /\ todo[d] = {}
  /\ phase' = [phase EXCEPT ![d] = "import"]
  /\ base'  = [base EXCEPT ![d] = row[d]]
  /\ UNCHANGED <<row, blob, settled, must, todo, current, got, asked, online>>

ImportSettlesFetched(d) == \* mutant: a blob replaced since the listing is settled
  /\ phase[d] = "import"
  /\ LET m == MergedInto(base[d], d) IN
       /\ row' = [row EXCEPT ![d] = IF m.changed THEN m.row ELSE @]
       /\ settled' = [settled EXCEPT ![d] = @ \union Fetched(d)]
       /\ \/ /\ must[d] \/ m.changed
             /\ phase' = [phase EXCEPT ![d] = "export"]
             /\ UNCHANGED <<must, todo, current, got, base>>
          \/ ~(must[d] \/ m.changed) /\ Done(d)
  /\ UNCHANGED <<blob, asked, online>>

ImportAlwaysPushes(d) == \* mutant: `changed` is not looked at
  /\ phase[d] = "import"
  /\ LET m == MergedInto(base[d], d) IN
       /\ row' = [row EXCEPT ![d] = IF m.changed THEN m.row ELSE @]
       /\ settled' = [settled EXCEPT ![d] = @ \union (Fetched(d) \intersect current[d])]
       /\ phase' = [phase EXCEPT ![d] = "export"]
       /\ UNCHANGED <<must, todo, current, got, base>>
  /\ UNCHANGED <<blob, asked, online>>

\* state_import writes whole files, and only what changed something; then the
\* versions that were listed are settled, and the round pushes or is over.
Import(d) ==
  /\ phase[d] = "import"
  /\ LET m == MergedInto(base[d], d) IN
       /\ row' = [row EXCEPT ![d] = IF m.changed THEN m.row ELSE @]
       /\ settled' = [settled EXCEPT ![d] = @ \union (Fetched(d) \intersect current[d])]
       /\ \/ /\ must[d] \/ m.changed
             /\ phase' = [phase EXCEPT ![d] = "export"]
             /\ UNCHANGED <<must, todo, current, got, base>>
          \/ ~(must[d] \/ m.changed) /\ Done(d)
  /\ UNCHANGED <<blob, asked, online>>

\* A local write fails: nothing is settled, the push stays owed.
ImportFails(d) ==
  /\ Faults
  /\ phase[d] = "import"
  /\ owed'   = [owed EXCEPT ![d] = @ \/ must[d]]
  /\ nudged' = [nudged EXCEPT ![d] = FALSE]
  /\ Done(d)
  /\ UNCHANGED <<row, blob, settled, login, online>>

Export(d) ==
  /\ phase[d] = "export"
  /\ phase' = [phase EXCEPT ![d] = "push"]
  /\ base'  = [base EXCEPT ![d] = row[d]]
  /\ UNCHANGED <<row, blob, settled, must, todo, current, got, asked, online>>

ArrivesUnnoticed(d) == \* mutant: the PUT leaves the blob's version as it was
  /\ phase[d] = "push" /\ online[d]
  /\ blob'   = [blob EXCEPT ![d] = base[d]]
  /\ nudged' = [x \in Devices |-> nudged[x] \/ (x # d /\ online[x])]
  /\ Done(d)
  /\ UNCHANGED <<row, settled, login>>

\* The PUT gives the blob a new version, and the server tells the open streams.
Arrives(d) ==
  /\ phase[d] = "push" /\ online[d]
  /\ blob'    = [blob EXCEPT ![d] = base[d]]
  /\ settled' = [x \in Devices |-> settled[x] \ {d}]
  /\ nudged'  = [x \in Devices |-> nudged[x] \/ (x # d /\ online[x])]
  /\ phase'   = [phase EXCEPT ![d] = "idle"]
  /\ must'    = [must EXCEPT ![d] = FALSE]
  /\ todo'    = [todo EXCEPT ![d] = {}]
  /\ current' = [x \in Devices |-> IF x = d THEN {} ELSE current[x] \ {d}]
  /\ got'     = [got EXCEPT ![d] = [e \in Devices |-> Missing]]
  /\ base'    = [base EXCEPT ![d] = Missing]
  /\ UNCHANGED <<row, login>>

Push(d) == Arrives(d) /\ UNCHANGED <<owed, online>>

\* The blob arrived, the answer did not: the push stays owed.
PushUnanswered(d) ==
  /\ d \in Flaky
  /\ Arrives(d)
  /\ owed'   = [owed EXCEPT ![d] = @ \/ must[d]]
  /\ online' = [online EXCEPT ![d] = FALSE]

\* The server was not reached; what was asked for during the round is dropped.
PushFails(d) ==
  /\ phase[d] = "push" /\ ~online[d]
  /\ owed'   = [owed EXCEPT ![d] = @ \/ must[d]]
  /\ nudged' = [nudged EXCEPT ![d] = FALSE]
  /\ Done(d)
  /\ UNCHANGED <<row, blob, settled, login, online>>

(***************************************************************************)
(* The network and the process                                             *)
(***************************************************************************)

Disconnect(d) ==
  /\ d \in Flaky
  /\ online[d]
  /\ online' = [online EXCEPT ![d] = FALSE]
  /\ UNCHANGED <<row, blob, settled, round, asked>>

ReconnectWithoutCatchUp(d) == \* mutant: an opened stream waits for the next event
  /\ ~online[d]
  /\ online' = [online EXCEPT ![d] = TRUE]
  /\ UNCHANGED <<row, blob, settled, round, asked>>

\* Events missed meanwhile are gone; an opened stream catches up with a sync.
Reconnect(d) ==
  /\ ~online[d]
  /\ online' = [online EXCEPT ![d] = TRUE]
  /\ nudged' = [nudged EXCEPT ![d] = TRUE]
  /\ UNCHANGED <<row, blob, settled, round, login, owed>>

\* What is settled and what is owed are in memory only.
Restart(d) ==
  /\ d \in Restarts
  /\ Done(d)
  /\ settled' = [settled EXCEPT ![d] = {}]
  /\ owed'    = [owed EXCEPT ![d] = FALSE]
  /\ nudged'  = [nudged EXCEPT ![d] = FALSE]
  /\ login'   = [login EXCEPT ![d] = TRUE]
  /\ UNCHANGED <<row, blob, online>>

SyncStep(d) ==
  \/ Start(d) \/ ReadBase(d) \/ Import(d) \/ ImportFails(d)
  \/ Export(d) \/ Push(d) \/ PushFails(d)
  \/ \E e \in Devices : Download(d, e) \/ SkipDownload(d, e)

Disturb(d) == Edit(d) \/ PushUnanswered(d) \/ Disconnect(d) \/ Restart(d)

Next == \E d \in Devices : SyncStep(d) \/ Disturb(d) \/ Reconnect(d)

Spec == Init /\ [][Next]_vars

\* A round's requests and writes end; networks and users are free.
Fairness == \A d \in Devices : WF_vars(SyncStep(d))
FairSpec == Spec /\ Fairness

(***************************************************************************)
(* Properties.  Merging r into a row that has all of r changes nothing of  *)
(* what is clocked.  (An edit without a clock is not one write of several  *)
(* for a merge to order: it may be found anywhere, or nowhere.)            *)
(***************************************************************************)

Has(r, part) == Clocked(Merge(r, part)) = Clocked(r)

\* Between rounds nothing of a round is left, and a merge reads only what was
\* listed.
TypeOK ==
  /\ \A d \in Devices :
       /\ phase[d] \in {"idle", "pull", "import", "export", "push"}
       /\ settled[d] \subseteq Devices /\ current[d] \subseteq Devices
       /\ phase[d] = "idle" =>
            todo[d] = {} /\ current[d] = {} /\ Fetched(d) = {} /\ ~must[d]
       /\ phase[d] # "pull" => todo[d] = {}
       /\ todo[d] \intersect Fetched(d) = {}
       /\ {must[d], login[d], owed[d], nudged[d], online[d]} \subseteq BOOLEAN

\* A blob that is not downloaded again has been merged: what it holds is here,
\* although it may have been replaced between the listing, the download and
\* the merge.
SettledMeansMerged == \A d \in Devices : \A e \in settled[d] : Has(row[d], blob[e])

\* "every read-merge-write of local state runs here, one at a time": no step
\* takes a write back from a device's own state.
WritesAreKept == [][\A d \in Devices : Has(row'[d], row[d])]_vars

\* "so both devices converge on the same result": two devices that have merged
\* everybody's latest blob, and have nothing left to do, hold the same clocks and
\* clocked values.  (Each other's blob is not enough: one may hold what it merged
\* from a third and could not push, while the other has skipped that third.)
Rests(d) == online[d] /\ phase[d] = "idle" /\ ~login[d] /\ ~owed[d] /\ ~nudged[d]
AllSettled(d) == Devices \ {d} \subseteq settled[d]
SettledDevicesAgree ==
  \A d, e \in Devices :
    Rests(d) /\ Rests(e) /\ AllSettled(d) /\ AllSettled(e) =>
      Clocked(row[d]) = Clocked(row[e])

\* "content edits within the same ids sync via each element's own mechanism": the
\* same devices hold the same row, unclocked edits included.
EveryEditSyncs ==
  \A d, e \in Devices :
    Rests(d) /\ Rests(e) /\ AllSettled(d) /\ AllSettled(e) => ~Differs(row[d], row[e])

\* "so both devices converge on the same result": the same devices hold the same
\* secret under the same clock.
SettledDevicesConverge ==
  \A d, e \in Devices :
    Rests(d) /\ Rests(e) /\ AllSettled(d) /\ AllSettled(e) => row[d] = row[e]

Calm == <>[][\A d \in Devices : ~Disturb(d)]_vars

\* Two devices that stay online end up with the same clocked values, even if a third
\* that wrote has gone.
OnlineDevicesAgree ==
  Calm => \A d, e \in Devices :
    <>[](online[d] /\ online[e]) => <>[](Clocked(row[d]) = Clocked(row[e]))

\* "preventing infinite loops": blobs that nudge devices that push blobs come
\* to an end.
PushLoopEnds == Calm => <>[](\A d \in Devices : phase[d] = "idle")
=============================================================================
