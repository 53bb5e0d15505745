# Voltius: a TLA+ model

Voltius is a terminal client: tabs over SSH and local shells, and behind them a
local-first store of hosts, keys, snippets and secrets that devices synchronise
without a central truth, under accounts that can be switched and teams that
share an encrypted vault. This directory models the parts of it whose
correctness is a matter of order: what is merged with what, which of two
commands lands first, what a step finds after an `await`. Paths below are
relative to the repository root.

Read the sync core first (`Crdt`, `EntityReplicas`, `SyncEngine`, `CloudSync`);
the other modules (`TerminalOutput`, `SessionTab`, `AccountSwitch`,
`SessionTokens`, `TeamKeys`) stand on their own. Every module's head says which
files it is about.

## 1. Inventory

### Merge rules (`src/services/crdt.ts`)
*State*: none; rows carry one clock per synced field, `__deleted__` among them.
*Operations*: `mergeTwo` per field, `mergeEntities` per collection,
`mergeSecrets`, and the `differ` tests that decide whether anything is written
and pushed.
*Hard*: ties, values an older version dropped, clocks behind each other, a
difference test that is coarser than what it guards.
*Correct when*: the row a device holds depends on what it has learnt and not on
the order or the relay it learnt it through, and no merge takes a clock back.

### Vault objects (`src-tauri/src/commands/vault_object.rs` and the entity commands)
*State*: one JSON file per collection, rewritten whole by every command.
*Operations*: create, update, delete (a tombstone), refile into a folder,
one-field commands, adoption of team rows, the sweep of a deleted folder.
*Hard*: commands act on copies that may be stale (a form or a list opened before
a merge), tombstones that meet later edits, versions of different age, and lists
(`env_vars`, `jump_hosts`) whose elements are edited without a new clock.
*Correct when*: a row is shown exactly when no delete is newer than every write
known to the device, on each device alike.

### Sync engine (`src/services/sync.ts`)
*State*: module-level flags: `_status`, `_syncInFlight`, `_pushOwed`,
`_loginSyncOwed`, `_syncOwed`, `_syncTimer`, `_halted`, the realtime loop's
controllers. Nothing is persisted.
*Operations*: `scheduleSync`, `syncNow`, `syncOnLogin`, `setSyncPaused`,
`haltSync` / `resumeSync`, the event stream with its catch-up and retry.
*Interaction*: stores call `scheduleSync` after a command; the stream calls
`syncNow` on an event; an account switch flushes and halts; `SplashScreen`
starts it all.
*Hard*: each `await` lets another caller in; servers vanish between a request
and its answer; two syncs of one device overlap; flags outlive their reason.
*Correct when*: a local edit is never forgotten, it reaches the server once that
is possible, and "offline" is only shown while a retry is coming.

### Sync protocol (`sync.ts`, `settledBlobs.ts`, `commands/sync.rs`)
*State*: one blob per device on the server with its version, the set of versions
each device has merged (memory only), the device files.
*Operations*: list, download, merge (read, merge, write inside `serialMerge`),
export, PUT, event.
*Hard*: a blob replaced between listing and download, a local write between the
read and the write of a merge, missed events, lost answers, restarts.
*Correct when*: a blob that will not be downloaded again has been merged,
devices with nothing left to do agree, and the chain push, event, pull, push
comes to an end.

### Secret store (`src-tauri/src/storage/secrets.rs`)
*State*: values and clocks by key; a clock without a value is a tombstone.
*Operations*: set, delete, replace all (the import of a merge), purge.
*Correct when*: as for rows, with one value instead of fields.

### Terminal output (`src-tauri/src/terminal_output.rs`, `src/services/terminalOutput.ts`)
*State*: in the backend a map of streams by session, each with a sink, a gate,
a batch, a held close and a flush task; in the window one channel per session,
shared by the terminal and the plugins.
*Operations*: `gate`, `release`, `output`, `closed`, `attach`, `detach`,
`remove`; `subscribe` and its release.
*Interaction*: the reader thread of a shell or the I/O task of an SSH channel
emits; the commands `terminal_output_attach`, `_detach` and `local_ready` come
from the window and may overtake each other.
*Hard*: `emit_output` looks the stream up before it takes its lock; the flush
task holds a stream that may have left the map; a detach may land after the
next attach.
*Correct when*: a subscriber hears, in order and without a gap, everything that
begins to be emitted while it is attached, and a close last.

### Session tabs and reconnects (`stores/sessionStore.ts`, `stores/reconnectBackoffCore.ts`, `reconnectBackoff.ts`)
*State*: the status of each tab; a generation and a waker per session; a chain of
connects per session (`withSessionConnectLock`); in the backend the transports by
session id (`ssh/session.rs`). *Operations*: connect, restore at launch, reconnect
by hand (three ways), the backoff loop with its wakes, close events, closing a
tab, network signals. *Hard*: a loop asleep or in an attempt is superseded; a
close event does not say which transport it is about; commands and their answers
cross. *Correct when*: a tab that shows "connecting" is being worked on, a
"connected" one has a transport, and a closed one leaves nothing behind.

### Account switch and profiles (`src/services/savedAccounts.ts`, `src-tauri/src/storage/profile.rs`)
*State*: the saved accounts, the keychain, the files in place and those parked per
account, the account the window has in memory. *Operations*: launch, unlock, sign
in, sign out, save, add, remove, switch; in the backend `swap` (a sequence of
renames with an undo) and `drop_parked`. *Hard*: any rename may fail, or its undo;
the process may end between two; the keychain is written value by value; an
account may be signed in to while its files are parked. *Correct when*: nothing an
account has on the device is lost or becomes unreachable, and a session works on
its own files only.

### Session tokens (`src/services/authTokens.ts`, `authFetch.ts`, `account.ts`)
*State*: access and refresh token in the keychain, `revoked`, the toast.
*Operations*: a request with its refresh, `adoptSessionTokens`, the notice of a
revoked session, the quiet check of the unlock page.
*Hard*: every keychain access is an `await`; a pair is replaced while a refresh
of the old one is under way; the notice waits for its imports.
*Correct when*: nothing is held against a session the server honours, and the
user hears of one it does not.

### Team key rotation (`src/services/teamKeyRotation.ts`, `teamVaultSync.ts`)
*State*: on the server the epoch of the key, a wrapped key per epoch and member,
rows under the key of some epoch; in each client a cached key with its version,
the keys of older epochs it has fetched, fetches on their way and a generation.
*Operations*: fetch, evict, rotate, drain, save, wrap for a newcomer, the
redistribution at the login of the owner or a manager, removal from the team.
*Hard*: several clients rotate and drain at once; a key changes between two
awaits; a fetch outlives the membership it was made under.
*Correct when*: every row lies under the key its label names, a removed client
does not get the current key back, and a rotation reaches every row and every
member.

### Not modelled

| Part | Where | Why |
| --- | --- | --- |
| LAN sync | `lan_sync/`, `lanSync.ts` | its merges are those of the sync protocol; the rest is sockets and handshakes |
| Team vaults | `teamVaultSync.ts`, `teamObjects.ts` | a server outside the repository resolves the edits; what concerns keys is in `TeamKeys` |
| File transfers | `transferQueueStore.ts`, `sftp/` | a list whose entries do not depend on each other, over commands that copy files; a candidate for later |
| Settings sync | `services/user-data/` | per-domain bundles by timestamp; a candidate for later |
| Device files | `device_files/` | requests and approvals over LAN sync |
| Port forwarding, FTP, WebDAV, serial, docker, Proxmox, proxy | `src-tauri/src/` | adapters over external protocols: I/O with little state |
| Encryption | `crates/voltius-crypto` | pure functions; their properties are cryptographic |
| Sync providers, plugins, MCP server, import, user interface | various | I/O, parsing and presentation |

`PROJECT.json` lists these with their sources, maps every definition to the
lines it models, and names under `hazards` the lines a test would hardly reach.

## 2. The modules

| Module | Models | Extends |
| --- | --- | --- |
| `Crdt` | merge rules and row edits, pure operators | |
| `EntityReplicas` | one row on several devices: the commands, and merges of any copy at any time | `Crdt` |
| `SyncEngine` | the control state of `sync.ts` on one device | |
| `CloudSync` | devices, blobs and the server, over an abstract row | |
| `MCEntitySync`, `MCSecretSync` | `CloudSync` over an entity, over a secret | `CloudSync`, `Crdt` |
| `MCEntityReplicas`, `MCSyncEngine` | constants for TLC | |
| `OutputPromise` | what the output of a session promises a subscriber | |
| `TerminalOutput` | the streams and the channel that keep it | instantiates `OutputPromise` |
| `SessionTab` | one SSH tab, its loops, connects and transports | |
| `AccountSwitch` | several accounts on one device and the moves of their files | |
| `SessionTokens` | the token pair under refreshes and adoptions | |
| `TeamKeys` | the key of a team vault on the server and in each client | |
| `EntityReplicasProofs`, `SyncEngineProofs`, `TerminalOutputProofs`, `SessionTabProofs`, `SessionTokensProofs`, `AccountSwitchProofs`, `TeamKeysProofs` | theorems | the module named, TLAPS |
| `CloudSyncProofs` | theorems about `CloudSync`, about entities and about secrets | `MCEntitySync`, TLAPS |

### `Crdt`: data
A row maps each synced field, and `Deleted` for `deleted_at`, to a cell
`[clock, val]`. Stamps are naturals, 0 for the empty clock. Values are naturals
in the order of their JSON text, because that is what settles a tie; 0 is
`undefined`, a key the serialised row does not carry, and `Null` (an explicit
`deleted_at: null`) is above every stamp, as `null` sorts after a quoted string.
`updated_at` is not stored: every writer sets it to the row's newest clock, so
`Alive` computes it. Some details of the code are worth knowing. The merge of a
tied clock keeps a copy that has no value. `finish_update` clears `deleted_at`
and leaves its clock alone (the edit wins by `updated_at`). A refile stamps its
field whether or not it changed, as `connection_set_distro` does with the icon it
may set beside (`StampFields`). And the fields in `ById` are lists whose elements
have ids of their own (`env_vars`, `jump_hosts`): `bump_changed_clocks` compares
the ids and their order only (`Ids`), so an element edited in place is stored
under the clock that was there (`Changes`, `Bump`). Nothing else carries a clock
for it, and what becomes of such an edit is left to the tie of values: what the
properties say of values is said of clocked ones, and `EnvEdit.cfg` shows the rest.

### `EntityReplicas`: commands and merges without a protocol
`Create`, `SaveForm`, `Delete` and `Refile` (every command that stamps a field or
two by itself) are the commands, `SaveAnotherRow` any
other save of the same file (it matters on an old version, which drops the
fields it does not know), and `MergeFrom` merges the copy of another device. It
says less than the protocol and so allows more: any device may merge any other
at any time. `seen` is a history variable, the cell writes that have reached a
device. `Clear` says of such a history that no edit in place has left two values
under one clock. `NowAt` is the wall clock: without `SkewedClocks` a write is stamped
past what the row already carries (concurrent writes may still tie); with it,
any stamp. A save is offered only where a stamp is left, also when it changes
nothing that takes one.

### `SyncEngine`: one device
Each `await` is a step boundary. `syncNow` goes `pull`, `merge`, `export`,
`upload`, `hold` (the 600 ms in which it is still in flight); `syncOnLogin` has
the same stages without the hold and beside `_syncInFlight`. The realtime loop
`sse` is `connecting`, `open`, `dropped` (told to drop by a failed sync),
`sleeping` or `off`. Edits are counted, and a blob is the number of edits it
holds, so `uploaded < edits` says that the server lacks one. A stale number is a
stale blob. The server is up or down as seen by the device; a PUT may arrive
with its answer lost, or be turned down, for `syncNow` and `syncOnLogin` alike.
`gap` is a history variable: a failed
account switch, or a launch push the server turned down, has left edits to the
next edit or launch.

### `CloudSync`: devices and the server
A round goes `pull` (list, then one download after the other, each of which may
return a newer blob than the one listed), `import` (the base has been read and
the merge not written), `export`, `push`. `settled[d]` holds the devices whose
present blob is settled on `d`: a PUT takes it out of every set, as it changes
the version. `current[d]` holds those listed in a version the server still has.
When a round starts is left open where `SyncEngine` answers it: a round that is
due (`login`, `owed`, `nudged`) starts. The row is abstract: `Merge`, `Differs`,
`Edits` and `Clocked` are constants, given by `MCEntitySync` and `MCSecretSync`
with the operators of `Crdt`. `Clocked(r)` is what of a row is written under a
clock of its own: all of a secret, and of an entity all clocks and every value
but those of the lists in `ById`. `Has(r, part)`, that merging `part` changes
nothing clocked in `r`, is what the properties are stated with.

### `OutputPromise` and `TerminalOutput`: one session's output
The reader's chunks and closes are numbered in the order they are emitted, and
`got[c]` is what was sent to channel `c`. An emit is two steps, `EmitBegins`
(the look-up) and `EmitLands` (under the stream's lock). `stream` holds every
stream ever made, since an emit or a flush task may still hold one that left the
map `entry`; `timer` is that task, `hot` the window after a send. `Open`,
`Output`, `Closed`, `Send` are the methods of `OutputStream`. Batch and buffer
are counted in chunks. On the side of the window, `chan` is the shared channel,
`handler` the terminal's and a plugin's subscription, and `attach`, `detaches`,
`ready` are the commands on their way, which land in any order.

`OutputPromise` has no gates, batches, timers or map: it has the subscriber, the
items owed to it and those it got. `Promise` in `TerminalOutput` maps the
streams to it: the subscriber is the sink of the stream in the map, what is owed
is what a stream with that sink still holds, and the item being emitted is
headed for the sink of the stream it was given, wherever that stream is now.

### `SessionTab`: one SSH tab
`task` holds the connects and loops under way: a first connect or a restore, the
three reconnects by hand, and loops (`runBackoff` with and without `catchUp`).
`current` is the loop of the newest generation, `waker` the registered wake, and
`chain` the connects that hold or wait for the session's lock. In the backend,
`conn` is the entry of the session id, `link` the reader of each transport
(`probing` while it asks the multiplexer whether the session has ended) and
`closes` the close events on their way. A connect is `drop`, `dial` and its
answer, `added` or `failed`. `hasty` is a history variable: the user has
reconnected while something was connecting.

### `AccountSwitch`: accounts, keychain and files
A file is an entry (`secrets.enc`, which moves first, and the other entries) and
the account whose data it holds: `live` in place, `shelf` parked or in the bin.
`made` remembers what an account has on the device and has not given up. `stage`
follows a switch through `Clears`, `MoveOut`, `AllOut`, `MoveIn`, `AllIn`, or
through `Undo` and `Undone`, and `Install` (the keychain, value by value) to a
`Launch`. What may go wrong is in `Mishaps`: a rename, an undo, a save of the
switcher, a write of the keychain, a crash, and an account that is signed in to
through the form while it is parked (`resign`, no fault of the machine), or a
directory that cannot be deleted (`drop`), which keeps some of its files:
`removeSavedAccount` swallows that, and a switch fails where it clears the park
of its target (`Clears`).

### `SessionTokens`: the token pair
A token is the session it belongs to. A caller goes `asks`, `read`, `posted`,
`answered`, `checked`, `storing`, one `await` each; `adopt` goes through the two
keychain writes and the clearing of `revoked`; `telling` holds the notices that
wait for their imports. `KeysInOrder` says that a keychain read is answered
before a later write is: the commands are handled by the same keychain, and
nothing in the code enforces it. The server, which issues and ends sessions, is
external.

### `TeamKeys`: epochs, wraps and rows
A key is the epoch it was minted for, so `rows[r].key = rows[r].ver` says that a
row can be opened by the key its label names. A client has a `cache`, up to two
`fetches` on their way (a second one is started after an eviction) of which
`inflight` is the registered one, a `job` (a save, a wrap for a newcomer, the
redistribution) and a `pass` (`checkAndRotateTeamKey`). `held` are the keys of
older epochs it has fetched (`getTeamVaultKeyAtVersion`): they stay for the
session and `deleteTeamKey` leaves them. The redistribution runs at the login of
any of `Managers`, who may be removed while it waits. `late` is a history
variable: the removed clients whose redistribution was answered after they were
told. A redistribution whose cached version is gone when it is sent is taken to be
refused. Everything between two waits for the network is one step: callers that
joined a fetch go on within the step that lands it. A fetch carries `valid` for
the comparison of generations. The server answers members only and refuses a wrap
for another epoch than the current one (the 409 the code handles).

Definitions marked `mutant` are broken variants of the definition below them,
and take part in no specification: replacing the definition by its mutant makes
the property named in `PROJECT.json` fail. In `TeamKeys` these are
`FetchLandsPoisoned`, `FetchLandsAnyway`, `GrantKeyless`, `DrainStartsCached`
and `EncodeSecretsUnderCached`.

## 3. The runs

Passing:

| Run | Properties | Instance | Distinct states |
| --- | --- | --- | --- |
| `replicas` | `TypeOK`, `SeenDecidesRow`, `AliveAsHistory`, `MergeKeepsClocks` | 3 devices (symmetric), 2 fields, one of them a list by ids, 3 values, 3 stamps, 6 cells written (`MCFewWrites`) | 192 337 |
| `engine_edits` | `TypeOK`, `OfflineMeansRetrying`, `EditAccounted` | 2 edits, 1 event, failed switches, turned-down pushes | 6 481 532 |
| `engine_live` | `EditsReachServer`, `LaunchSyncRuns` | 1 edit, 1 event | 384 060 |
| `entity_sync` | `TypeOK`, `SettledMeansMerged`, `SettledDevicesAgree`, `WritesAreKept` | 2 devices, 2 fields, one of them a list by ids, 2 stamps, 2 values, restarts, lost connections, faults | 881 061 |
| `entity_sync_live` | `OnlineDevicesAgree`, `PushLoopEnds` | the same without faults | 303 542 |
| `output` | `TypeOK`, `InOrder`, `SubscribersAttached`, `KeepsPromise`, `TerminalHearsAll` | 4 items, 2 channels, 4 streams, batch and buffer of 2 | 307 936 |
| `tab_life` | `TypeOK`, `ConnectingIsWorkedOn`, `PatientTabsAreBacked`, `ReachableTabsSettle`, `ClosedTabsGoQuiet` | 3 connects or loops, 2 lost transports, 1 reconnect by hand | 78 848 |
| `account_switch` | `TypeOK`, `NothingLost`, `SessionHasItsFiles`, `OwnVaultOnly`, `ParksAreListed` | 2 cloud accounts and a local one, 2 entries, 2 of 7 mishaps | 680 724 |
| `session_tokens` | `TypeOK`, `RevokedMeansEnded`, `ToastMeansRevoked`, `ExpiredMeansEnded`, `RevokedIsTold` | 2 callers, 3 sessions | 164 231 |
| `team_keys` | `TypeOK`, `KeysAreTheirEpochs`, `KickedHoldsNoKey`, `RotationCompletes`, `NewcomersGetTheKey` | 2 members, 1 object, 1 secret, 3 epochs, 2 events | 150 391 |

What they show:

- `SeenDecidesRow`: devices that have learnt the same writes hold the same clocks
  and, but for a list edited in place, the same values, whatever the order, ties
  included. `AliveAsHistory`: what is shown follows from the writes known, so no
  merge loses or undoes a delete. `MergeKeepsClocks`: a merge never moves a clock
  back.
- `EditAccounted`: an edit the server lacks is on somebody's list: the timer, an
  owed push, the launch sync, or a sync that has still to upload it.
  `EditsReachServer` is the promise itself, and `LaunchSyncRuns` the same of the
  launch sync. `OfflineMeansRetrying`: the deferred push has something to wait
  for.
- `SettledMeansMerged`: skipping a settled blob loses nothing, although it may be
  replaced while it is listed, downloaded and merged. `WritesAreKept`: no round
  takes a clocked local write back. `SettledDevicesAgree`: two devices at rest
  that have settled everybody else's blob hold the same clocks and clocked values,
  while lists are edited in place beside. (Having settled each other's is not
  enough with three devices: one may hold what it merged from the third and failed
  to push, while the other skipped that third.) `OnlineDevicesAgree` and
  `PushLoopEnds`: when disturbances cease, devices that stay online agree and fall
  silent.
- `KeepsPromise`: the streams implement `OutputPromise`, so a subscriber misses
  nothing that begins while it is attached, whichever of attach, detach, release
  and flush come first. `InOrder` says of every channel, gone ones too, that it
  heard things in the order they were emitted. `SubscribersAttached`: a late
  detach cuts nobody off. `TerminalHearsAll`: what is held is sent in the end.
- `ConnectingIsWorkedOn`, `PatientTabsAreBacked`: neither "connecting" nor
  "connected" is ever shown over nothing. `ReachableTabsSettle` and
  `ClosedTabsGoQuiet`: loops end, and end with the tab.
- `NothingLost`, `SessionHasItsFiles`: a switch, or one undone at any rename,
  leaves every account with its files. `OwnVaultOnly`: after a crash or a
  half-written keychain no session opens another's vault. `ParksAreListed`: no
  parked data is out of reach of the switcher.
- `RevokedMeansEnded`, `ExpiredMeansEnded`: no race ends a session in the user's
  eyes which the server still honours. `RevokedIsTold`, `ToastMeansRevoked`: the
  notice comes up when it is true and never after it ceased to be.
- `KeysAreTheirEpochs`: no two of save, drain, rotation and wrap leave data under
  a key its label does not name. `KickedHoldsNoKey`: no fetch, drain, save or
  grant that was under way gives a removed client the current key back; the one
  way back is an init answered after it was told (`TeamManager.cfg`). It is
  checked with the other properties while no key changes under an init, by
  `TeamRemoval.cfg` with keys that do (4 events, 2 epochs, both members managers;
  3 797 086 states), and proved for both. `RotationCompletes`,
  `NewcomersGetTheKey`: the work ends, with every row and every member on the
  current key.

Runs that end in a violation, each a disagreement between the code and a
sentence of the repository, quoted under `findings`:

| Run | Property | What happens |
| --- | --- | --- |
| `switch_back` | `ParkedComesBack` | Account a is parked by a switch to b. b signs out, and a signs in through the form, which restores nothing. The next switch away from a parks it again, and `move_out` first removes the older park with what it had not yet synced. |
| `team_key_race` | `CacheInLockstep` | `initTeamVaultKey` reads the key and waits for the server. A drain of the same client evicts it and caches the next epoch's key and version. The init then writes its key back without a version: the old key is cached as the new epoch's. |

Further configurations show one behaviour each that a passing run leaves out.
They are kept as witnesses, `tlc -config X.cfg M`, and each ends in a violation
(the first four also contradict a sentence of the code):

| Configuration, module | Property | What happens |
| --- | --- | --- |
| `EnvEdit.cfg`, `MCEntitySync` | `EveryEditSyncs` | A variable is given a new value under its old id: the row is stored with its old clock, and neither device takes the other's value unless it is the greater. Both rest with different rows. |
| `EntityRefile.cfg`, `MCEntityReplicas` | `RefileDoesNotRevive` | A row is deleted and then refiled from a stale list. `refile_into_folder` "deliberately does not revive a tombstoned row" (`vault_object.rs:251`), but it sets `updated_at` past `deleted_at`: the row is shown again. |
| `SecretSync.cfg`, `MCSecretSync` | `SettledDevicesConverge` | A device merges a re-saved equal secret; `secretsDiffer` compares values, so the newer clock is not written. A deletion stamped between the two saves then wins on that device only. |
| `TeamManager.cfg`, `TeamKeys` | `KickedIsKeyless` | `initTeamVaultKey` also runs for managers. One is removed, and its client evicts the key, between its PUT and the answer; the answer writes the key into the cache again without a look at the generation. |
| `EntityOldVersion.cfg`, `MCEntityReplicas` | `BothSidesAgree` | An older version relays a clock without its value. One current device merges from it before it meets the value, another has the value: the clocks tie, each keeps its copy, and merging settles nothing. |
| `SyncHeldCatchUp.cfg`, `MCSyncEngine` | `EditsReachServer` | A push fails; within the hold of that sync the stream opens. The catch-up finds a sync in flight and only sets `_syncOwed`, which the `finally` drops since the sync failed. The owed push waits for the next edit or event. |
| `EntitySyncWindow.cfg`, `MCEntitySync` | `WritesAreKept` | A command writes a file between `state_export_raw` and `state_import` of a merge. The import writes back what was read before it. |
| `TabByHand.cfg`, `SessionTab` | `ConnectedIsBacked` | The user reconnects by hand while a loop has its attempt queued. The reconnect succeeds, and the attempt then drops the transport of the tab that shows "connected", and may fail. |
| `TabClosed.cfg`, `SessionTab` | `ClosedTabsLetGo` | A tab is closed while its `ssh_connect` is in flight. The disconnect finds nothing, and the transport is added after it. |

Constants that passing runs hold at a value, and what the other value breaks:
`OverlappingPuts` TRUE in `SyncEdits.cfg` breaks `EditAccounted` (the uploads of
`syncNow` and `syncOnLogin` land in the wrong order and the server keeps the older
blob); `SkewedClocks` TRUE in `EntityReplicas.cfg` breaks `AliveAsHistory` (a
delete on a device whose clock is behind the row's newest clock leaves the row
alive); `EarlyCloses` TRUE in `TabLife.cfg` breaks `PatientTabsAreBacked` (the
close event of a transport that ends before its call has answered is ignored);
`KeysInOrder` FALSE in `Tokens.cfg` breaks `RevokedMeansEnded` (the comparison of
a 401 is answered with the old token after the new one was written);
`InitOverlaps` TRUE in `TeamKeys.cfg` breaks `KeysAreTheirEpochs` (what follows in
the cache from `team_key_race` is written to the server). A PUT issued before
`haltSync` still lands after it (`RunUploads` does not look at `halted`). In
`AccountSwitch`, the properties name the mishaps they are stated under (`went
\subseteq ...`): a directory that cannot be deleted leaves data of an account that
is no longer in the switcher (`ParksAreListed`), an undo that fails leaves the
only copy of a file in a park that the next switch removes, an account whose save
failed is discarded by a switch as one outside the switcher, and a crash in the
middle of a swap is not repaired at the next launch.

### Bounds, and why they are enough
The merge works on one cell at a time and the liveness of a row on the greatest
clock against `deleted_at`, so one field of each kind beside `Deleted` (one
compared by value, one by ids) has every case: older, equal, newer; value present
or not; a list changed in its elements or in its ids. The values of a list are two
of equal ids and, in `replicas`, a third of other ids. `MCFewWrites` bounds the
cells written in a behaviour to six, three beside the three of the row's birth, so
that each key can be written by a device of its own. Three devices are needed for
a relay: a device that learns a write from one that did not make it. Three stamps
allow a write between two others; two values allow a tie to matter. `CloudSync`
with two devices has all interleavings of two rounds, a restart of one and a lost
connection of the other; relays through a third are in `EntityReplicas`. In the
engine, two edits are needed for an upload that is older than another edit, and
one event is enough to make a sync overlap with a push that is owed; flags are
Boolean, so a second event only repeats the state.

`output`: two channels for a subscriber that leaves and its successor; four
items fill a batch and a buffer of two twice or end with a close behind them;
four streams, since each of attach, detach and release may make one. A fifth
stream needs a third round of the same commands. `tab_life`: three tasks are an
attempt, the one queued behind it and the loop that supersedes both; two lost
transports let one close event meet the transport that replaced it.
`account_switch`: two cloud accounts and a local one are all the roles a switch
has (outgoing, incoming, discarded); two entries are the one that moves first
and one that follows, so a rename can fail between them; two mishaps allow a
failed undo after a failed move. `session_tokens`: two callers and two adoptions
after the first session let an answer be for a pair replaced twice.
`team_keys`: two members, of whom the owner is not removed, rotate and drain
against each other; three epochs let a rotation overtake a drain that was itself
started by a rotation; two events are a removal and one thing more.
`TeamRemoval.cfg` has four: a login's redistribution, a removal, a return to the
team and a second removal.

Bounds in guards: `MaxEdits`, `MaxRemoteNews`, `MaxStamp`; `MaxItems`,
`MaxChannels`, `MaxStreams`; `MaxTasks`, `MaxDrops`, `MaxByHand`; `MaxMishaps`,
each mishap once; `MaxSessions`; `MaxEpoch`, `MaxEvents`, and one login sync at
a time (`Unpause`, `StreamOpens`). `SecretSync.cfg` searches a part of its state
space: `MCReader` keeps one device a reader, `MCOneClock` gives writes growing
stamps. A violation found in a part is one of the whole.

Runs set `CHECK_DEADLOCK FALSE` where users may stop when the bounds are
reached, and where a signed-out, paused or closed thing really rests;
`session_tokens` checks for deadlock, as a window may always reload.

### Fairness
In `SyncEngine`: a started promise settles (requests have time limits), so the
steps of the two syncs are weakly fair; timers fire (`TimerFires`, `Retry`); a
connection attempt is decided one way or the other (`StreamOpens` when there is
a server, `StreamLost` when there is none); the account switch goes on. Users,
peers, restarts and the server have none. `EditsReachServer` and
`LaunchSyncRuns` assume that the server stays up, the device unpaused, and that
the process is not restarted for ever. `engine_live` leaves out
(`StreamOpensInHold` FALSE) the one schedule of `SyncHeldCatchUp.cfg`; nothing in
the code excludes it, a connection that takes longer than 600 ms does. In
`CloudSync` each device's round goes on; the network, the users and the restarts
have no fairness and the properties assume that they fall calm.

In `TerminalOutput` commands arrive, locks are granted, flush tasks run and
`attached` resolves; the reader, the user and the plugin are free. In `SessionTab`
sleeps end, commands land and are answered (`DialAdds` or `DialFails`: a connect
has a time limit) and close events arrive; the user, the network and the ends of
transports are free. In `SessionTokens` awaits settle; the user, the server and
reloads are free. `AccountSwitch` states no liveness. In `TeamKeys` requests are
answered and clients go on; that the owner checks the rotation and reconciles the
keys again and again is an assumption on the server and the user: it happens on
realtime events and at every login, and a rotation that failed waits for one of
them.

## 4. The proofs

`tlapm` checks eight proof modules, with SMT, Zenon and LS4 only. Every safety
invariant, every action property and the refinement of the passing runs is
proved here; what a theorem assumes is in its statement.

`EntityReplicasProofs`, for any sets of devices, fields and values and any
greatest stamp:

- `TypeCorrect`: `Spec => []TypeOK`, including that every synced field of a stored
  row carries a clock, with old versions and skewed clocks.
- `ClocksKept`: `Spec => MergeKeepsClocks`, with no assumption either.
- `Converges`: `Assumed /\ Spec => []SeenDecidesRow`: clocks by the history, and
  values wherever no edit in place has left two under one clock. And
  `ShownByHistory`: `Assumed /\ Spec => []AliveAsHistory`, where `Assumed` is
  `OldDevices = {} /\ ~SkewedClocks`. Both parts are necessary, as
  `EntityOldVersion.cfg` and the skewed instance above show. The inductive
  invariant is `TypeOK /\ WellWritten /\ RowIsNewest`. `RowIsNewest` says that
  each cell of a row carries the newest clock seen for its key, and where the
  history is `Clear` is its newest write, by clock and then by value.
  `SeenDecidesRow` is not inductive by itself: two devices with equal histories
  say nothing about rows that only become equal in history later; `RowIsNewest`
  ties each row to its own history, and the newest of a set is unique.
  `WellWritten` keeps writes from carrying a clock without a value, since a tie
  with such a cell is settled by side, and `deleted_at` from a value above `Null`.

`CloudSyncProofs`, for any finite set of devices. Its first half speaks of any
kind of row: `Lattice` says that `Merge` is idempotent, commutative and
associative on a set of rows that commands and merges do not leave, that what is
clocked of a merge depends on what is clocked of the two rows, and that a command
only adds to what is clocked; `Exact` says that `Differs` sees every difference.
That an edit in place adds nothing that is clocked is no obstacle: the order the
proof speaks of is one of clocked parts.

- `TypeCorrect`: `Spec => []TypeOK`, without any law.
- `SettledAgree`:
  `Lattice /\ Exact /\ Spec => [](SettledMeansMerged /\ SettledDevicesAgree)`,
  through restarts, lost answers, failed downloads and imports, and commands
  inside the window of an import.
- `KeepsWrites`: `Lattice /\ ~EditsInWindow /\ Spec => WritesAreKept`;
  `EntitySyncWindow.cfg` shows why the window has to be left alone.

The inductive invariant follows a row through each phase of a round.
`OwnBlobKept`: a device has what it uploaded, also in what it is about to write
or to upload. `PayloadsAreBlobs`: what was downloaded is an earlier state of the
blob, and its present state as long as that counts as current.
`BaseHasSettled`: what a merge under way has read has the settled blobs too;
without it `SettledMeansMerged` is not inductive, as an import could write a row
that lacks what was settled before. `Published`: whatever has every blob also
has the row of a device that owes no push, wherever that push may have been
merged since; with `PushHasAll`, that an upload under way has everything or
another is owed, it gives the agreement.

The second half discharges the laws. `EntitiesAreLattice`: `mergeTwo` is a least
upper bound over `WellRows`, the rows that the commands write (every key has a
value; only the birth of a row goes without a clock; a delete's time is not
above `Null`), `EntityDiffers` is exact, and commands only add to clocks and
clocked values (`UpdateAdds`, edits in place included). Outside `WellRows` it is not: a
clock without a value ties with one that has it. `SecretsAreLattice` says the
same of `mergeSecrets`; `secretsDiffer` is not exact, so agreement does not
follow, and `SecretSync.cfg` shows that it fails. `IsEntity` and `IsSecret` say
that the constants are what the configurations give them. The theorems drawn are
`EntitySettled`, `EntityAgree`, `EntityKeepsWrites` and `SecretKeepsWrites`.

A round merges what it downloaded by a fold over a set (`MapThenFoldSet`). Its
recursion equation and what it computes need an induction; the induction
theorems of the library take a predicate as a parameter, which the provers
cannot instantiate, so these lemmas take the least size at which they would fail
(`LeastNat`, from the well-foundedness of `<` on `Nat`) and refute it.

`SyncEngineProofs`, for any number of edits and events:

- `TypeCorrect`: `Spec => []TypeOK` under every disturbance. `TypeOK` includes
  that a second sync is owed only to one in flight and that no blob holds more
  edits than were made.
- `PutsInOrder`: `~OverlappingPuts /\ Spec => []PutsNotOlder`: no upload on its
  way is older than the blob that is there.
- `EditsAccounted`: `~OverlappingPuts /\ Spec => []EditAccounted`. The inductive
  invariant is `TypeOK /\ PutsNotOlder /\ EditAccounted`: an upload may only
  replace the server's copy by a newer one, or an accounted edit could come off
  the server again. Failed switches and turned-down pushes are covered as far
  as the statement goes: what they leave behind is what `gap` marks.
- `OfflineRetries`: `Spec => []OfflineMeansRetrying`, without assumptions. The
  invariant is `StreamIInv`: the loop is off only on a paused device or during
  a switch, and no stream is open while the status is "offline" (it holds since
  every handler that reports "offline" also takes the stream down).

`TerminalOutputProofs`, for any number of items, channels and streams and any
sizes of batch and buffer, without further assumptions:

- `TypeCorrect`: `Spec => []TypeOK`, including that an open stream holds no
  close back and leaves nothing in its batch without a flush task on its way.
- `SubscribersStay`: `Spec => []SubscribersAttached`.
- `ClosesInOrder`: `Spec => []InOrder`.

The inductive invariant is `Shape /\ OrderOK`. `Shape` says why no two streams
can feed one channel: sinks are distinct, the channel of an attach on its way is
the sink of no stream and has heard nothing, and whoever is subscribed has its
channel attached and not among the detaches. It also says that a close is held
only behind a gate and once the reader has ended, and that an open stream
without a sink holds nothing. `OrderOK` is `InOrder` with what the streams still
hold: that is ordered too, newer than what its sink has heard and older than the
item being emitted. Without the first part an old stream that left the map could
flush behind a new one.

- `StreamsKeepPromise`: `Spec => KeepsPromise`, the refinement. The mapping
  chooses, for each channel, the stream whose sink it is; `Shape` makes that
  stream unique, so `OwedOK` can say what is owed without a choice: to a sink
  what its stream holds, to nobody what the stream of the map holds without a
  sink, and nothing else. Then each step is shown to be a step of
  `OutputPromise` or a stutter, one lemma for each kind: `PromiseEmits` (an item
  is kept, passed on, or dropped for want of a subscriber), `PromiseFlushed` and
  `PromiseReady` (a flush task or an opening gate delivers all that is owed),
  `PromiseHeld` (a batch waits: a stutter), `PromiseAttaches` (what was held for
  the old subscriber, or for none, follows to the new one), `PromiseDetaches`
  (what a subscriber that leaves has not heard is dropped with it),
  `PromiseSpawns` and `PromiseQuiet`. The case that needs thought is an emit that
  begins before a change of subscriber and lands after it: the item belongs to
  the sink of the stream it was given, wherever that stream is now.

`SessionTabProofs`, for any number of connects and loops, lost transports and
reconnects by hand:

- `TypeCorrect`: `Spec => []TypeOK`. The invariant has `Queue`, that the chain
  holds each connect under way exactly once and only its head has begun, which
  is what `withSessionConnectLock` is for; `WakerSleeps`, that the registered
  waker belongs to a loop asleep; and `LiveIsConn` with `FewEnded`, that only the
  entry of the session is a live transport and no more have ended than were
  lost, so there is a number left for every new one (a pigeonhole on finite
  sets).
- `WorkedOn`: `Spec => []ConnectingIsWorkedOn`: whatever is superseded,
  cancelled or fails either marks the tab or leaves a task that will.
- `PatientBacked`: `~EarlyCloses /\ Spec => []PatientTabsAreBacked`. The
  invariant is `Patient`: until the user reconnects while something is
  connecting, at most one connect or loop is under way, and only while the tab
  shows "connecting"; the transport a connect has added is still live when its
  answer comes; and a connected tab has a transport or a close event on its way.
  `TabByHand.cfg` shows what an impatient user breaks, and `EarlyCloses` what a
  transport does that ends before its connect is answered.

`SessionTokensProofs`, for any callers and any number of sessions:

- `TypeCorrect`: `Spec => []TypeOK`, by `TypeInv`: while the unlock page is up,
  only its own quiet question is under way, so no notice waits to come up.
- `ToastIsTrue`: `Spec => []ToastMeansRevoked`.
- `RevokedOnlyIfEnded`: `KeysInOrder /\ Spec => []RevokedMeansEnded`.
- `ExpiredOnlyIfEnded`: `KeysInOrder /\ Spec => ExpiredMeansEnded`.

The invariant of the last two is `TypeInv /\ CallInv /\ SameIsRt` with
`RevokedMeansEnded`: a refused token is of an ended session and stays so, a
caller no adoption touched has read the pair that is still there, and one that
found its token unchanged acts before an adoption that changes it is complete.
That last fact needs `KeysInOrder`, as the run with it FALSE shows.

`AccountSwitchProofs`, for any accounts and any number of files:

- `TypeCorrect`: `Spec => []TypeOK`, under every mishap.
- `SwitchesLoseNothing`: `Spec => []NothingLost`, and `SessionsHaveTheirFiles`:
  `Spec => []SessionHasItsFiles`. Both speak of runs in which only moves fail, and
  follow from `Whereabouts`, which says of every stage where every file is.
  Outside a swap (`AtRest`) one account's files are in place and everyone else's
  parked. Inside one (`MidSwap`) the list of moves decides: what it took out lies
  in the outgoing directory, what it put in is in place, nothing was moved twice,
  and all that was taken out precedes all that was put in. The order is what makes
  the undo right: without it the last move taken back could land on a file of the
  other account. `MidSwap` also needs that a cloud account at work is in the
  switcher, as one that is not has its directory discarded.
- `SessionsHaveTheirVault`: `Spec => []OwnVaultOnly`, through every mishap but a
  failed undo, directories that keep some of their files included. `VaultInv`
  follows `secrets.enc` alone: a vault that was put in is noted among the moves,
  and one that was taken out lies where the undo looks for it, which is never the
  directory of the target.
- `ParksListed`: `Spec => []ParksAreListed`, of runs in which moves fail, saves of
  the switcher fail and accounts are signed in to while parked. `ParkPhase` says
  for each stage whose data lies where: every park is its account's own and
  listed, and what is in place is the account's in memory or in the keychain.
  During a swap (`SwapParks`) the park that is being emptied and the one that is
  being filled are set apart, and the order of the moves is needed again: an entry
  of the target in place must have left its park, or an undo would file it under
  the outgoing account. `NothingLost` does not hold under these mishaps, so this
  is an invariant of its own and not a consequence of `Whereabouts`.

`TeamKeysProofs`, for any members, objects, secrets and number of epochs:

- `TypeCorrect`: `Spec => []TypeOK`. Its second part, that a task waiting for a
  key waits for a fetch on its way, is inductive with the types: every fetch that
  lands releases all who joined it in the same step.
- `KickedLosesTheKey`: `Spec => []KickedHoldsNoKey`, for any `Managers`, with keys
  that change under an init and without. The invariant `Gone` adds what the cache
  alone does not show: a client told of its removal is not on the team, and no
  fetch of its that still counts has brought a key; so its cache is empty unless an
  init was answered since, which is what `late` records. That exception is the
  code's: `TeamManager.cfg` violates the statement without it.
- `EpochKeys`: `~InitOverlaps => (Spec => []KeysAreTheirEpochs)`, and
  `CacheKeepsLockstep`, the same for `CacheInLockstep`. The invariant `Epochs`
  follows the pair of a key and its epoch through every place a client keeps it:
  cache, fetches, task, drain and the batch being written. An init needs more,
  as it reads the key and the epoch of the cache at two moments: what it holds is
  what is still cached. `InitOverlaps` is what breaks that, and `team_key_race`
  shows how, so the assumption cannot be dropped.

Only model-checked: liveness under fairness, which needs `ENABLED` and is out of
the prover's reach: `EditsReachServer`, `LaunchSyncRuns`, `OnlineDevicesAgree`,
`PushLoopEnds`, `TerminalHearsAll`, `ReachableTabsSettle`, `ClosedTabsGoQuiet`,
`RevokedIsTold`, `RotationCompletes` and `NewcomersGetTheKey`. The witnesses of
section 3 are counterexamples and need no proof.

## 5. What the model leaves out

The sync core:

- One row or one secret per instance: merges treat them one by one. An import is
  therefore one step; that `state_import` writes file after file is not seen.
- An optional field cleared to `None` at the very stamp at which another device
  sets it: `serde` drops the key, and the tie keeps each side's copy. Values
  written in the model are present.
- `last_used_at`, which `connection_set_last_used` stamps as a refile does its
  field, on rows that are born without a clock for it; the fields of the model are
  stamped at birth.
- The commands that adopt team rows, which rebuild a row without its
  `__deleted__` clock.
- A free account: `syncNow` returns, and a payment-required answer ends as a
  success.
- Two generations of the realtime loop at once; `sse` is the newest.
- Delay lengths and time limits: a timer may fire at any time.
- `wakeSseRetry` after a sync that found the server again: `Retry` may always
  happen, so this only adds speed.
- Blobs that cannot be decrypted, sync exclusions, settings and live sessions in
  a blob.
- In `CloudSync`: overlapping rounds of one device, which `SyncEngine` has, and
  skewed clocks, which `EntityReplicas` has.

`TerminalOutput`: bytes, and a batch that is full in bytes and not in chunks; an
attach that fails; the pause of an SSH reader. `SessionTab`: serial and local
tabs, `autoReconnect` switched off, prompts for credentials and host keys,
multiplayer sessions. `AccountSwitch`: a move is one step, where that of a
directory across file systems is a copy and a removal; UI state and the pending
push of the outgoing account (`SyncEngine` has the flush and the halt).
`SessionTokens`: sign-out, a device without a session, and what a request does
after its second answer. `TeamKeys`: the legacy whole blob, the rotation forced
by a key that cannot be opened, permissions, the reading of a vault into memory at
login (which fetches keys of older epochs too), the end of a session, which drops
all keys, and the minting of a key by a redistribution that finds none, where it
rests on the server to refuse epoch 1. `completeTeamLoginSetup` swallows what
fails in it, so to `SyncEngine` it is nothing.

## 6. Plan

Done: the core (merge rules, replicas, engine, protocol), terminal output with
its abstract specification, session tabs, account switches, session tokens and
team keys; proofs of the safety properties of all of them, and of the
refinement.

Left, in this order:

1. `CloudSync` implementing `EntityReplicas`, with the blobs and the downloaded
   copies as further replicas (this needs a history of writes in `CloudSync`);
   an abstract "edits are delivered" specification for `SyncEngine`.
2. A model of `state_import` over several files with a crash between them, and
   two generations of the realtime loop.
3. Settings sync by timestamp, and the transfer queue.
