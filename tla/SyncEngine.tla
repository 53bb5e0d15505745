----------------------------- MODULE SyncEngine -----------------------------
(***************************************************************************)
(* The control state of src/services/sync.ts on one Pro, signed-in device: *)
(* the background sync (syncNow), the launch sync (syncOnLogin), the       *)
(* debounce timer, pause and halt, and the realtime stream that decides    *)
(* when a sync an unreachable server left undone is run again.             *)
(*                                                                         *)
(* Every `await` of the code is a step boundary.  Local edits are counted; *)
(* a blob is the number of edits it contains, so `uploaded < edits` means  *)
(* the server's copy of this device lacks an edit.                         *)
(***************************************************************************)
EXTENDS Naturals

CONSTANTS MaxEdits,         \* bound: local edits
          MaxRemoteNews,    \* bound: blobs other devices push
          ErrorAnswers,     \* lanes whose upload the server may turn down
          StreamOpensInHold,\* TRUE: the stream may open while a failed sync holds
          FailedSwaps,      \* TRUE: an account switch may fail after the halt
          OverlappingPuts   \* TRUE: an upload may land after a newer one

ASSUME EngineAssumption ==
  /\ MaxEdits \in Nat
  /\ MaxRemoteNews \in Nat
  /\ ErrorAnswers \subseteq {"sync", "login"}
  /\ StreamOpensInHold \in BOOLEAN
  /\ FailedSwaps \in BOOLEAN
  /\ OverlappingPuts \in BOOLEAN

VARIABLES
  status,    \* _status
  pc,        \* where syncNow is; _syncInFlight is pc # "off"
  must,      \* mustPush of the running syncNow
  ok,        \* `succeeded` of the syncNow that holds
  exp,       \* the edits in the blob syncNow exported
  lpc,       \* where syncOnLogin is
  lexp,      \* the edits in the blob syncOnLogin exported
  pushOwed, loginOwed, syncOwed,   \* _pushOwed, _loginSyncOwed, _syncOwed
  timer,     \* _syncTimer is set
  paused,    \* the device's sync preference
  swap,      \* an account switch: "off", "flush" its last push, "out" (_halted)
  fexp,      \* the edits in the blob the flush exported
  gap,       \* history: a switch failed or a launch sync was turned down, and there has
             \* been neither an edit nor a launch sync since
  sse,       \* the realtime loop; _dropStream is set in "open" and "dropped"
  server,    \* whether requests reach the server
  edits,     \* local edits made so far
  uploaded,  \* edits in this device's blob on the server
  news       \* remote pushes announced so far

run    == <<pc, must, ok, exp>>
login  == <<lpc, lexp>>
owed   == <<pushOwed, loginOwed, syncOwed>>
device == <<timer, paused, swap, fexp, gap>>
world  == <<server, edits, uploaded, news>>
vars   == <<status, run, login, owed, device, sse, world>>

InFlight == pc # "off"
halted   == swap = "out"

\* awaitingServer(): the loop is between streams and the server was lost.
AwaitingServer(st, stream) == st = "offline" /\ stream \in {"connecting", "sleeping"}

\* The blobs on their way to the server.  Unless OverlappingPuts, they arrive
\* in the order they were exported; the code does not see to that.
Puts == (IF pc = "upload" THEN {exp} ELSE {}) \union
        (IF lpc = "upload" THEN {lexp} ELSE {}) \union
        (IF swap = "flush" THEN {fexp} ELSE {})
Lands(e) == OverlappingPuts \/ \A x \in Puts : e <= x

\* Launch: SplashScreen starts the login sync and the stream together.
Init ==
  /\ status = "idle" /\ pc = "off" /\ must = FALSE /\ ok = FALSE /\ exp = 0
  /\ paused \in BOOLEAN
  /\ lpc = (IF paused THEN "off" ELSE "pull") /\ lexp = 0
  /\ pushOwed = FALSE /\ loginOwed = FALSE /\ syncOwed = FALSE
  /\ timer = FALSE /\ swap = "off" /\ fexp = 0 /\ gap = FALSE
  /\ sse = (IF paused THEN "off" ELSE "connecting")
  /\ server \in {"up", "down"}
  /\ edits \in 0..1 /\ uploaded = 0 /\ news = 0

(***************************************************************************)
(* syncNow(force) and syncInBackground(force), called with _status = from  *)
(* and the stream in state `stream`.  Each decides run', owed', status'.   *)
(***************************************************************************)
SyncNowDropsPush(force, from) ==   \* mutant: an overlapping call is not remembered as a push
  /\ UNCHANGED <<ok, exp, loginOwed>>
  /\ \/ halted /\ status' = from /\ UNCHANGED <<pc, must, pushOwed, syncOwed>>
     \/ ~halted /\ InFlight /\ syncOwed' = TRUE /\ status' = from /\ UNCHANGED <<pc, must, pushOwed>>
     \/ /\ ~halted /\ ~InFlight /\ pc' = "pull" /\ must' = (force \/ pushOwed)
        /\ pushOwed' = FALSE /\ status' = "syncing" /\ UNCHANGED syncOwed

SyncNowForgetsOwed(force, from) == \* mutant: a sync does not take up the owed push
  /\ UNCHANGED <<ok, exp, loginOwed>>
  /\ \/ halted /\ status' = from /\ UNCHANGED <<pc, must, pushOwed, syncOwed>>
     \/ ~halted /\ InFlight /\ syncOwed' = TRUE /\ pushOwed' = (pushOwed \/ force)
        /\ status' = from /\ UNCHANGED <<pc, must>>
     \/ /\ ~halted /\ ~InFlight /\ pc' = "pull" /\ must' = force
        /\ pushOwed' = FALSE /\ status' = "syncing" /\ UNCHANGED syncOwed

SyncNow(force, from) ==
  /\ UNCHANGED <<ok, exp, loginOwed>>
  /\ \/ /\ halted
        /\ status' = from
        /\ UNCHANGED <<pc, must, pushOwed, syncOwed>>
     \/ /\ ~halted /\ InFlight
        /\ syncOwed' = TRUE
        /\ pushOwed' = (pushOwed \/ force)
        /\ status' = from
        /\ UNCHANGED <<pc, must>>
     \/ /\ ~halted /\ ~InFlight
        /\ pc' = "pull"
        /\ must' = (force \/ pushOwed)
        /\ pushOwed' = FALSE
        /\ status' = "syncing"
        /\ UNCHANGED syncOwed

SyncInBackground(force, from, stream) ==
  \/ /\ paused
     /\ status' = from
     /\ UNCHANGED <<run, owed>>
  \/ /\ ~paused /\ AwaitingServer(from, stream)
     /\ pushOwed' = (pushOwed \/ force)
     /\ status' = from
     /\ UNCHANGED <<run, loginOwed, syncOwed>>
  \/ /\ ~paused /\ ~AwaitingServer(from, stream)
     /\ SyncNow(force, from)

\* syncOnLogin up to its first request.
StartLogin == lpc' = "pull" /\ lexp' = lexp

(***************************************************************************)
(* The user                                                                *)
(***************************************************************************)

\* A local edit to synced data, then scheduleSync().
Edit ==
  /\ edits < MaxEdits
  /\ edits' = edits + 1
  /\ timer' = (timer \/ ~(paused \/ halted))
  /\ gap' = (gap /\ (paused \/ halted))
  /\ UNCHANGED <<status, run, login, owed, paused, swap, fexp, sse, server, uploaded, news>>

\* The debounce timer: syncInBackground(true).
TimerFires ==
  /\ timer
  /\ timer' = FALSE
  /\ SyncInBackground(TRUE, status, sse)
  /\ UNCHANGED <<login, paused, swap, fexp, gap, sse, world>>

\* "Sync now" in the UI runs even on a paused device.
UserSync ==
  /\ ~InFlight
  /\ SyncNow(TRUE, status)
  /\ UNCHANGED <<login, device, sse, world>>

Pause ==
  /\ ~paused /\ swap = "off"
  /\ paused' = TRUE
  /\ sse' = "off"
  /\ UNCHANGED <<status, run, login, owed, timer, swap, fexp, gap, world>>

\* Resuming runs the launch sync and reopens the stream.
Unpause ==
  /\ paused /\ swap = "off"
  /\ lpc = "off"                     \* bound: one login sync at a time
  /\ paused' = FALSE
  /\ StartLogin
  /\ loginOwed' = FALSE
  /\ gap' = FALSE
  /\ sse' = "connecting"
  /\ UNCHANGED <<status, run, pushOwed, syncOwed, timer, swap, fexp, world>>

\* swapOutSession: the stream stops and flushPendingChanges exports a last push,
SwapStarts ==
  /\ swap = "off"
  /\ swap' = "flush"
  /\ fexp' = edits
  /\ sse' = "off"
  /\ UNCHANGED <<status, run, login, owed, timer, paused, gap, world>>

\* which arrives or is given up; then haltSync().
SwapHalts ==
  /\ swap = "flush"
  /\ \/ ~paused /\ server = "up" /\ Lands(fexp) /\ uploaded' = fexp
     \/ uploaded' = uploaded
  /\ swap' = "out"
  /\ syncOwed' = FALSE
  /\ timer' = FALSE
  /\ UNCHANGED <<status, run, login, pushOwed, loginOwed, paused, fexp, gap, sse, server, edits, news>>

\* The profile swap failed: resumeSync() and startSessionSync().
SwapFails ==
  /\ FailedSwaps
  /\ swap = "out"
  /\ swap' = "off"
  /\ gap' = TRUE
  /\ sse' = (IF paused THEN "off" ELSE "connecting")
  /\ UNCHANGED <<status, run, login, owed, timer, paused, fexp, world>>

\* The process ends and is started again on the same data.
Restart ==
  /\ swap = "off"
  /\ status' = "idle" /\ pc' = "off" /\ must' = FALSE /\ ok' = FALSE /\ exp' = 0
  /\ lpc' = (IF paused THEN "off" ELSE "pull") /\ lexp' = 0
  /\ pushOwed' = FALSE /\ loginOwed' = FALSE /\ syncOwed' = FALSE
  /\ timer' = FALSE /\ gap' = FALSE
  /\ sse' = (IF paused THEN "off" ELSE "connecting")
  /\ UNCHANGED <<paused, swap, fexp, world>>

(***************************************************************************)
(* syncNow                                                                 *)
(***************************************************************************)

RunFailsKeepsStream(unreachable) == \* mutant: the open stream is not dropped
  /\ pc' = "hold" /\ ok' = FALSE
  /\ pushOwed' = (pushOwed \/ must)
  /\ status' = (IF unreachable THEN "offline" ELSE "error")
  /\ UNCHANGED <<must, exp, login, loginOwed, syncOwed, device, sse, server, edits, news>>

\* The catch of syncNow; an unreachable server also drops the open stream.
RunFails(unreachable) ==
  /\ pc' = "hold" /\ ok' = FALSE
  /\ pushOwed' = (pushOwed \/ must)
  /\ status' = (IF unreachable THEN "offline" ELSE "error")
  /\ sse' = (IF unreachable /\ sse = "open" THEN "dropped" ELSE sse)
  /\ UNCHANGED <<must, exp, login, loginOwed, syncOwed, device, server, edits, news>>

RunSucceeds ==
  /\ pc' = "hold" /\ ok' = TRUE
  /\ status' = "success"
  /\ UNCHANGED <<must, exp, login, owed, device, sse, server, edits, news>>

\* List the devices and download the blobs not merged yet.
RunPulls ==
  /\ pc = "pull"
  /\ \/ /\ server = "up"
        /\ pc' = "merge"
        /\ UNCHANGED <<status, must, ok, exp, login, owed, device, sse, world>>
     \/ server = "down" /\ RunFails(TRUE) /\ UNCHANGED uploaded

\* The merge; `changed` tells whether state_import had anything to write.
RunMerges ==
  /\ pc = "merge"
  /\ \E changed \in BOOLEAN :
       \/ changed /\ halted /\ RunFails(FALSE)
       \/ ~(changed /\ halted) /\ ~(must \/ changed) /\ RunSucceeds
       \/ /\ ~(changed /\ halted) /\ (must \/ changed)
          /\ pc' = "export"
          /\ UNCHANGED <<status, must, ok, exp, login, owed, device, sse, server, edits, news>>
  /\ UNCHANGED uploaded

\* push(): the blob is exported, unless the session is halted ...
RunExports ==
  /\ pc = "export"
  /\ \/ halted /\ RunFails(FALSE)
     \/ /\ ~halted
        /\ pc' = "upload"
        /\ exp' = edits
        /\ UNCHANGED <<status, must, ok, login, owed, device, sse, server, edits, news>>
  /\ UNCHANGED uploaded

\* ... then PUT, with no further look at the halt.
RunUploads ==
  /\ pc = "upload"
  /\ \/ /\ server = "up"
        /\ Lands(exp)
        /\ uploaded' = exp
        /\ RunSucceeds
     \/ server = "down" /\ uploaded' = uploaded /\ RunFails(TRUE)
     \/ \* the PUT arrived, its answer did not
        /\ server = "down"
        /\ Lands(exp)
        /\ uploaded' = exp
        /\ RunFails(TRUE)
     \/ "sync" \in ErrorAnswers /\ server = "up" /\ uploaded' = uploaded /\ RunFails(FALSE)

HoldEndsKeepsOwed == \* mutant: _syncOwed is not reset after a failed sync
  /\ pc = "hold"
  /\ LET again == syncOwed /\ ok /\ ~paused /\ ~halted /\ ~AwaitingServer(status, sse) IN
       \/ /\ again /\ pc' = "pull" /\ must' = pushOwed
          /\ pushOwed' = FALSE /\ syncOwed' = FALSE /\ status' = "syncing"
       \/ ~again /\ pc' = "off" /\ UNCHANGED <<must, pushOwed, syncOwed, status>>
  /\ UNCHANGED <<ok, exp, login, loginOwed, device, sse, world>>

\* The finally of syncNow, SYNC_HOLD_MS after the start at the earliest: a sync
\* asked for meanwhile runs now, if this one succeeded.
HoldEnds ==
  /\ pc = "hold"
  /\ syncOwed' = FALSE
  /\ LET again == syncOwed /\ ok /\ ~paused /\ ~halted /\ ~AwaitingServer(status, sse) IN
       \/ /\ again
          /\ pc' = "pull" /\ must' = pushOwed /\ pushOwed' = FALSE
          /\ status' = "syncing"
       \/ /\ ~again
          /\ pc' = "off" /\ UNCHANGED <<must, pushOwed, status>>
  /\ UNCHANGED <<ok, exp, login, loginOwed, device, sse, world>>

(***************************************************************************)
(* syncOnLogin: pulls every blob, its own too, then always pushes.  It     *)
(* neither reads nor sets _syncInFlight.                                   *)
(***************************************************************************)
LoginFails(unreachable) ==
  /\ lpc' = "off"
  /\ loginOwed' = unreachable
  /\ gap' = (gap \/ ~unreachable)
  /\ status' = (IF unreachable THEN "offline" ELSE "error")
  /\ sse' = (IF unreachable /\ sse = "open" THEN "dropped" ELSE sse)
  /\ UNCHANGED <<run, lexp, pushOwed, syncOwed, timer, paused, swap, fexp, server, edits, news>>

LoginPulls ==
  /\ lpc = "pull"
  /\ \/ /\ server = "up"
        /\ lpc' = "merge"
        /\ UNCHANGED <<status, run, lexp, owed, device, sse, world>>
     \/ server = "down" /\ LoginFails(TRUE) /\ UNCHANGED uploaded

LoginMerges ==
  /\ lpc = "merge"
  /\ \/ halted /\ LoginFails(FALSE)
     \/ /\ lpc' = "export"
        /\ UNCHANGED <<status, run, lexp, owed, device, sse, server, edits, news>>
  /\ UNCHANGED uploaded

LoginExports ==
  /\ lpc = "export"
  /\ \/ halted /\ LoginFails(FALSE)
     \/ /\ ~halted
        /\ lpc' = "upload"
        /\ lexp' = edits
        /\ UNCHANGED <<status, run, owed, device, sse, server, edits, news>>
  /\ UNCHANGED uploaded

\* completeTeamLoginSetup follows the upload and swallows its own failures: the
\* success is reported at once here.
LoginUploads ==
  /\ lpc = "upload"
  /\ \/ /\ server = "up"
        /\ Lands(lexp)
        /\ uploaded' = lexp
        /\ lpc' = "off"
        /\ status' = "success"
        /\ UNCHANGED <<run, lexp, owed, device, sse, server, edits, news>>
     \/ server = "down" /\ uploaded' = uploaded /\ LoginFails(TRUE)
     \/ \* the PUT arrived, its answer did not
        /\ server = "down"
        /\ Lands(lexp)
        /\ uploaded' = lexp
        /\ LoginFails(TRUE)
     \/ "login" \in ErrorAnswers /\ server = "up" /\ uploaded' = uploaded /\ LoginFails(FALSE)

(***************************************************************************)
(* The realtime loop                                                       *)
(***************************************************************************)

StreamOpensForgetsLogin == \* mutant: the catch-up never runs the owed launch sync
  /\ sse = "connecting" /\ server = "up"
  /\ StreamOpensInHold \/ ~(pc = "hold" /\ ~ok)
  /\ sse' = "open"
  /\ SyncInBackground(FALSE, IF status = "offline" THEN "idle" ELSE status, "open")
  /\ UNCHANGED <<login, device, world>>

\* onOpen, then catchUp: the owed launch sync, else a background sync.
StreamOpens ==
  /\ sse = "connecting" /\ server = "up"
  /\ StreamOpensInHold \/ ~(pc = "hold" /\ ~ok)
  /\ sse' = "open"
  /\ LET from == IF status = "offline" THEN "idle" ELSE status IN
       \/ /\ loginOwed
          /\ lpc = "off"             \* bound: one login sync at a time
          /\ StartLogin
          /\ loginOwed' = FALSE
          /\ status' = from
          /\ UNCHANGED <<run, pushOwed, syncOwed>>
       \/ ~loginOwed /\ SyncInBackground(FALSE, from, "open") /\ UNCHANGED login
  /\ UNCHANGED <<device, world>>

\* The connection attempt, or the open stream, ends for lack of a server.
StreamLost ==
  /\ \/ sse \in {"connecting", "open"} /\ server = "down"
     \/ sse = "dropped"
  /\ sse' = "sleeping"
  /\ status' = (IF InFlight THEN status ELSE "offline")
  /\ UNCHANGED <<run, login, owed, device, world>>

\* A clean close, or STREAM_QUIET_MS without a heartbeat: no verdict on the server.
StreamEnds ==
  /\ sse = "open"
  /\ sse' = "sleeping"
  /\ UNCHANGED <<status, run, login, owed, device, world>>

\* The retry delay elapsed, or wakeSseRetry().
Retry ==
  /\ sse = "sleeping"
  /\ sse' = "connecting"
  /\ UNCHANGED <<status, run, login, owed, device, world>>

\* Another device pushed: the event carries its id, and syncNow() runs.
RemotePush ==
  /\ sse = "open" /\ server = "up"
  /\ news < MaxRemoteNews
  /\ news' = news + 1
  /\ SyncNow(FALSE, status)
  /\ UNCHANGED <<login, device, sse, server, edits, uploaded>>

ServerFlips ==
  /\ server' = (IF server = "up" THEN "down" ELSE "up")
  /\ UNCHANGED <<status, run, login, owed, device, sse, edits, uploaded, news>>

SyncStep   == RunPulls \/ RunMerges \/ RunExports \/ RunUploads \/ HoldEnds
LoginStep  == LoginPulls \/ LoginMerges \/ LoginExports \/ LoginUploads
StreamStep == StreamOpens \/ StreamLost \/ StreamEnds \/ Retry \/ RemotePush
SwapStep   == SwapStarts \/ SwapHalts \/ SwapFails
UserStep   == Edit \/ UserSync \/ Pause \/ Unpause \/ Restart

Next == SyncStep \/ LoginStep \/ StreamStep \/ SwapStep \/ TimerFires \/ UserStep \/ ServerFlips

Spec == Init /\ [][Next]_vars

\* Promises settle and timers fire; users, peers and the network are free.
Fairness == /\ WF_vars(SyncStep)
            /\ WF_vars(LoginStep)
            /\ WF_vars(TimerFires)
            /\ WF_vars(StreamOpens)
            /\ WF_vars(StreamLost)
            /\ WF_vars(Retry)
            /\ WF_vars(SwapHalts)
FairSpec == Spec /\ Fairness

(***************************************************************************)
(* Properties                                                              *)
(***************************************************************************)

FlagsOK ==
  /\ must \in BOOLEAN /\ ok \in BOOLEAN
  /\ pushOwed \in BOOLEAN /\ loginOwed \in BOOLEAN /\ syncOwed \in BOOLEAN
  /\ timer \in BOOLEAN /\ paused \in BOOLEAN /\ gap \in BOOLEAN
StagesOK ==
  /\ status \in {"idle", "syncing", "success", "error", "offline"}
  /\ pc \in {"off", "pull", "merge", "export", "upload", "hold"}
  /\ lpc \in {"off", "pull", "merge", "export", "upload"}
  /\ swap \in {"off", "flush", "out"}
  /\ sse \in {"off", "connecting", "open", "dropped", "sleeping"}
  /\ server \in {"up", "down"}
CountsOK ==
  /\ edits \in Nat /\ news \in Nat /\ uploaded \in 0..edits
  /\ exp \in 0..edits /\ lexp \in 0..edits /\ fexp \in 0..edits
\* A second sync is only ever owed to one in flight (sync.ts:730-733), and no blob
\* holds an edit nobody made.
TypeOK == FlagsOK /\ StagesOK /\ CountsOK /\ (syncOwed => InFlight)

\* An edit the server lacks is always on somebody's list: the timer, a push or a
\* launch sync that is owed, or a sync that has yet to upload it.  A paused
\* device may wait; a switch that empties the device ends the matter, and one that
\* fails, or a launch sync the server turns down, leaves it to the next edit or launch.
RunCarries   == must /\ (pc \in {"pull", "merge", "export"} \/ (pc = "upload" /\ exp = edits))
LoginCarries == lpc \in {"pull", "merge", "export"} \/ (lpc = "upload" /\ lexp = edits)
EditAccounted ==
  uploaded # edits =>
    timer \/ pushOwed \/ loginOwed \/ RunCarries \/ LoginCarries \/ paused \/ halted \/ gap

\* No blob on its way is older than the one the server has.
PutsNotOlder == \A x \in Puts : uploaded <= x

\* "Offline" is only shown while the stream is on its way to try again, so the
\* deferred push has something to wait for.
OfflineMeansRetrying ==
  status = "offline" /\ ~paused /\ swap = "off" =>
    sse \in {"dropped", "sleeping", "connecting"}

\* "that edit is pushed once the server answers again".
ServerAnswersAgain == /\ <>[](server = "up" /\ ~paused /\ swap = "off")
                      /\ <>[][~Restart]_vars
EditsReachServer == ServerAnswersAgain => <>[](uploaded = edits)

\* "a launch sync that found no server runs again once the stream opens".
LaunchSyncRuns == ServerAnswersAgain => <>[]~loginOwed
=============================================================================
