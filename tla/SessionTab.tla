----------------------------- MODULE SessionTab -----------------------------
(***************************************************************************)
(* One SSH tab and everything that connects it: the first connect or the   *)
(* restore at launch, reconnects by hand, and the backoff loops            *)
(* (stores/reconnectBackoffCore.ts, reconnectBackoff.ts, sessionStore.ts)  *)
(* over the transports the backend keeps for the tab's session id          *)
(* (commands/ssh.rs, ssh/session.rs, ssh/channel_io.rs).  Commands, their  *)
(* answers and close events travel on their own.  A close event does not   *)
(* say which transport it is about.                                        *)
(***************************************************************************)
EXTENDS Naturals, Sequences, FiniteSets

CONSTANTS MaxTasks,    \* bound: connects and loops at one time
          MaxDrops,    \* bound: transports that end
          MaxByHand,   \* bound: reconnects by hand
          CatchUp,     \* CATCH_UP_DELAYS_MS.length
          EarlyCloses  \* a transport may end before the call that made it has answered

ASSUME TabAssumption ==
  /\ MaxTasks \in Nat \ {0} /\ MaxDrops \in Nat /\ MaxByHand \in Nat /\ CatchUp \in Nat \ {0}
  /\ EarlyCloses \in BOOLEAN

None  == 0
Tasks == 1..MaxTasks
\* The one in the map, those being probed or reported, and a new one.
Conns == 1..(MaxDrops + 2)

Loops  == {"loop", "catchup"}                     \* runBackoff without and with catchUp
ByHand == {"reconnect", "passphrase", "retry"}    \* reconnect, reconnectWithPassphrase, retryConnect
First  == {"open", "restore"}                     \* connectSshSession, reconnectSavedTabs
Errors == {"transient", "final", "ended"}         \* stopsRetrying, isSessionEnded

VARIABLES
  status,   \* the tab's status; "gone" when its row was removed
  ever,     \* everConnected
  error,    \* what the shown error is: one a retry may fix, or not
  task,     \* the connects and loops under way
  current,  \* the loop of the newest generation, or None once it was cancelled
  waker,    \* whose waker is registered, if any
  chain,    \* sessionConnectChains: who holds the lock and who waits for it
  bye,      \* the disconnect command of a closed tab is on its way
  \* the backend
  conn,     \* the session's entry in SessionManager, or None
  link,     \* the reader of each transport
  closes,   \* close events on their way: <<transport, remoteExit>>
  \* the world
  online,   \* navigator.onLine
  reachable,
  drops, byHand,
  hasty     \* the user has reconnected by hand while something was connecting

tab   == <<status, ever, error>>
loops == <<current, waker>>
backend == <<conn, link, closes>>
world == <<online, reachable, drops, byHand, hasty>>
vars  == <<tab, task, loops, chain, bye, backend, world>>

Idle == [kind |-> "none", pc |-> "off", step |-> 0, err |-> "none"]
New(kind, pc) == [Idle EXCEPT !.kind = kind, !.pc = pc]
IsLoop(t) == task[t].kind \in Loops

Init ==
  /\ status = "connecting" /\ error = "none"
  /\ \E kind \in First :
       /\ task = [t \in Tasks |-> IF t = 1 THEN New(kind, "queued") ELSE Idle]
       /\ ever = (kind = "restore")
  /\ current = None /\ waker = None /\ chain = <<1>> /\ bye = FALSE
  /\ conn = None /\ link = [n \in Conns |-> "none"] /\ closes = {}
  /\ online \in BOOLEAN /\ reachable \in BOOLEAN /\ drops = 0 /\ byHand = 0
  /\ hasty = FALSE

(***************************************************************************)
(* What the tab shows                                                      *)
(***************************************************************************)

MarkConnecting == status' = "connecting" /\ error' = "none" /\ UNCHANGED ever
\* The mark functions patch the row of the session if there still is one.
MarkConnected ==
  IF status = "gone" THEN UNCHANGED tab
  ELSE status' = "connected" /\ ever' = TRUE /\ error' = "none"
MarkError(e) ==
  IF status = "gone" THEN UNCHANGED tab
  ELSE status' = "error" /\ error' = (IF e = "transient" THEN e ELSE "final") /\ UNCHANGED ever
\* removeSession: the loop is cancelled and its sleep cut short.
Woken(tasks) == IF waker = None THEN tasks ELSE [tasks EXCEPT ![waker].pc = "woken"]
Removed(tasks) ==
  /\ status' = "gone" /\ UNCHANGED <<ever, error>>
  /\ current' = None /\ waker' = None
  /\ task' = Woken(tasks)

(***************************************************************************)
(* The backoff loop                                                        *)
(***************************************************************************)

StartLoopQuietly(kind, tasks) == \* mutant: the loop leaves the status to its caller
  \E t \in Tasks :
    /\ tasks[t].pc = "off"
    /\ task' = [tasks EXCEPT ![t] = New(kind, "asleep")]
    /\ current' = t /\ waker' = t
    /\ UNCHANGED tab

\* runBackoff up to its first sleep.  Its waker takes the place of an older loop's.
StartLoop(kind, tasks) ==
  \E t \in Tasks :
    /\ tasks[t].pc = "off"
    /\ task' = [tasks EXCEPT ![t] = New(kind, "asleep")]
    /\ current' = t /\ waker' = t
    /\ MarkConnecting

Wake ==
  /\ waker # None
  /\ task' = Woken(task) /\ waker' = None
  /\ UNCHANGED <<tab, current, chain, bye, backend, world>>

LoopRunsBlindly(t) == \* mutant: a loop does not look at what happened while it slept
  /\ IsLoop(t) /\ task[t].pc \in {"asleep", "woken"}
  /\ \/ ~online /\ task' = [task EXCEPT ![t] = New(task[t].kind, "asleep")] /\ waker' = t
        /\ UNCHANGED chain
     \/ online /\ task' = [task EXCEPT ![t].pc = "queued"]
        /\ waker' = (IF waker = t THEN None ELSE waker) /\ chain' = Append(chain, t)
  /\ UNCHANGED <<tab, current, bye, backend, world>>

\* The sleep ends, by its timer or by a wake that restarts the schedule.
LoopRuns(t) ==
  LET over == current # t \/ status \in {"gone", "connected"}
      step == IF task[t].pc = "woken" THEN 0 ELSE task[t].step
      rest == IF waker = t THEN None ELSE waker IN
  /\ IsLoop(t) /\ task[t].pc \in {"asleep", "woken"}
  /\ \/ over /\ task' = [task EXCEPT ![t] = Idle] /\ waker' = rest /\ UNCHANGED chain
     \/ /\ ~over /\ ~online
        /\ task' = [task EXCEPT ![t] = New(task[t].kind, "asleep")] /\ waker' = t
        /\ UNCHANGED chain
     \/ /\ ~over /\ online
        /\ task' = [task EXCEPT ![t].pc = "queued", ![t].step = step] /\ waker' = rest
        /\ chain' = Append(chain, t)
  /\ UNCHANGED <<tab, current, bye, backend, world>>

(***************************************************************************)
(* A connect under the session's lock                                      *)
(***************************************************************************)

JobStartsAtOnce(t) == \* mutant: a connect does not wait for the one before it
  /\ task[t].pc = "queued"
  /\ task' = [task EXCEPT ![t].pc = IF task[t].kind \in {"open", "retry"} THEN "dial" ELSE "drop"]
  /\ UNCHANGED <<tab, loops, chain, bye, backend, world>>

\* The first in the chain starts; all but a first connect and a retry, which has
\* done so already, drop the old transport first.
JobStarts(t) ==
  /\ task[t].pc = "queued" /\ Head(chain) = t
  /\ task' = [task EXCEPT ![t].pc = IF task[t].kind \in {"open", "retry"} THEN "dial" ELSE "drop"]
  /\ UNCHANGED <<tab, loops, chain, bye, backend, world>>

\* SessionManager::disconnect: a reader in its loop stops without a close event, one
\* that is probing the multiplexer does not hear of it.
Hangup ==
  /\ conn' = None
  /\ link' = IF conn = None \/ link[conn] # "live" THEN link ELSE [link EXCEPT ![conn] = "none"]
  /\ UNCHANGED closes

DropLands(t) ==
  /\ task[t].pc \in {"drop", "predrop"}
  /\ Hangup
  /\ \/ task[t].pc = "drop" /\ task' = [task EXCEPT ![t].pc = "dial"] /\ UNCHANGED chain
     \/ /\ task[t].pc = "predrop"
        /\ task' = [task EXCEPT ![t].pc = "queued"] /\ chain' = Append(chain, t)
  /\ UNCHANGED <<tab, loops, bye, world>>

Free(n) == n # conn /\ link[n] = "none" /\ \A e \in closes : e[1] # n

\* ssh_connect adds its transport; one that was there is dropped with its reader.
DialAdds(t) ==
  /\ task[t].pc = "dial" /\ reachable
  /\ LET n == CHOOSE n \in Conns : Free(n) IN
       /\ conn' = n
       /\ link' = [m \in Conns |-> IF m = n THEN "live"
                                   ELSE IF m = conn /\ link[m] = "live" THEN "none" ELSE link[m]]
  /\ task' = [task EXCEPT ![t].pc = "added"]
  /\ UNCHANGED <<tab, loops, chain, bye, closes, world>>

\* A host that answers only fails for good; only an attach finds its session ended.
DialFails(t) ==
  /\ task[t].pc = "dial"
  /\ \E e \in Errors :
       /\ e = "transient" => ~reachable
       /\ e = "ended" => reachable /\ ever /\ task[t].kind # "open"
       /\ task' = [task EXCEPT ![t].pc = "failed", ![t].err = e]
  /\ UNCHANGED <<tab, loops, chain, bye, backend, world>>

AnsweredWedges(t) == \* mutant: the lock passes on after a success only
  /\ task[t].pc \in {"added", "failed"}
  /\ chain' = IF task[t].pc = "added" THEN Tail(chain) ELSE chain
  /\ UNCHANGED <<bye, backend, world>>

\* The answer arrives and the lock passes on.
Answered(t) ==
  /\ task[t].pc \in {"added", "failed"}
  /\ chain' = Tail(chain)
  /\ UNCHANGED <<bye, backend, world>>

FirstReturns(t) ==
  /\ Answered(t) /\ ~IsLoop(t)
  /\ LET done == [task EXCEPT ![t] = Idle]
         e == task[t].err IN
     \/ /\ task[t].pc = "added"
        /\ MarkConnected /\ task' = done /\ UNCHANGED loops
     \/ /\ task[t].pc = "failed" /\ e = "ended" /\ task[t].kind \in {"reconnect", "restore"}
        /\ Removed(done)
     \/ /\ task[t].pc = "failed" /\ ~(e = "ended" /\ task[t].kind \in {"reconnect", "restore"})
        /\ \/ /\ task[t].kind = "restore" /\ status # "gone" /\ e = "transient"
              /\ StartLoop("loop", done)
           \/ /\ ~(task[t].kind = "restore" /\ status # "gone" /\ e = "transient")
              /\ MarkError(e) /\ task' = done /\ UNCHANGED loops

LoopReturnsSilent(t) == \* mutant: a loop that gives up does not say so
  LET e == task[t].err IN
  /\ Answered(t) /\ IsLoop(t)
  /\ \/ /\ current = t /\ task[t].pc = "added"
        /\ MarkConnected /\ task' = [task EXCEPT ![t] = Idle] /\ UNCHANGED loops
     \/ /\ current # t \/ (task[t].pc = "failed" /\ e # "transient")
        /\ task' = [task EXCEPT ![t] = Idle] /\ UNCHANGED <<tab, loops>>
     \/ /\ current = t /\ task[t].pc = "failed" /\ e = "transient"
        /\ task' = [task EXCEPT ![t] = New(task[t].kind, "asleep")]
        /\ waker' = t /\ UNCHANGED <<tab, current>>

LoopReturns(t) ==
  LET done == [task EXCEPT ![t] = Idle]
      e == task[t].err
      step == task[t].step + 1
      last == task[t].kind = "catchup" /\ step >= CatchUp IN
  /\ Answered(t) /\ IsLoop(t)
  /\ \/ /\ current # t \/ status = "gone"
        /\ task' = done /\ UNCHANGED <<tab, loops>>
     \/ /\ current = t /\ status # "gone"
        /\ \/ /\ task[t].pc = "added"
              /\ MarkConnected /\ task' = done /\ UNCHANGED loops
           \/ /\ task[t].pc = "failed" /\ e = "ended"
              /\ Removed(done)
           \/ /\ task[t].pc = "failed" /\ (e = "final" \/ (e = "transient" /\ last))
              /\ MarkError(e) /\ task' = done /\ UNCHANGED loops
           \/ /\ task[t].pc = "failed" /\ e = "transient" /\ ~last
              /\ task' = [task EXCEPT ![t].pc = "asleep", ![t].err = "none",
                                      ![t].step = IF task[t].kind = "catchup" THEN step ELSE 0]
              /\ waker' = t /\ UNCHANGED <<tab, current>>

(***************************************************************************)
(* Transports end                                                          *)
(***************************************************************************)

Unanswered(n) == n = conn /\ \E t \in Tasks : task[t].pc = "added"

\* A lost link, or a shell that ended; one of a persistent session is probed first.
LinkEnds(n) ==
  /\ link[n] = "live" /\ drops < MaxDrops
  /\ EarlyCloses \/ ~Unanswered(n)
  /\ drops' = drops + 1
  /\ \/ \E exit \in BOOLEAN :
          link' = [link EXCEPT ![n] = "none"] /\ closes' = closes \union {<<n, exit>>}
     \/ link' = [link EXCEPT ![n] = "probing"] /\ UNCHANGED closes
  /\ UNCHANGED <<tab, task, loops, chain, bye, conn, online, reachable, byHand, hasty>>

ProbeEnds(n) ==
  /\ link[n] = "probing"
  /\ link' = [link EXCEPT ![n] = "none"]
  /\ \E exit \in BOOLEAN : closes' = closes \union {<<n, exit>>}
  /\ UNCHANGED <<tab, task, loops, chain, bye, conn, world>>

\* handleSessionClosed
CloseArrives(e) ==
  /\ e \in closes
  /\ closes' = closes \ {e}
  /\ \/ status # "connected" /\ UNCHANGED <<tab, task, loops, bye>>
     \/ status = "connected" /\ e[2] /\ Removed(task) /\ bye' = TRUE
     \/ status = "connected" /\ ~e[2] /\ StartLoop("loop", task) /\ UNCHANGED bye
  /\ UNCHANGED <<chain, conn, link, world>>

(***************************************************************************)
(* The user and the network                                                *)
(***************************************************************************)

\* closeSession: only a tab that is connected or connecting is disconnected.
CloseTab ==
  /\ status # "gone"
  /\ Removed(task)
  /\ bye' = (status \in {"connected", "connecting"})
  /\ UNCHANGED <<chain, backend, world>>

ByeLands ==
  /\ bye
  /\ bye' = FALSE
  /\ Hangup
  /\ UNCHANGED <<tab, task, loops, chain, world>>

Busy(t) == task[t].pc # "off"

\* The tab's menu offers to reconnect at any time, the error overlay the others.
ReconnectByHand(kind) ==
  /\ status # "gone" /\ (kind # "reconnect" => status = "error")
  /\ byHand < MaxByHand
  /\ byHand' = byHand + 1 /\ hasty' = (hasty \/ \E t \in Tasks : Busy(t))
  /\ MarkConnecting
  /\ \E t \in Tasks :
       /\ ~Busy(t)
       /\ task' = [task EXCEPT ![t] = New(kind, IF kind = "retry" THEN "predrop" ELSE "queued")]
       /\ chain' = IF kind = "retry" THEN chain ELSE Append(chain, t)
  /\ UNCHANGED <<loops, bye, backend, online, reachable, drops>>

GoesOffline ==
  /\ online
  /\ online' = FALSE
  /\ UNCHANGED <<tab, task, loops, chain, bye, backend, reachable, drops, byHand, hasty>>

\* networkBack: "online" or a new address; a tab whose error is the network's resumes.
NetworkBack ==
  /\ online' \in {online, TRUE}
  /\ \/ /\ status = "error" /\ error = "transient"
        /\ StartLoop(IF ever THEN "loop" ELSE "catchup", task)
     \/ /\ ~(status = "error" /\ error = "transient")
        /\ UNCHANGED <<tab, task, loops>>
  /\ UNCHANGED <<chain, bye, backend, reachable, drops, byHand, hasty>>

HostFlips ==
  /\ reachable' = ~reachable
  /\ UNCHANGED <<tab, task, loops, chain, bye, backend, online, drops, byHand, hasty>>

LoopStep(t) == LoopRuns(t) \/ LoopReturns(t)
JobStep(t)  == JobStarts(t) \/ DropLands(t) \/ DialAdds(t) \/ DialFails(t) \/ FirstReturns(t)
LinkStep    == \E n \in Conns : LinkEnds(n) \/ ProbeEnds(n)
UserStep    == CloseTab \/ Wake \/ \E kind \in ByHand : ReconnectByHand(kind)
WorldStep   == GoesOffline \/ NetworkBack \/ HostFlips

Next ==
  \/ \E t \in Tasks : LoopStep(t) \/ JobStep(t)
  \/ LinkStep \/ ByeLands
  \/ \E e \in closes : CloseArrives(e)
  \/ UserStep \/ WorldStep

Spec == Init /\ [][Next]_vars

\* Timers fire, commands land and are answered, events arrive.  No fairness for the
\* user, the network or the ends of transports.
Fairness ==
  /\ \A t \in Tasks : /\ WF_vars(LoopRuns(t)) /\ WF_vars(LoopReturns(t)) /\ WF_vars(FirstReturns(t))
                      /\ WF_vars(JobStarts(t)) /\ WF_vars(DropLands(t))
                      /\ WF_vars(DialAdds(t) \/ DialFails(t))
  /\ WF_vars(ByeLands)
  /\ \A n \in Conns : WF_vars(ProbeEnds(n))
  /\ WF_vars(\E e \in closes : CloseArrives(e))
FairSpec == Spec /\ Fairness

(***************************************************************************)
(* Properties                                                              *)
(***************************************************************************)

\* Everything is in its range; the registered waker is a sleeper's, the lock's holder
\* and waiters are the connects under way, each once, and no two of them dial.
InChain == {"queued", "drop", "dial", "added", "failed"}
TypeOK ==
  /\ status \in {"connecting", "connected", "error", "gone"}
  /\ ever \in BOOLEAN /\ error \in {"none", "transient", "final"} /\ bye \in BOOLEAN
  /\ task \in [Tasks -> [kind : {"none"} \union Loops \union ByHand \union First,
                         pc : {"off", "asleep", "woken", "predrop"} \union InChain,
                         step : 0..CatchUp, err : {"none"} \union Errors]]
  /\ current \in Tasks \union {None} /\ waker \in Tasks \union {None}
  /\ waker # None => task[waker].pc = "asleep"
  /\ chain \in Seq(Tasks) /\ Len(chain) = Cardinality({t \in Tasks : task[t].pc \in InChain})
  /\ \A i \in 1..Len(chain) : task[chain[i]].pc \in (IF i = 1 THEN InChain ELSE {"queued"})
  /\ conn \in Conns \union {None} /\ link \in [Conns -> {"none", "live", "probing"}]
  /\ closes \subseteq Conns \X BOOLEAN
  /\ online \in BOOLEAN /\ reachable \in BOOLEAN /\ drops \in 0..MaxDrops /\ byHand \in 0..MaxByHand
  /\ hasty \in BOOLEAN

\* Who will yet say how the tab fares: a connect by hand, or the loop that is current.
Reports(t) == Busy(t) /\ (IsLoop(t) => current = t)

\* A tab is never left "connecting" with nobody at work on it.
ConnectingIsWorkedOn == status = "connecting" => \E t \in Tasks : Reports(t)

\* A tab does not stay "connected" over a transport that is gone: its reader runs, its
\* close event is on its way, or a connect that began will still answer.
ConnectedIsBacked ==
  status = "connected" =>
    \/ conn # None /\ link[conn] # "none"
    \/ closes # {}
    \/ \E t \in Tasks : Reports(t) /\ task[t].pc \notin {"asleep", "woken"}

\* The same, as long as nobody reconnects by hand while something is connecting.
PatientTabsAreBacked == ~hasty => ConnectedIsBacked

\* "disconnect and drop it": once a closed tab's commands have landed, the backend
\* keeps no transport for it.
ClosedTabsLetGo ==
  status = "gone" /\ ~bye /\ (\A t \in Tasks : ~Busy(t)) => conn = None

\* A tab does not keep connecting to a host that answers.
ReachableTabsSettle == <>[](online /\ reachable) => []<>(status # "connecting")

\* A closed tab leaves no loop and no connect behind.
ClosedTabsGoQuiet == status = "gone" ~> (~bye /\ \A t \in Tasks : ~Busy(t))
=============================================================================
