-------------------------- MODULE SessionTabProofs --------------------------
(***************************************************************************)
(* One SSH tab, for any number of connects, loops, lost transports and     *)
(* reconnects by hand.                                                     *)
(*                                                                         *)
(* The types hold because the chain is a queue: it holds each connect that *)
(* is under way once, and only its head has begun (Queue).  Only the entry *)
(* of the session is a live transport, and those that ended are as many as *)
(* ended at most, so that there is always a number for a new one.          *)
(*                                                                         *)
(* Before the user interferes, one connect or loop is under way at a time, *)
(* and only while the tab shows "connecting" (Patient): that is what makes *)
(* a close event that names no transport safe.                             *)
(***************************************************************************)
EXTENDS SessionTab, FiniteSetTheorems, TLAPS

Kinds == {"none"} \union Loops \union ByHand \union First
Pcs   == {"off", "asleep", "woken", "predrop"} \union InChain
TaskRecs == [kind : Kinds, pc : Pcs, step : 0..CatchUp, err : {"none"} \union Errors]

Ranges ==
  /\ status \in {"connecting", "connected", "error", "gone"}
  /\ ever \in BOOLEAN /\ error \in {"none", "transient", "final"} /\ bye \in BOOLEAN
  /\ task \in [Tasks -> TaskRecs]
  /\ current \in Tasks \union {None} /\ waker \in Tasks \union {None}
  /\ chain \in Seq(Tasks)
  /\ conn \in Conns \union {None} /\ link \in [Conns -> {"none", "live", "probing"}]
  /\ closes \subseteq Conns \X BOOLEAN
  /\ online \in BOOLEAN /\ reachable \in BOOLEAN /\ drops \in 0..MaxDrops /\ byHand \in 0..MaxByHand
  /\ hasty \in BOOLEAN

WakerSleeps == waker # None => task[waker].pc = "asleep"

\* The chain ch is the queue of the connects among the tasks ts.
IsQueue(ts, ch) ==
  /\ \A i, j \in 1..Len(ch) : ch[i] = ch[j] => i = j
  /\ \A t \in Tasks : ts[t].pc \in InChain <=> \E i \in 1..Len(ch) : ch[i] = t
  /\ \A i \in 1..Len(ch) : i # 1 => ts[ch[i]].pc = "queued"
Queue == IsQueue(task, chain)

\* The transports that ended and were not reported yet.
Ended == {n \in Conns : link[n] = "probing" \/ \E e \in closes : e[1] = n}
LiveIsConn == \A n \in Conns : link[n] = "live" => n = conn
FewEnded == Cardinality(Ended) <= drops

TInv == Ranges /\ WakerSleeps /\ Queue /\ LiveIsConn /\ FewEnded

(***************************************************************************)
(* Tasks                                                                   *)
(***************************************************************************)

\* None is no task, and no transport.
LEMMA Numbers == /\ None \notin Tasks /\ None \notin Conns /\ 1 \in Tasks
                 /\ CatchUp \in Nat /\ CatchUp # 0 /\ MaxDrops \in Nat /\ MaxByHand \in Nat
  BY TabAssumption DEF None, Tasks, Conns

\* The records of the tasks.
LEMMA TaskRecords ==
  /\ Idle \in TaskRecs /\ Idle.pc = "off"
  /\ \A k \in Kinds, p \in Pcs : New(k, p) \in TaskRecs /\ New(k, p).pc = p /\ New(k, p).kind = k
  /\ \A r \in TaskRecs, p \in Pcs : [r EXCEPT !.pc = p] \in TaskRecs
  <1>1. Idle \in TaskRecs /\ Idle.pc = "off"
    BY Numbers DEF Idle, TaskRecs, Kinds, Pcs
  <1>2. \A k \in Kinds, p \in Pcs : New(k, p) \in TaskRecs /\ New(k, p).pc = p /\ New(k, p).kind = k
    BY <1>1 DEF New, TaskRecs, Idle
  <1>3. \A r \in TaskRecs, p \in Pcs : [r EXCEPT !.pc = p] \in TaskRecs
    BY DEF TaskRecs
  <1> QED BY <1>1, <1>2, <1>3

\* A wake moves the registered sleeper only (removeSession, wakeBackoff).
LEMMA WokenTasks ==
  ASSUME NEW ts \in [Tasks -> TaskRecs], waker \in Tasks \union {None}
  PROVE  /\ Woken(ts) \in [Tasks -> TaskRecs]
         /\ \A t \in Tasks : t # waker => Woken(ts)[t] = ts[t]
         /\ waker # None => Woken(ts)[waker].pc = "woken"
  <1>1. CASE waker = None
    BY <1>1, Numbers DEF Woken
  <1>2. CASE waker # None
    <2>1. Woken(ts) = [ts EXCEPT ![waker].pc = "woken"] /\ waker \in Tasks
      BY <1>2 DEF Woken
    <2>2. [ts[waker] EXCEPT !.pc = "woken"] \in TaskRecs
      BY <2>1, TaskRecords DEF Pcs
    <2>3. [ts[waker] EXCEPT !.pc = "woken"].pc = "woken"
      BY <2>1 DEF TaskRecs
    <2> QED BY <1>2, <2>1, <2>2, <2>3
  <1> QED BY <1>1, <1>2

(***************************************************************************)
(* The chain (sessionConnectChains)                                        *)
(***************************************************************************)

\* A task that has begun is the head.
LEMMA BegunIsHead ==
  ASSUME NEW ts, NEW ch \in Seq(Tasks), IsQueue(ts, ch), NEW t \in Tasks,
         ts[t].pc \in InChain, ts[t].pc # "queued"
  PROVE  Len(ch) \in Nat /\ Len(ch) # 0 /\ ch[1] = t
  BY DEF IsQueue

\* Nothing happens to the connects.
LEMMA QueueStays ==
  ASSUME NEW ts, NEW us, NEW ch \in Seq(Tasks), IsQueue(ts, ch),
         \A t \in Tasks : us[t].pc = ts[t].pc \/ (ts[t].pc \notin InChain /\ us[t].pc \notin InChain)
  PROVE  IsQueue(us, ch)
  <1>1. \A i \in 1..Len(ch) : ch[i] \in Tasks
    OBVIOUS
  <1>2. \A i \in 1..Len(ch) : ts[ch[i]].pc \in InChain
    BY <1>1 DEF IsQueue
  <1>3. \A i \in 1..Len(ch) : us[ch[i]].pc = ts[ch[i]].pc
    BY <1>1, <1>2
  <1> QED BY <1>3 DEF IsQueue

\* The head goes on.
LEMMA QueueHead ==
  ASSUME NEW ts, NEW us, NEW ch \in Seq(Tasks), IsQueue(ts, ch), NEW t \in Tasks,
         Len(ch) # 0 /\ ch[1] = t, us[t].pc \in InChain,
         \A u \in Tasks : u # t => us[u] = ts[u]
  PROVE  IsQueue(us, ch)
  <1>1. \A i \in 1..Len(ch) : ch[i] \in Tasks
    OBVIOUS
  <1>2. \A i \in 1..Len(ch) : i # 1 => ch[i] # t
    BY DEF IsQueue
  <1>3. ts[t].pc \in InChain
    BY DEF IsQueue
  <1> QED BY <1>1, <1>2, <1>3 DEF IsQueue

\* A connect joins (withSessionLock).
LEMMA QueueJoin ==
  ASSUME NEW ts, NEW us, NEW ch \in Seq(Tasks), IsQueue(ts, ch), NEW t \in Tasks,
         ts[t].pc \notin InChain, us[t].pc = "queued",
         \A u \in Tasks : u # t => us[u] = ts[u]
  PROVE  IsQueue(us, Append(ch, t)) /\ Append(ch, t) \in Seq(Tasks)
  <1> DEFINE c == Append(ch, t)
             n == Len(ch)
  <1>1. /\ c \in Seq(Tasks) /\ Len(c) = n + 1 /\ c[n + 1] = t /\ n \in Nat
        /\ \A i \in 1..n : c[i] = ch[i] /\ ch[i] \in Tasks
    OBVIOUS
  <1>2. \A i \in 1..n : ch[i] # t
    BY DEF IsQueue
  <1>3. \A i \in 1..(n + 1) : i \in 1..n \/ i = n + 1
    BY <1>1
  <1>4. "queued" \in InChain
    BY DEF InChain
  <1> HIDE DEF c
  <1>5. \A i, j \in 1..Len(c) : c[i] = c[j] => i = j
    BY <1>1, <1>2, <1>3 DEF IsQueue
  <1>6. ASSUME NEW u \in Tasks PROVE us[u].pc \in InChain <=> \E i \in 1..Len(c) : c[i] = u
    <2>1. CASE u = t
      BY <1>1, <1>4, <2>1
    <2>2. CASE u # t
      <3>1. us[u].pc \in InChain <=> \E i \in 1..n : ch[i] = u
        BY <2>2 DEF IsQueue
      <3>2. (\E i \in 1..Len(c) : c[i] = u) <=> \E i \in 1..n : ch[i] = u
        BY <1>1, <1>3, <2>2
      <3> QED BY <3>1, <3>2
    <2> QED BY <2>1, <2>2
  <1>7. ASSUME NEW i \in 1..Len(c), i # 1 PROVE us[c[i]].pc = "queued"
    BY <1>1, <1>2, <1>3, <1>7 DEF IsQueue
  <1>8. IsQueue(us, c)
    BY <1>5, <1>6, <1>7 DEF IsQueue
  <1> QED BY <1>1, <1>8 DEF c

\* The head's answer arrives, and the lock passes on.
LEMMA QueueLeave ==
  ASSUME NEW ts, NEW us, NEW ch \in Seq(Tasks), IsQueue(ts, ch), NEW t \in Tasks,
         ts[t].pc \in InChain, ts[t].pc # "queued", us[t].pc \notin InChain,
         \A u \in Tasks : u # t => us[u] = ts[u]
  PROVE  IsQueue(us, Tail(ch)) /\ Tail(ch) \in Seq(Tasks)
  <1> DEFINE c == Tail(ch)
             n == Len(ch)
  <1>1. n \in Nat /\ n # 0 /\ ch[1] = t
    BY BegunIsHead
  <1>2. /\ c \in Seq(Tasks) /\ Len(c) = n - 1
        /\ \A i \in 1..(n - 1) : c[i] = ch[i + 1]
    BY <1>1
  <1>3. \A i \in 1..n : (i # 1 => ch[i] # t) /\ ch[i] \in Tasks
    BY <1>1 DEF IsQueue
  <1>4. \A i \in 1..(n - 1) : i + 1 \in 1..n /\ i + 1 # 1
    BY <1>1
  <1>5. \A i \in 1..n : i # 1 => i - 1 \in 1..(n - 1) /\ (i - 1) + 1 = i
    BY <1>1
  <1> HIDE DEF c
  <1>6. \A i, j \in 1..Len(c) : c[i] = c[j] => i = j
    <2> SUFFICES ASSUME NEW i \in 1..(n - 1), NEW j \in 1..(n - 1), c[i] = c[j] PROVE i = j
      BY <1>2
    <2>1. ch[i + 1] = ch[j + 1] /\ i + 1 \in 1..n /\ j + 1 \in 1..n
      BY <1>2, <1>4
    <2>2. i + 1 = j + 1
      BY <2>1 DEF IsQueue
    <2> QED BY <2>2
  <1>7. ASSUME NEW u \in Tasks PROVE us[u].pc \in InChain <=> \E i \in 1..Len(c) : c[i] = u
    <2>1. CASE u = t
      BY <1>2, <1>3, <1>4, <2>1
    <2>2. CASE u # t
      <3>1. us[u].pc \in InChain <=> \E i \in 1..n : ch[i] = u
        BY <2>2 DEF IsQueue
      <3>2. ASSUME NEW i \in 1..n, ch[i] = u PROVE \E j \in 1..(n - 1) : c[j] = u
        BY <1>1, <1>2, <1>5, <2>2, <3>2
      <3>3. ASSUME NEW j \in 1..(n - 1), c[j] = u PROVE \E i \in 1..n : ch[i] = u
        BY <1>2, <1>4, <3>3
      <3> QED BY <1>2, <3>1, <3>2, <3>3
    <2> QED BY <2>1, <2>2
  <1>8. ASSUME NEW i \in 1..Len(c), i # 1 PROVE us[c[i]].pc = "queued"
    <2>1. i \in 1..(n - 1)
      BY <1>2, <1>8
    <2>2. c[i] = ch[i + 1] /\ i + 1 \in 1..n /\ i + 1 # 1
      BY <1>2, <1>4, <2>1
    <2> QED BY <1>3, <2>2 DEF IsQueue
  <1>9. IsQueue(us, c)
    BY <1>6, <1>7, <1>8 DEF IsQueue
  <1> QED BY <1>2, <1>9 DEF c

\* A queue is as long as there are connects.
LEMMA QueueLength ==
  ASSUME Ranges, Queue
  PROVE  Len(chain) = Cardinality({t \in Tasks : task[t].pc \in InChain})
  <1> DEFINE S == {t \in Tasks : task[t].pc \in InChain}
  <1>1. chain \in [1..Len(chain) -> S] /\ Len(chain) \in Nat
    BY DEF Ranges, Queue, IsQueue
  <1>2. chain \in Bijection(1..Len(chain), S)
    BY <1>1 DEF Queue, IsQueue, Bijection, Injection, Surjection, IsInjective
  <1>3. ExistsBijection(1..Len(chain), S)
    BY <1>2 DEF ExistsBijection
  <1> HIDE DEF S
  <1>4. Cardinality(S) = Len(chain)
    BY <1>1, <1>3, FS_CountingElements
  <1> QED BY <1>4 DEF S

(***************************************************************************)
(* What the shared pieces of the handlers do                               *)
(***************************************************************************)

\* runBackoff up to its first sleep.
LEMMA StartLoopDoes ==
  ASSUME NEW ts \in [Tasks -> TaskRecs], NEW kind \in Loops, StartLoop(kind, ts)
  PROVE  /\ task' \in [Tasks -> TaskRecs]
         /\ current' \in Tasks /\ waker' = current' /\ ts[current'].pc = "off"
         /\ task'[current'].pc = "asleep" /\ task'[current'].kind = kind
         /\ \A t \in Tasks : t # current' => task'[t] = ts[t]
         /\ status' = "connecting" /\ error' = "none" /\ ever' = ever
  <1>1. PICK t \in Tasks : /\ ts[t].pc = "off"
                           /\ task' = [ts EXCEPT ![t] = New(kind, "asleep")]
                           /\ current' = t /\ waker' = t
                           /\ MarkConnecting
    BY DEF StartLoop
  <1>2. New(kind, "asleep") \in TaskRecs /\ New(kind, "asleep").pc = "asleep" /\ New(kind, "asleep").kind = kind
    BY TaskRecords DEF Kinds, Pcs
  <1> QED BY <1>1, <1>2 DEF MarkConnecting

\* removeSession.
LEMMA RemovedDoes ==
  ASSUME NEW ts \in [Tasks -> TaskRecs], waker \in Tasks \union {None}, Removed(ts)
  PROVE  /\ task' \in [Tasks -> TaskRecs]
         /\ current' = None /\ waker' = None
         /\ \A t \in Tasks : task'[t] = ts[t] \/ (t = waker /\ task'[t].pc = "woken")
         /\ status' = "gone" /\ ever' = ever /\ error' = error
  <1>1. /\ task' = Woken(ts) /\ current' = None /\ waker' = None
        /\ status' = "gone" /\ ever' = ever /\ error' = error
    BY DEF Removed
  <1>2. \A t \in Tasks : t # None
    BY Numbers
  <1> QED BY <1>1, <1>2, WokenTasks

\* The mark functions.
LEMMA MarksDo ==
  ASSUME Ranges
  PROVE  /\ MarkConnected => /\ status' \in {"connected", "gone"} /\ ever' \in BOOLEAN
                             /\ error' \in {"none", "transient", "final"}
                             /\ status' = "gone" <=> status = "gone"
         /\ \A e \in Errors : MarkError(e) => /\ status' \in {"error", "gone"} /\ ever' \in BOOLEAN
                                              /\ error' \in {"none", "transient", "final"}
                                              /\ status' = "gone" <=> status = "gone"
  BY DEF Ranges, MarkConnected, MarkError, tab

\* A connect that is answered is off the list.
LEMMA Finished ==
  ASSUME Ranges, NEW t \in Tasks
  PROVE  /\ [task EXCEPT ![t] = Idle] \in [Tasks -> TaskRecs]
         /\ [task EXCEPT ![t] = Idle][t].pc = "off"
         /\ \A u \in Tasks : u # t => [task EXCEPT ![t] = Idle][u] = task[u]
  BY TaskRecords DEF Ranges

(***************************************************************************)
(* Ranges                                                                  *)
(***************************************************************************)

\* There is always a transport number to give: those that ended are too few.
LEMMA FreeConn ==
  ASSUME Ranges, LiveIsConn, FewEnded
  PROVE  \E n \in Conns : Free(n)
  <1> DEFINE Taken == Ended \union {conn}
  <1>1. IsFiniteSet(Conns) /\ Cardinality(Conns) = MaxDrops + 2
    <2>1. MaxDrops + 2 \in Nat /\ 1 \in Nat
      BY Numbers
    <2> QED BY <2>1, FS_Interval DEF Conns
  <1>2. IsFiniteSet(Ended) /\ Cardinality(Ended) \in Nat
    <2>1. Ended \in SUBSET Conns
      BY DEF Ended
    <2> QED BY <1>1, <2>1, FS_Subset, FS_CardinalityType
  <1>3. IsFiniteSet(Taken) /\ Cardinality(Taken) <= Cardinality(Ended) + 1
    BY <1>2, FS_AddElement
  <1>4. Cardinality(Taken) < Cardinality(Conns)
    <2>1. drops \in Nat /\ drops <= MaxDrops /\ MaxDrops \in Nat /\ Cardinality(Ended) <= drops
      BY Numbers DEF Ranges, FewEnded
    <2>2. Cardinality(Taken) \in Nat
      BY <1>3, FS_CardinalityType
    <2> HIDE DEF Taken
    <2> QED BY <1>1, <1>2, <1>3, <2>1, <2>2
  <1>5. ~(Conns \subseteq Taken)
    <2> SUFFICES ASSUME Conns \subseteq Taken PROVE FALSE
      OBVIOUS
    <2>1. Cardinality(Conns) <= Cardinality(Taken)
      <3> HIDE DEF Taken
      <3> QED BY <1>3, FS_Subset
    <2>2. Cardinality(Conns) \in Nat /\ Cardinality(Taken) \in Nat
      BY <1>1, <1>3, FS_CardinalityType
    <2> HIDE DEF Taken
    <2> QED BY <1>4, <2>1, <2>2
  <1>6. PICK n \in Conns : n \notin Taken
    BY <1>5
  <1>7. n # conn /\ link[n] = "none" /\ \A e \in closes : e[1] # n
    BY <1>6 DEF Ended, LiveIsConn, Ranges
  <1> QED BY <1>7 DEF Free

\* The end of a loop's sleep.
LEMMA LoopRunsDoes ==
  ASSUME Ranges, NEW t \in Tasks, LoopRuns(t)
  PROVE  /\ IsLoop(t) /\ task[t].pc \in {"asleep", "woken"}
         /\ task' \in [Tasks -> TaskRecs] /\ \A u \in Tasks : u # t => task'[u] = task[u]
         /\ \/ /\ task'[t].pc = "off" /\ (current # t \/ status \in {"gone", "connected"})
               /\ waker' = (IF waker = t THEN None ELSE waker) /\ chain' = chain
            \/ /\ task'[t].pc = "asleep" /\ current = t
               /\ waker' = t /\ chain' = chain
            \/ /\ task'[t].pc = "queued" /\ current = t /\ status \notin {"gone", "connected"}
               /\ waker' = (IF waker = t THEN None ELSE waker) /\ chain' = Append(chain, t)
         /\ UNCHANGED <<tab, current, bye, backend, world>>
  <1>1. /\ task[t] \in TaskRecs /\ task[t].kind \in Kinds /\ task[t].step \in 0..CatchUp
        /\ 0 \in 0..CatchUp /\ task \in [Tasks -> TaskRecs]
    BY Numbers DEF Ranges, TaskRecs
  <1>2. New(task[t].kind, "asleep") \in TaskRecs /\ New(task[t].kind, "asleep").pc = "asleep"
    BY <1>1, TaskRecords DEF Pcs
  <1>3. /\ IsLoop(t) /\ task[t].pc \in {"asleep", "woken"}
        /\ UNCHANGED <<tab, current, bye, backend, world>>
    BY DEF LoopRuns
  <1>4. CASE /\ current # t \/ status \in {"gone", "connected"}
             /\ task' = [task EXCEPT ![t] = Idle]
             /\ waker' = (IF waker = t THEN None ELSE waker) /\ UNCHANGED chain
    BY <1>1, <1>3, <1>4, TaskRecords
  <1>5. CASE /\ ~(current # t \/ status \in {"gone", "connected"})
             /\ task' = [task EXCEPT ![t] = New(task[t].kind, "asleep")] /\ waker' = t
             /\ UNCHANGED chain
    BY <1>1, <1>2, <1>3, <1>5
  <1>6. ASSUME NEW n \in 0..CatchUp,
               ~(current # t \/ status \in {"gone", "connected"}),
               task' = [task EXCEPT ![t].pc = "queued", ![t].step = n],
               waker' = (IF waker = t THEN None ELSE waker), chain' = Append(chain, t)
        PROVE  /\ task' \in [Tasks -> TaskRecs] /\ \A u \in Tasks : u # t => task'[u] = task[u]
               /\ task'[t].pc = "queued"
    <2>1. [[task[t] EXCEPT !.pc = "queued"] EXCEPT !.step = n] \in TaskRecs
      BY <1>1 DEF TaskRecs, Pcs, InChain
    <2>2. [[task[t] EXCEPT !.pc = "queued"] EXCEPT !.step = n].pc = "queued"
      BY <1>1 DEF TaskRecs
    <2> QED BY <1>1, <1>6, <2>1, <2>2
  <1> QED BY <1>1, <1>3, <1>4, <1>5, <1>6 DEF LoopRuns

\* The ranges survive every step.
LEMMA StepRanges == TInv /\ [Next]_vars => Ranges'
  <1> SUFFICES ASSUME TInv, [Next]_vars PROVE Ranges'
    OBVIOUS
  <1>0. Ranges /\ waker \in Tasks \union {None} /\ task \in [Tasks -> TaskRecs]
    BY DEF TInv, Ranges
  <1>1. ASSUME NEW t \in Tasks, LoopRuns(t) PROVE Ranges'
    <2>1. /\ task' \in [Tasks -> TaskRecs] /\ waker' \in {t, None, waker}
          /\ chain' = chain \/ chain' = Append(chain, t)
          /\ UNCHANGED <<tab, current, bye, backend, world>>
      BY <1>0, <1>1, LoopRunsDoes
    <2>2. chain' \in Seq(Tasks)
      BY <2>1 DEF TInv, Ranges
    <2> QED BY <1>0, <2>1, <2>2 DEF Ranges, tab, backend, world
  <1>2. ASSUME NEW t \in Tasks, LoopReturns(t) PROVE Ranges'
    <2>1. /\ chain' \in Seq(Tasks)
          /\ UNCHANGED <<bye, backend, world>> /\ task[t].pc \in {"added", "failed"} /\ IsLoop(t)
      <3>1. Len(chain) # 0
        BY <1>0, <1>2, BegunIsHead DEF LoopReturns, Answered, TInv, Queue, InChain, Ranges
      <3> QED BY <1>0, <1>2, <3>1 DEF LoopReturns, Answered, Ranges
    <2>2. CASE current # t \/ status = "gone"
      BY <1>0, <1>2, <2>1, <2>2, Finished DEF LoopReturns, Ranges, tab, loops, backend, world
    <2>3. CASE ~(current # t \/ status = "gone")
      <3> DEFINE done == [task EXCEPT ![t] = Idle]
      <3>1. CASE MarkConnected /\ task' = done /\ UNCHANGED loops
        BY <1>0, <2>1, <3>1, Finished, MarksDo DEF Ranges, loops, backend, world
      <3>2. CASE Removed(done)
        BY <1>0, <2>1, <3>2, Finished, RemovedDoes DEF Ranges, loops, backend, world
      <3>3. CASE MarkError(task[t].err) /\ task' = done /\ UNCHANGED loops /\ task[t].err \in Errors
        BY <1>0, <2>1, <3>3, Finished, MarksDo DEF Ranges, loops, backend, world
      <3>4. CASE /\ ~(task[t].kind = "catchup" /\ task[t].step + 1 >= CatchUp)
                 /\ task' = [task EXCEPT ![t].pc = "asleep", ![t].err = "none",
                                 ![t].step = IF task[t].kind = "catchup" THEN task[t].step + 1 ELSE 0]
                 /\ waker' = t /\ UNCHANGED <<tab, current>>
        <4>1. task[t] \in TaskRecs /\ task[t].step \in 0..CatchUp
          BY <1>0 DEF TaskRecs
        <4>2. (IF task[t].kind = "catchup" THEN task[t].step + 1 ELSE 0) \in 0..CatchUp
          BY <3>4, <4>1, Numbers
        <4>3. \A n \in 0..CatchUp : [[[task[t] EXCEPT !.pc = "asleep"] EXCEPT !.err = "none"] EXCEPT !.step = n] \in TaskRecs
          BY <4>1 DEF TaskRecs, Pcs
        <4>4. task' \in [Tasks -> TaskRecs]
          BY <1>0, <3>4, <4>2, <4>3
        <4> QED BY <1>0, <2>1, <3>4, <4>4 DEF Ranges, tab, loops, backend, world
      <3> QED BY <1>2, <2>3, <3>1, <3>2, <3>3, <3>4 DEF LoopReturns, Errors
    <2> QED BY <2>2, <2>3
  <1>3. ASSUME NEW t \in Tasks, JobStarts(t) PROVE Ranges'
    BY <1>0, <1>3, TaskRecords DEF JobStarts, Ranges, tab, loops, backend, world, Pcs, InChain
  <1>4. ASSUME NEW t \in Tasks, DropLands(t) PROVE Ranges'
    <2>1. task' \in [Tasks -> TaskRecs] /\ chain' \in Seq(Tasks)
      <3>1. [task[t] EXCEPT !.pc = "dial"] \in TaskRecs /\ [task[t] EXCEPT !.pc = "queued"] \in TaskRecs
        BY <1>0, TaskRecords DEF Pcs, InChain
      <3>2. CASE task' = [task EXCEPT ![t].pc = "dial"] /\ UNCHANGED chain
        BY <1>0, <3>1, <3>2 DEF Ranges
      <3>3. CASE task' = [task EXCEPT ![t].pc = "queued"] /\ chain' = Append(chain, t)
        <4>1. task' \in [Tasks -> TaskRecs]
          BY <1>0, <3>1, <3>3
        <4>2. chain' \in Seq(Tasks)
          BY <1>0, <3>3 DEF Ranges
        <4> QED BY <4>1, <4>2
      <3> QED BY <1>4, <3>2, <3>3 DEF DropLands
    <2>2. conn' \in Conns \union {None} /\ link' \in [Conns -> {"none", "live", "probing"}] /\ closes' = closes
      BY <1>0, <1>4 DEF DropLands, Hangup, Ranges
    <2> QED BY <1>0, <1>4, <2>1, <2>2 DEF DropLands, Ranges, tab, loops, world
  <1>5. ASSUME NEW t \in Tasks, DialAdds(t) PROVE Ranges'
    <2>1. task' \in [Tasks -> TaskRecs]
      BY <1>0, <1>5, TaskRecords DEF DialAdds, Pcs, InChain
    <2>2. (CHOOSE n \in Conns : Free(n)) \in Conns
      BY FreeConn DEF TInv
    <2>3. conn' \in Conns /\ link' \in [Conns -> {"none", "live", "probing"}]
      BY <1>0, <1>5, <2>2 DEF DialAdds, Ranges
    <2> QED BY <1>0, <1>5, <2>1, <2>3 DEF DialAdds, Ranges, tab, loops, world
  <1>6. ASSUME NEW t \in Tasks, DialFails(t) PROVE Ranges'
    <2>1. PICK e \in Errors : task' = [task EXCEPT ![t].pc = "failed", ![t].err = e]
      BY <1>6 DEF DialFails
    <2>2. [[task[t] EXCEPT !.pc = "failed"] EXCEPT !.err = e] \in TaskRecs
      BY <1>0 DEF TaskRecs, Pcs, InChain
    <2>3. task' \in [Tasks -> TaskRecs]
      BY <1>0, <2>1, <2>2
    <2> QED BY <1>0, <1>6, <2>3 DEF DialFails, Ranges, tab, loops, backend, world
  <1>7. ASSUME NEW t \in Tasks, FirstReturns(t) PROVE Ranges'
    <2>1. /\ chain' \in Seq(Tasks)
          /\ UNCHANGED <<bye, backend, world>> /\ task[t].pc \in {"added", "failed"}
      <3>1. Len(chain) # 0
        BY <1>0, <1>7, BegunIsHead DEF FirstReturns, Answered, TInv, Queue, InChain, Ranges
      <3> QED BY <1>0, <1>7, <3>1 DEF FirstReturns, Answered, Ranges
    <2> DEFINE done == [task EXCEPT ![t] = Idle]
    <2>2. CASE MarkConnected /\ task' = done /\ UNCHANGED loops
      BY <1>0, <2>1, <2>2, Finished, MarksDo DEF Ranges, loops, backend, world
    <2>3. CASE Removed(done)
      BY <1>0, <2>1, <2>3, Finished, RemovedDoes DEF Ranges, loops, backend, world
    <2>4. CASE StartLoop("loop", done)
      BY <1>0, <2>1, <2>4, Finished, StartLoopDoes DEF Ranges, loops, backend, world, Loops
    <2>5. CASE MarkError(task[t].err) /\ task' = done /\ UNCHANGED loops
      <3>1. task[t].err \in {"none"} \union Errors
        BY <1>0 DEF TaskRecs
      <3>2. status' \in {"error", "gone"} /\ ever' \in BOOLEAN /\ error' \in {"none", "transient", "final"}
        BY <1>0, <2>5 DEF MarkError, tab, Ranges
      <3> QED BY <1>0, <2>1, <2>5, <3>2, Finished DEF Ranges, loops, backend, world
    <2> QED BY <1>7, <2>2, <2>3, <2>4, <2>5 DEF FirstReturns
  <1>8. ASSUME NEW n \in Conns, LinkEnds(n) PROVE Ranges'
    <2>1. drops' \in 0..MaxDrops
      BY <1>0, <1>8, Numbers DEF LinkEnds, Ranges
    <2>2. link' \in [Conns -> {"none", "live", "probing"}] /\ closes' \subseteq Conns \X BOOLEAN
      BY <1>0, <1>8 DEF LinkEnds, Ranges
    <2> QED BY <1>0, <1>8, <2>1, <2>2 DEF LinkEnds, Ranges, tab, loops
  <1>9. ASSUME NEW n \in Conns, ProbeEnds(n) PROVE Ranges'
    BY <1>0, <1>9 DEF ProbeEnds, Ranges, tab, loops, world
  <1>10. ASSUME ByeLands PROVE Ranges'
    BY <1>0, <1>10 DEF ByeLands, Hangup, Ranges, tab, loops, world
  <1>11. ASSUME NEW e \in closes, CloseArrives(e) PROVE Ranges'
    <2>1. CASE UNCHANGED <<tab, task, loops, bye>>
      BY <1>0, <1>11, <2>1 DEF CloseArrives, Ranges, tab, loops, world
    <2>2. CASE Removed(task) /\ bye' = TRUE
      BY <1>0, <1>11, <2>2, RemovedDoes DEF CloseArrives, Ranges, world
    <2>3. CASE StartLoop("loop", task) /\ UNCHANGED bye
      BY <1>0, <1>11, <2>3, StartLoopDoes DEF CloseArrives, Ranges, world, Loops
    <2> QED BY <1>11, <2>1, <2>2, <2>3 DEF CloseArrives
  <1>12. ASSUME CloseTab PROVE Ranges'
    BY <1>0, <1>12, RemovedDoes DEF CloseTab, Ranges, backend, world
  <1>13. ASSUME Wake PROVE Ranges'
    BY <1>0, <1>13, WokenTasks DEF Wake, Ranges, tab, backend, world
  <1>14. ASSUME NEW kind \in ByHand, ReconnectByHand(kind) PROVE Ranges'
    <2>1. PICK t \in Tasks :
            /\ task' = [task EXCEPT ![t] = New(kind, IF kind = "retry" THEN "predrop" ELSE "queued")]
            /\ chain' = IF kind = "retry" THEN chain ELSE Append(chain, t)
      BY <1>14 DEF ReconnectByHand
    <2>2. New(kind, IF kind = "retry" THEN "predrop" ELSE "queued") \in TaskRecs
      BY TaskRecords DEF Kinds, Pcs, InChain
    <2>3. task' \in [Tasks -> TaskRecs] /\ chain' \in Seq(Tasks)
      BY <1>0, <2>1, <2>2 DEF Ranges
    <2>4. byHand' \in 0..MaxByHand /\ hasty' \in BOOLEAN
      BY <1>0, <1>14, Numbers DEF ReconnectByHand, Ranges
    <2> QED BY <1>0, <1>14, <2>3, <2>4 DEF ReconnectByHand, MarkConnecting, Ranges, loops, backend
  <1>15. ASSUME GoesOffline \/ HostFlips PROVE Ranges'
    BY <1>0, <1>15 DEF GoesOffline, HostFlips, Ranges, tab, loops, backend
  <1>16. ASSUME NetworkBack PROVE Ranges'
    <2>1. online' \in BOOLEAN
      BY <1>0, <1>16 DEF NetworkBack, Ranges
    <2>2. CASE UNCHANGED <<tab, task, loops>>
      BY <1>0, <1>16, <2>1, <2>2 DEF NetworkBack, Ranges, tab, loops, backend
    <2>3. CASE StartLoop(IF ever THEN "loop" ELSE "catchup", task)
      BY <1>0, <1>16, <2>1, <2>3, StartLoopDoes DEF NetworkBack, Ranges, backend, Loops
    <2> QED BY <1>16, <2>2, <2>3 DEF NetworkBack
  <1>17. CASE UNCHANGED vars
    BY <1>0, <1>17 DEF vars, Ranges, tab, loops, backend, world
  <1> QED BY <1>1, <1>2, <1>3, <1>4, <1>5, <1>6, <1>7, <1>8, <1>9, <1>10, <1>11, <1>12, <1>13, <1>14,
             <1>15, <1>16, <1>17
          DEF Next, LoopStep, JobStep, LinkStep, UserStep, WorldStep

(***************************************************************************)
(* The queue and the waker                                                 *)
(***************************************************************************)

\* The pcs of the chain are no pcs of a sleeper.
LEMMA ChainPcs == /\ {"queued", "drop", "dial", "added", "failed"} \subseteq InChain
                  /\ \A p \in {"off", "asleep", "woken", "predrop"} : p \notin InChain
  BY DEF InChain

\* What was answered leaves the queue, and was not asleep.
LEMMA AnsweredLeaves ==
  ASSUME TInv, NEW t \in Tasks, Answered(t)
  PROVE  /\ chain' = Tail(chain) /\ t # waker
         /\ IsQueue([task EXCEPT ![t] = Idle], chain')
         /\ \A us : us[t].pc \notin InChain /\ (\A u \in Tasks : u # t => us[u] = task[u])
                      => IsQueue(us, chain')
  <1>1. /\ chain' = Tail(chain) /\ chain \in Seq(Tasks) /\ IsQueue(task, chain)
        /\ task[t].pc \in InChain /\ task[t].pc # "queued"
    BY ChainPcs DEF Answered, TInv, Ranges, Queue
  <1>2. t # waker
    BY ChainPcs, <1>1, Numbers DEF TInv, WakerSleeps
  <1>3. \A us : us[t].pc \notin InChain /\ (\A u \in Tasks : u # t => us[u] = task[u])
                  => IsQueue(us, chain')
    BY <1>1, QueueLeave
  <1>4. IsQueue([task EXCEPT ![t] = Idle], chain')
    BY <1>3, Finished, ChainPcs DEF TInv
  <1> QED BY <1>1, <1>2, <1>3, <1>4

\* Loops that start and tabs that are removed leave the queue as it is, and the waker
\* with one that sleeps or with none.
LEMMA StartedOrRemoved ==
  ASSUME NEW ts \in [Tasks -> TaskRecs], NEW ch \in Seq(Tasks), IsQueue(ts, ch),
         waker \in Tasks \union {None}, waker # None => ts[waker].pc = "asleep",
         (\E kind \in Loops : StartLoop(kind, ts)) \/ Removed(ts)
  PROVE  IsQueue(task', ch) /\ (waker' # None => task'[waker'].pc = "asleep")
  <1>1. CASE Removed(ts)
    <2>1. \A u \in Tasks : \/ task'[u].pc = ts[u].pc
                           \/ ts[u].pc \notin InChain /\ task'[u].pc \notin InChain
      BY <1>1, RemovedDoes, Numbers, ChainPcs
    <2> QED BY <1>1, <2>1, QueueStays, RemovedDoes
  <1>2. ASSUME NEW kind \in Loops, StartLoop(kind, ts)
        PROVE  IsQueue(task', ch) /\ (waker' # None => task'[waker'].pc = "asleep")
    <2>1. \A u \in Tasks : \/ task'[u].pc = ts[u].pc
                           \/ ts[u].pc \notin InChain /\ task'[u].pc \notin InChain
      BY <1>2, StartLoopDoes, ChainPcs
    <2> QED BY <1>2, <2>1, QueueStays, StartLoopDoes
  <1> QED BY <1>1, <1>2

\* Every step keeps both.
LEMMA StepQueue == TInv /\ [Next]_vars => Queue' /\ WakerSleeps'
  <1> SUFFICES ASSUME TInv, [Next]_vars PROVE IsQueue(task', chain') /\ WakerSleeps'
    BY DEF Queue, IsQueue
  <1>0. /\ Ranges /\ waker \in Tasks \union {None} /\ task \in [Tasks -> TaskRecs]
        /\ chain \in Seq(Tasks) /\ IsQueue(task, chain)
        /\ waker # None => task[waker].pc = "asleep"
    BY DEF TInv, Ranges, Queue, WakerSleeps
  <1> DEFINE Goal == IsQueue(task', chain') /\ (waker' # None => task'[waker'].pc = "asleep")
  <1>1. ASSUME NEW t \in Tasks, LoopRuns(t) PROVE Goal
    <2>1. /\ task[t].pc \notin InChain /\ task'[t].pc \in {"off", "asleep", "queued"}
          /\ \A u \in Tasks : u # t => task'[u] = task[u]
      BY <1>0, <1>1, LoopRunsDoes, ChainPcs
    <2>2. CASE chain' = chain /\ task'[t].pc # "queued"
      BY <1>0, <2>1, <2>2, QueueStays, <1>1, LoopRunsDoes, ChainPcs, Numbers
    <2>3. CASE chain' = Append(chain, t) /\ task'[t].pc = "queued"
      BY <1>0, <2>1, <2>3, QueueJoin, <1>1, LoopRunsDoes, Numbers
    <2> QED BY <1>0, <1>1, <2>2, <2>3, LoopRunsDoes
  <1>2. ASSUME NEW t \in Tasks, LoopReturns(t) PROVE Goal
    <2> DEFINE done == [task EXCEPT ![t] = Idle]
    <2>1. Answered(t) /\ done \in [Tasks -> TaskRecs]
      BY <1>0, <1>2, Finished DEF LoopReturns
    <2>2. /\ IsQueue(done, chain') /\ t # waker /\ chain' \in Seq(Tasks)
          /\ waker # None => done[waker].pc = "asleep"
          /\ \A u \in Tasks : u # t => done[u] = task[u]
      <3>1. chain' \in Seq(Tasks)
        BY <1>2, StepRanges DEF Next, LoopStep, Ranges
      <3> QED BY <1>0, <2>1, <3>1, AnsweredLeaves, Finished, Numbers
    <2>3. CASE task' = done /\ waker' = waker
      BY <2>2, <2>3
    <2>4. CASE Removed(done)
      BY <1>0, <2>1, <2>2, <2>4, StartedOrRemoved
    <2>5. CASE /\ task' = [task EXCEPT ![t].pc = "asleep", ![t].err = "none",
                                       ![t].step = IF task[t].kind = "catchup" THEN task[t].step + 1 ELSE 0]
               /\ waker' = t
      <3>1. task'[t].pc = "asleep" /\ \A u \in Tasks : u # t => task'[u] = task[u]
        BY <1>0, <2>5 DEF TaskRecs
      <3>2. IsQueue(task', chain')
        <4>1. task'[t].pc \notin InChain
          BY <3>1, ChainPcs
        <4> QED BY <2>1, <3>1, <4>1, AnsweredLeaves
      <3> QED BY <2>5, <3>1, <3>2
    <2> QED BY <1>2, <2>3, <2>4, <2>5 DEF LoopReturns, loops
  <1>3. ASSUME NEW t \in Tasks, JobStarts(t) PROVE Goal
    <2>1. /\ task[t].pc = "queued" /\ chain' = chain /\ waker' = waker
          /\ task'[t].pc \in {"dial", "drop"} /\ \A u \in Tasks : u # t => task'[u] = task[u]
      BY <1>0, <1>3 DEF JobStarts, TaskRecs, loops
    <2>2. Len(chain) # 0 /\ chain[1] = t
      BY <1>0, <1>3, <2>1, ChainPcs DEF JobStarts, IsQueue
    <2>3. IsQueue(task', chain)
      BY <1>0, <2>1, <2>2, QueueHead, ChainPcs
    <2>4. t # waker
      BY <1>0, <2>1, Numbers
    <2> QED BY <1>0, <2>1, <2>3, <2>4
  <1>4. ASSUME NEW t \in Tasks, DropLands(t) PROVE Goal
    <2>1. CASE task[t].pc = "drop" /\ task' = [task EXCEPT ![t].pc = "dial"] /\ chain' = chain
      <3>1. task'[t].pc = "dial" /\ \A u \in Tasks : u # t => task'[u] = task[u]
        BY <1>0, <2>1 DEF TaskRecs
      <3>2. IsQueue(task', chain)
        <4>1. Len(chain) # 0 /\ chain[1] = t
          BY <1>0, <2>1, BegunIsHead, ChainPcs
        <4> QED BY <1>0, <3>1, <4>1, QueueHead, ChainPcs
      <3> QED BY <1>0, <1>4, <2>1, <3>1, <3>2, Numbers DEF DropLands, loops
    <2>2. CASE /\ task[t].pc = "predrop"
               /\ task' = [task EXCEPT ![t].pc = "queued"] /\ chain' = Append(chain, t)
      <3>1. task'[t].pc = "queued" /\ \A u \in Tasks : u # t => task'[u] = task[u]
        BY <1>0, <2>2 DEF TaskRecs
      <3>2. IsQueue(task', chain')
        BY <1>0, <2>2, <3>1, QueueJoin, ChainPcs
      <3> QED BY <1>0, <1>4, <2>2, <3>1, <3>2, Numbers DEF DropLands, loops
    <2> QED BY <1>4, <2>1, <2>2 DEF DropLands
  <1>5. ASSUME NEW t \in Tasks, DialAdds(t) \/ DialFails(t) PROVE Goal
    <2>1. /\ task[t].pc = "dial" /\ chain' = chain /\ waker' = waker
          /\ task'[t].pc \in {"added", "failed"} /\ \A u \in Tasks : u # t => task'[u] = task[u]
      BY <1>0, <1>5 DEF DialAdds, DialFails, TaskRecs, loops
    <2>2. IsQueue(task', chain)
      BY <1>0, <2>1, QueueHead, BegunIsHead, ChainPcs
    <2> QED BY <1>0, <2>1, <2>2, Numbers
  <1>6. ASSUME NEW t \in Tasks, FirstReturns(t) PROVE Goal
    <2> DEFINE done == [task EXCEPT ![t] = Idle]
    <2>1. Answered(t) /\ done \in [Tasks -> TaskRecs]
      BY <1>0, <1>6, Finished DEF FirstReturns
    <2>2. /\ IsQueue(done, chain') /\ t # waker /\ chain' \in Seq(Tasks)
          /\ waker # None => done[waker].pc = "asleep"
      <3>1. chain' \in Seq(Tasks)
        BY <1>6, StepRanges DEF Next, JobStep, Ranges
      <3> QED BY <1>0, <2>1, <3>1, AnsweredLeaves, Finished, Numbers
    <2>3. CASE task' = done /\ waker' = waker
      BY <2>2, <2>3
    <2>4. CASE Removed(done) \/ StartLoop("loop", done)
      <3>1. "loop" \in Loops
        BY DEF Loops
      <3> QED BY <1>0, <2>1, <2>2, <2>4, <3>1, StartedOrRemoved
    <2> QED BY <1>6, <2>3, <2>4 DEF FirstReturns, loops
  <1>7. ASSUME UNCHANGED <<task, chain, waker>> PROVE Goal
    BY <1>0, <1>7
  <1>8. ASSUME NEW n \in Conns, LinkEnds(n) \/ ProbeEnds(n) PROVE Goal
    BY <1>7, <1>8 DEF LinkEnds, ProbeEnds, loops
  <1>9. ASSUME ByeLands PROVE Goal
    BY <1>7, <1>9 DEF ByeLands, loops
  <1>10. ASSUME NEW e \in closes, CloseArrives(e) PROVE Goal
    <2>1. CASE UNCHANGED <<task, loops>>
      BY <1>7, <1>10, <2>1 DEF CloseArrives, loops
    <2>2. CASE Removed(task) \/ StartLoop("loop", task)
      <3>1. "loop" \in Loops /\ chain' = chain
        BY <1>10 DEF Loops, CloseArrives
      <3> QED BY <1>0, <2>2, <3>1, StartedOrRemoved
    <2> QED BY <1>10, <2>1, <2>2 DEF CloseArrives
  <1>11. ASSUME CloseTab PROVE Goal
    BY <1>0, <1>11, StartedOrRemoved DEF CloseTab
  <1>12. ASSUME Wake PROVE Goal
    <2>1. /\ waker # None /\ waker \in Tasks /\ waker' = None /\ chain' = chain /\ task' = Woken(task)
      BY <1>0, <1>12 DEF Wake
    <2>2. \A u \in Tasks : \/ task'[u].pc = task[u].pc
                           \/ task[u].pc \notin InChain /\ task'[u].pc \notin InChain
      BY <1>0, <2>1, WokenTasks, ChainPcs
    <2> QED BY <1>0, <2>1, <2>2, QueueStays
  <1>13. ASSUME NEW kind \in ByHand, ReconnectByHand(kind) PROVE Goal
    <2>1. PICK t \in Tasks :
            /\ task[t].pc = "off"
            /\ task' = [task EXCEPT ![t] = New(kind, IF kind = "retry" THEN "predrop" ELSE "queued")]
            /\ chain' = IF kind = "retry" THEN chain ELSE Append(chain, t)
      BY <1>13 DEF ReconnectByHand, Busy
    <2>2. /\ task'[t].pc = IF kind = "retry" THEN "predrop" ELSE "queued"
          /\ \A u \in Tasks : u # t => task'[u] = task[u]
      <3>1. \A p \in {"predrop", "queued"} : New(kind, p).pc = p
        BY TaskRecords DEF Kinds, Pcs, InChain
      <3> QED BY <1>0, <2>1, <3>1
    <2>3. waker' = waker /\ t # waker
      BY <1>0, <1>13, <2>1, Numbers DEF ReconnectByHand, loops
    <2>4. CASE kind = "retry"
      <3>1. \A u \in Tasks : \/ task'[u].pc = task[u].pc
                             \/ task[u].pc \notin InChain /\ task'[u].pc \notin InChain
        BY <2>1, <2>2, <2>4, ChainPcs
      <3>2. IsQueue(task', chain)
        BY <1>0, <3>1, QueueStays
      <3> QED BY <1>0, <2>1, <2>2, <2>3, <2>4, <3>2
    <2>5. CASE kind # "retry"
      BY <1>0, <2>1, <2>2, <2>3, <2>5, QueueJoin, ChainPcs
    <2> QED BY <2>4, <2>5
  <1>14. ASSUME GoesOffline \/ HostFlips PROVE Goal
    BY <1>7, <1>14 DEF GoesOffline, HostFlips, loops
  <1>15. ASSUME NetworkBack PROVE Goal
    <2>1. CASE UNCHANGED <<task, loops>>
      BY <1>7, <1>15, <2>1 DEF NetworkBack, loops
    <2>2. CASE StartLoop(IF ever THEN "loop" ELSE "catchup", task)
      <3>1. (IF ever THEN "loop" ELSE "catchup") \in Loops /\ chain' = chain
        BY <1>15 DEF Loops, NetworkBack
      <3> QED BY <1>0, <2>2, <3>1, StartedOrRemoved
    <2> QED BY <1>15, <2>1, <2>2 DEF NetworkBack
  <1>16. ASSUME UNCHANGED vars PROVE Goal
    <2>1. UNCHANGED <<task, chain, waker>>
      BY <1>16 DEF vars, loops
    <2> QED BY <1>0, <2>1
  <1>17. Goal
    <2> HIDE DEF Goal
    <2> QED BY <1>1, <1>2, <1>3, <1>4, <1>5, <1>6, <1>8, <1>9, <1>10, <1>11, <1>12, <1>13,
               <1>14, <1>15, <1>16
            DEF Next, LoopStep, JobStep, LinkStep, UserStep, WorldStep
  <1> QED BY <1>17 DEF WakerSleeps, None

(***************************************************************************)
(* The transports                                                          *)
(***************************************************************************)

\* The transports that ended are finitely many.
LEMMA EndedFinite == IsFiniteSet(Ended) /\ Cardinality(Ended) \in Nat
  <1>1. IsFiniteSet(Conns)
    <2>1. MaxDrops + 2 \in Int /\ 1 \in Int
      BY Numbers
    <2> QED BY <2>1, FS_Interval DEF Conns
  <1>2. Ended \in SUBSET Conns
    BY DEF Ended
  <1> QED BY <1>1, <1>2, FS_Subset, FS_CardinalityType

\* No more of them, and no fewer drops.
LEMMA FewStay ==
  ASSUME Ranges, FewEnded, drops' = drops, Ended' \subseteq Ended
  PROVE  FewEnded'
  <1>1. Cardinality(Ended') <= Cardinality(Ended)
    BY EndedFinite, FS_Subset
  <1>2. Cardinality(Ended') \in Nat
    BY EndedFinite, FS_Subset, FS_CardinalityType
  <1>3. drops \in Nat
    BY Numbers DEF Ranges
  <1> QED BY <1>1, <1>2, <1>3, EndedFinite DEF FewEnded

\* A hang-up (SessionManager::disconnect) ends no transport that reports.
LEMMA HangupKeeps ==
  ASSUME Ranges, LiveIsConn, FewEnded, Hangup, drops' = drops
  PROVE  LiveIsConn' /\ FewEnded'
  <1>1. \A n \in Conns : link'[n] = "live" => FALSE
    BY Numbers DEF Ranges, LiveIsConn, Hangup
  <1>2. \A n \in Conns : link'[n] = "probing" => link[n] = "probing"
    BY DEF Ranges, Hangup
  <1>3. Ended' \subseteq Ended
    BY <1>2 DEF Ended, Hangup
  <1>4. FewEnded'
    BY <1>3, FewStay
  <1> QED BY <1>1, <1>4 DEF LiveIsConn

\* Every step keeps the map and the count.
LEMMA StepTransports == TInv /\ [Next]_vars => LiveIsConn' /\ FewEnded'
  <1> SUFFICES ASSUME TInv, [Next]_vars PROVE LiveIsConn' /\ FewEnded'
    OBVIOUS
  <1>0. Ranges /\ LiveIsConn /\ FewEnded
    BY DEF TInv
  <1>1. ASSUME UNCHANGED <<conn, link, drops>>, closes' \subseteq closes
        PROVE  LiveIsConn' /\ FewEnded'
    <2>1. Ended' \subseteq Ended
      BY <1>1 DEF Ended
    <2> QED BY <1>0, <1>1, <2>1, FewStay DEF LiveIsConn
  <1>2. ASSUME NEW t \in Tasks, DropLands(t) PROVE LiveIsConn' /\ FewEnded'
    BY <1>0, <1>2, HangupKeeps DEF DropLands, world
  <1>3. ASSUME ByeLands PROVE LiveIsConn' /\ FewEnded'
    BY <1>0, <1>3, HangupKeeps DEF ByeLands, world
  <1>4. ASSUME NEW t \in Tasks, DialAdds(t) PROVE LiveIsConn' /\ FewEnded'
    <2>1. PICK n \in Conns :
            /\ conn' = n
            /\ link' = [m \in Conns |-> IF m = n THEN "live"
                                        ELSE IF m = conn /\ link[m] = "live" THEN "none" ELSE link[m]]
      BY <1>0, <1>4, FreeConn DEF DialAdds
    <2>2. \A m \in Conns : /\ link'[m] = "live" => m = n
                           /\ link'[m] = "probing" => link[m] = "probing"
      BY <1>0, <2>1 DEF LiveIsConn
    <2>3. closes' = closes /\ drops' = drops
      BY <1>4 DEF DialAdds, world
    <2>4. Ended' \subseteq Ended
      BY <2>2, <2>3 DEF Ended
    <2> QED BY <1>0, <2>1, <2>2, <2>3, <2>4, FewStay DEF LiveIsConn
  <1>5. ASSUME NEW n \in Conns, LinkEnds(n) PROVE LiveIsConn' /\ FewEnded'
    <2>1. /\ conn' = conn /\ drops' = drops + 1
          /\ \A m \in Conns : link'[m] = "live" => link[m] = "live"
          /\ \A m \in Conns : link'[m] = "probing" => link[m] = "probing" \/ m = n
          /\ \A e \in closes' : e \in closes \/ e[1] = n
      BY <1>0, <1>5 DEF LinkEnds, Ranges
    <2>2. Ended' \subseteq Ended \union {n}
      BY <2>1 DEF Ended
    <2>3. IsFiniteSet(Ended \union {n}) /\ Cardinality(Ended \union {n}) <= Cardinality(Ended) + 1
      BY EndedFinite, FS_AddElement
    <2>4. Cardinality(Ended') <= Cardinality(Ended \union {n}) /\ IsFiniteSet(Ended')
      BY <2>2, <2>3, FS_Subset
    <2>5. /\ Cardinality(Ended') \in Nat /\ Cardinality(Ended \union {n}) \in Nat
          /\ Cardinality(Ended) \in Nat /\ drops \in Nat
      BY <1>0, <2>3, <2>4, EndedFinite, FS_CardinalityType, Numbers DEF Ranges
    <2>6. FewEnded'
      BY <1>0, <2>1, <2>3, <2>4, <2>5 DEF FewEnded
    <2> QED BY <1>0, <2>1, <2>6 DEF LiveIsConn
  <1>6. ASSUME NEW n \in Conns, ProbeEnds(n) PROVE LiveIsConn' /\ FewEnded'
    <2>1. /\ conn' = conn /\ drops' = drops /\ link[n] = "probing"
          /\ \A m \in Conns : link'[m] \in {"live", "probing"} => link'[m] = link[m]
          /\ \A e \in closes' : e \in closes \/ e[1] = n
      BY <1>0, <1>6 DEF ProbeEnds, Ranges, world
    <2>2. Ended' \subseteq Ended
      BY <2>1 DEF Ended
    <2> QED BY <1>0, <2>1, <2>2, FewStay DEF LiveIsConn
  <1>7. ASSUME NEW e \in closes, CloseArrives(e) PROVE LiveIsConn' /\ FewEnded'
    BY <1>1, <1>7 DEF CloseArrives, world
  <1>8. ASSUME NEW t \in Tasks,
               LoopStep(t) \/ JobStarts(t) \/ DialFails(t) \/ FirstReturns(t)
        PROVE  LiveIsConn' /\ FewEnded'
    <2>1. UNCHANGED <<backend, world>>
      BY <1>8 DEF LoopStep, LoopRuns, LoopReturns, JobStarts, DialFails, FirstReturns, Answered
    <2> QED BY <1>1, <2>1 DEF backend, world
  <1>9. ASSUME UserStep PROVE LiveIsConn' /\ FewEnded'
    <2>1. UNCHANGED <<backend, drops>>
      BY <1>9 DEF UserStep, CloseTab, Wake, ReconnectByHand, world
    <2> QED BY <1>1, <2>1 DEF backend
  <1>10. ASSUME WorldStep PROVE LiveIsConn' /\ FewEnded'
    <2>1. UNCHANGED <<backend, drops>>
      BY <1>10 DEF WorldStep, GoesOffline, NetworkBack, HostFlips
    <2> QED BY <1>1, <2>1 DEF backend
  <1>11. CASE UNCHANGED vars
    BY <1>1, <1>11 DEF vars, backend, world
  <1> QED BY <1>2, <1>3, <1>4, <1>5, <1>6, <1>7, <1>8, <1>9, <1>10, <1>11 DEF Next, JobStep, LinkStep

(***************************************************************************)
(* The theorems                                                            *)
(***************************************************************************)

\* A tab begins with its first connect, or its restore, alone in the queue.
LEMMA InitTInv == Init => TInv
  <1> SUFFICES ASSUME Init PROVE TInv
    OBVIOUS
  <1>1. PICK kind \in First :
          /\ task = [t \in Tasks |-> IF t = 1 THEN New(kind, "queued") ELSE Idle]
          /\ ever = (kind = "restore")
    BY DEF Init
  <1>2. /\ New(kind, "queued") \in TaskRecs /\ New(kind, "queued").pc = "queued"
        /\ Idle \in TaskRecs /\ Idle.pc = "off"
    BY TaskRecords DEF Kinds, Pcs, InChain
  <1>3. Ranges
    <2>1. 0 \in 0..MaxDrops /\ 0 \in 0..MaxByHand
      BY Numbers
    <2>2. chain \in Seq(Tasks)
      BY Numbers DEF Init
    <2> QED BY <1>1, <1>2, <2>1, <2>2 DEF Init, Ranges
  <1>4. Queue
    <2>1. Len(chain) = 1 /\ chain[1] = 1 /\ \A i \in 1..Len(chain) : i = 1
      BY DEF Init
    <2>2. \A t \in Tasks : task[t].pc = IF t = 1 THEN "queued" ELSE "off"
      BY <1>1, <1>2
    <2> QED BY <2>1, <2>2, ChainPcs, Numbers DEF Queue, IsQueue
  <1>5. WakerSleeps /\ LiveIsConn
    BY DEF Init, WakerSleeps, LiveIsConn
  <1>6. FewEnded
    <2>1. Ended = {}
      BY DEF Init, Ended
    <2> QED BY <2>1, FS_EmptySet DEF FewEnded, Init
  <1> QED BY <1>3, <1>4, <1>5, <1>6 DEF TInv

\* The structure is inductive.
LEMMA StepTInv == TInv /\ [Next]_vars => TInv'
  BY StepRanges, StepQueue, StepTransports DEF TInv

\* It gives the types.
LEMMA TInvTypeOK == TInv => TypeOK
  <1> SUFFICES ASSUME TInv PROVE TypeOK
    OBVIOUS
  <1>1. Len(chain) = Cardinality({t \in Tasks : task[t].pc \in InChain})
    BY QueueLength DEF TInv
  <1>2. ASSUME NEW i \in 1..Len(chain)
        PROVE  task[chain[i]].pc \in (IF i = 1 THEN InChain ELSE {"queued"})
    <2>1. chain[i] \in Tasks
      BY DEF TInv, Ranges
    <2> QED BY <2>1 DEF TInv, Queue, IsQueue
  <1> QED BY <1>1, <1>2 DEF TInv, Ranges, WakerSleeps, TypeOK, TaskRecs, Kinds, Pcs

\* The chain holds each connect under way once, only its head has begun, the registered
\* waker is a sleeper's, and transports never run out of numbers: for any bounds, and
\* with transports that end before their connect is answered.
THEOREM TypeCorrect == Spec => []TypeOK
  BY InitTInv, StepTInv, TInvTypeOK, PTL DEF Spec

\* Who reports: at work, and not a cancelled loop.
LEMMA ByHandReports == \A kind \in ByHand \union First : kind \notin Loops /\ kind \in Kinds
  BY DEF ByHand, First, Loops, Kinds

\* A reporter that a step leaves alone reports on.
LEMMA StillReports ==
  ASSUME NEW u \in Tasks, Reports(u), current' = current,
         task'[u].kind = task[u].kind, task'[u].pc # "off"
  PROVE  Reports(u)'
  BY DEF Reports, Busy, IsLoop

\* A new loop reports.
LEMMA NewLoopReports ==
  ASSUME NEW ts \in [Tasks -> TaskRecs], NEW kind \in Loops, StartLoop(kind, ts)
  PROVE  \E t \in Tasks : Reports(t)'
  <1>1. current' \in Tasks /\ task'[current'].pc = "asleep"
    BY StartLoopDoes
  <1> QED BY <1>1 DEF Reports, Busy

\* Each step that leaves the tab connecting leaves somebody at work.
LEMMA StepWorkedOn == TInv /\ ConnectingIsWorkedOn /\ [Next]_vars => ConnectingIsWorkedOn'
  <1> SUFFICES ASSUME TInv, ConnectingIsWorkedOn, [Next]_vars, status' = "connecting"
               PROVE  \E t \in Tasks : Reports(t)'
    BY DEF ConnectingIsWorkedOn
  <1>0. /\ Ranges /\ waker \in Tasks \union {None} /\ task \in [Tasks -> TaskRecs]
        /\ \A t \in Tasks : task[t] \in TaskRecs
        /\ waker # None => task[waker].pc = "asleep"
        /\ status = "connecting" => \E t \in Tasks : Reports(t)
    BY DEF TInv, Ranges, ConnectingIsWorkedOn, WakerSleeps
  \* A step that moves one task t, and leaves it at work.
  <1>1. ASSUME NEW t \in Tasks, status = "connecting", current' = current,
               task'[t].kind = task[t].kind, task'[t].pc # "off",
               \A u \in Tasks : u # t => task'[u] = task[u]
        PROVE  \E u \in Tasks : Reports(u)'
    <2>1. PICK u \in Tasks : Reports(u)
      BY <1>0, <1>1
    <2>2. task'[u].kind = task[u].kind /\ task'[u].pc # "off"
      BY <1>1, <2>1 DEF Reports, Busy
    <2> QED BY <1>1, <2>1, <2>2, StillReports
  \* A step that ends a task that does not report.
  <1>2. ASSUME NEW t \in Tasks, status = "connecting", current' = current, ~Reports(t),
               \A u \in Tasks : u # t => task'[u] = task[u]
        PROVE  \E u \in Tasks : Reports(u)'
    <2>1. PICK u \in Tasks : Reports(u)
      BY <1>0, <1>2
    <2>2. task'[u] = task[u] /\ task[u].pc # "off"
      BY <1>2, <2>1 DEF Reports, Busy
    <2> QED BY <1>2, <2>1, <2>2, StillReports
  <1>3. ASSUME status = "connecting", UNCHANGED <<task, current>> PROVE \E u \in Tasks : Reports(u)'
    BY <1>0, <1>3 DEF Reports, Busy, IsLoop
  <1>4. ASSUME NEW t \in Tasks, LoopRuns(t) PROVE \E u \in Tasks : Reports(u)'
    <2>1. /\ IsLoop(t) /\ status' = status /\ current' = current
          /\ \A u \in Tasks : u # t => task'[u] = task[u]
      BY <1>0, <1>4, LoopRunsDoes DEF tab
    <2>2. CASE task'[t].pc = "off"
      <3>1. current # t
        BY <1>0, <1>4, <2>1, <2>2, LoopRunsDoes
      <3> QED BY <1>2, <2>1, <3>1 DEF Reports
    <2>3. CASE task'[t].pc # "off"
      <3>1. current = t /\ current' \in Tasks
        BY <1>0, <1>4, <2>1, <2>3, LoopRunsDoes
      <3> QED BY <2>1, <2>3, <3>1 DEF Reports, Busy
    <2> QED BY <2>2, <2>3
  <1>5. ASSUME NEW t \in Tasks, LoopReturns(t) PROVE \E u \in Tasks : Reports(u)'
    <2>1. IsLoop(t)
      BY <1>5 DEF LoopReturns
    <2>2. CASE task' = [task EXCEPT ![t] = Idle] /\ (current # t \/ status = "gone") /\ UNCHANGED <<tab, loops>>
      <3>1. current # t /\ status = "connecting"
        BY <2>2 DEF tab
      <3> QED BY <1>0, <1>2, <2>1, <2>2, <3>1, Finished DEF Reports, loops
    <2>3. CASE /\ current = t
               /\ task' = [task EXCEPT ![t].pc = "asleep", ![t].err = "none",
                                       ![t].step = IF task[t].kind = "catchup" THEN task[t].step + 1 ELSE 0]
               /\ UNCHANGED current
      <3>1. task'[t].pc = "asleep"
        BY <1>0, <2>3 DEF TaskRecs
      <3> QED BY <2>3, <3>1 DEF Reports, Busy
    <2>4. ~MarkConnected /\ ~MarkError(task[t].err) /\ ~Removed([task EXCEPT ![t] = Idle])
      BY DEF MarkConnected, MarkError, Removed, tab
    <2> QED BY <1>5, <2>2, <2>3, <2>4 DEF LoopReturns
  <1>6. ASSUME NEW t \in Tasks, JobStarts(t) \/ DropLands(t) \/ DialAdds(t) \/ DialFails(t)
        PROVE  \E u \in Tasks : Reports(u)'
    <2>1. /\ status' = status /\ current' = current /\ task'[t].kind = task[t].kind
          /\ task'[t].pc # "off" /\ \A u \in Tasks : u # t => task'[u] = task[u]
      BY <1>0, <1>6 DEF JobStarts, DropLands, DialAdds, DialFails, TaskRecs, tab, loops
    <2> QED BY <1>1, <2>1
  <1>7. ASSUME NEW t \in Tasks, FirstReturns(t) PROVE \E u \in Tasks : Reports(u)'
    <2>1. StartLoop("loop", [task EXCEPT ![t] = Idle]) \/ status = "gone"
      BY <1>7 DEF FirstReturns, MarkConnected, MarkError, Removed
    <2>2. status # "gone"
      BY <1>7 DEF FirstReturns, MarkConnected, MarkError, Removed, StartLoop, MarkConnecting, tab
    <2> QED BY <1>0, <2>1, <2>2, Finished, NewLoopReports DEF Loops
  <1>8. ASSUME NEW e \in closes, CloseArrives(e) PROVE \E u \in Tasks : Reports(u)'
    <2>1. CASE UNCHANGED <<tab, task, loops, bye>>
      BY <1>3, <2>1 DEF tab, loops
    <2>2. CASE StartLoop("loop", task)
      BY <1>0, <2>2, NewLoopReports DEF Loops
    <2> QED BY <1>8, <2>1, <2>2 DEF CloseArrives, Removed
  <1>9. ASSUME LinkStep \/ ByeLands \/ GoesOffline \/ HostFlips PROVE \E u \in Tasks : Reports(u)'
    BY <1>3, <1>9 DEF LinkStep, LinkEnds, ProbeEnds, ByeLands, GoesOffline, HostFlips, tab, loops
  <1>10. ASSUME Wake PROVE \E u \in Tasks : Reports(u)'
    <2>1. waker \in Tasks /\ task' = Woken(task) /\ current' = current /\ status' = status
      BY <1>0, <1>10 DEF Wake, tab
    <2>2. task' = [task EXCEPT ![waker].pc = "woken"]
      BY <1>10, <2>1 DEF Wake, Woken
    <2>3. /\ task'[waker].kind = task[waker].kind /\ task'[waker].pc # "off"
          /\ \A u \in Tasks : u # waker => task'[u] = task[u]
      BY <1>0, <2>1, <2>2 DEF TaskRecs
    <2> QED BY <1>1, <2>1, <2>3
  <1>11. ASSUME NEW kind \in ByHand, ReconnectByHand(kind) PROVE \E u \in Tasks : Reports(u)'
    <2>1. PICK t \in Tasks :
            task' = [task EXCEPT ![t] = New(kind, IF kind = "retry" THEN "predrop" ELSE "queued")]
      BY <1>11 DEF ReconnectByHand
    <2>2. \A p \in {"predrop", "queued"} : New(kind, p).pc = p /\ New(kind, p).kind = kind
      BY TaskRecords, ByHandReports DEF Pcs, InChain
    <2>3. task'[t].pc # "off" /\ task'[t].kind \notin Loops
      BY <1>0, <2>1, <2>2, ByHandReports
    <2> QED BY <2>3 DEF Reports, Busy, IsLoop
  <1>12. ASSUME NetworkBack PROVE \E u \in Tasks : Reports(u)'
    <2>1. CASE UNCHANGED <<tab, task, loops>>
      BY <1>3, <2>1 DEF tab, loops
    <2>2. CASE StartLoop(IF ever THEN "loop" ELSE "catchup", task)
      BY <1>0, <2>2, NewLoopReports DEF Loops
    <2> QED BY <1>12, <2>1, <2>2 DEF NetworkBack
  <1>13. ~CloseTab
    BY DEF CloseTab, Removed
  <1>14. CASE UNCHANGED vars
    BY <1>3, <1>14 DEF vars, tab, loops
  <1> QED BY <1>4, <1>5, <1>6, <1>7, <1>8, <1>9, <1>10, <1>11, <1>12, <1>13, <1>14
          DEF Next, LoopStep, JobStep, UserStep, WorldStep

\* A tab that shows "connecting" is worked on: every way a connect or a loop can end or be
\* cancelled (reconnectBackoffCore.ts) marks the tab or hands over to another.
THEOREM WorkedOn == Spec => []ConnectingIsWorkedOn
  <1>1. Init => ConnectingIsWorkedOn
    <2> SUFFICES ASSUME Init PROVE Reports(1)
      BY Numbers DEF ConnectingIsWorkedOn
    <2>1. PICK kind \in First : task = [t \in Tasks |-> IF t = 1 THEN New(kind, "queued") ELSE Idle]
      BY DEF Init
    <2>2. New(kind, "queued").pc = "queued" /\ New(kind, "queued").kind = kind
      BY TaskRecords, ByHandReports DEF Pcs, InChain
    <2>3. task[1].pc = "queued" /\ task[1].kind \notin Loops
      BY <2>1, <2>2, Numbers, ByHandReports
    <2> QED BY <2>3 DEF Reports, Busy, IsLoop
  <1> QED BY <1>1, StepWorkedOn, InitTInv, StepTInv, PTL DEF Spec

(***************************************************************************)
(* Tabs nobody reconnected in haste                                        *)
(***************************************************************************)

\* One thing at a time is under way, while the tab shows "connecting"; what it added is
\* there when the answer comes; and a connected tab has a transport or hears of its end.
OneAtATime ==
  /\ ~bye
  /\ \A t \in Tasks : Busy(t) => status = "connecting"
  /\ \A t, u \in Tasks : Busy(t) /\ Busy(u) => t = u
  /\ \A t \in Tasks : task[t].pc = "added" => conn # None /\ link[conn] = "live"
  /\ status = "connected" => (conn # None /\ link[conn] # "none") \/ closes # {}
Patient == ~hasty /\ status # "gone" => OneAtATime

\* A tab that is gone stays so, and haste is not forgotten.
LEMMA GoneStaysGone ==
  ASSUME TInv, [Next]_vars
  PROVE  (status = "gone" => status' = "gone") /\ (hasty => hasty')
  <1>1. (\E t \in Tasks : LoopStep(t) \/ JobStep(t)) \/ LinkStep \/ ByeLands \/ WorldStep
          => hasty' = hasty
    BY DEF LoopStep, LoopRuns, LoopReturns, Answered, JobStep, JobStarts, DropLands, DialAdds, DialFails,
           FirstReturns, LinkStep, LinkEnds, ProbeEnds, ByeLands, WorldStep, GoesOffline,
           NetworkBack, HostFlips, world
  <1>2. UserStep \/ (\E e \in closes : CloseArrives(e)) => (hasty => hasty')
    BY DEF UserStep, CloseTab, Wake, ReconnectByHand, CloseArrives, world
  <1>3. ASSUME status = "gone", NEW t \in Tasks, LoopStep(t) \/ JobStep(t) PROVE status' = "gone"
    <2>1. CASE LoopReturns(t)
      BY <1>3, <2>1 DEF LoopReturns, tab
    <2>2. CASE FirstReturns(t)
      BY <1>3, <2>2 DEF FirstReturns, MarkConnected, MarkError, Removed, tab
    <2>3. CASE LoopRuns(t) \/ JobStarts(t) \/ DropLands(t) \/ DialAdds(t) \/ DialFails(t)
      BY <1>3, <2>3 DEF LoopRuns, JobStarts, DropLands, DialAdds, DialFails, tab
    <2> QED BY <1>3, <2>1, <2>2, <2>3 DEF LoopStep, JobStep
  <1>4. ASSUME status = "gone", LinkStep \/ ByeLands \/ WorldStep \/ UserStep PROVE status' = "gone"
    BY <1>4 DEF LinkStep, LinkEnds, ProbeEnds, ByeLands, WorldStep, GoesOffline, NetworkBack, HostFlips,
                UserStep, CloseTab, Wake, ReconnectByHand, tab
  <1>5. ASSUME status = "gone", NEW e \in closes, CloseArrives(e) PROVE status' = "gone"
    BY <1>5 DEF CloseArrives, tab
  <1>6. CASE UNCHANGED vars
    BY <1>6 DEF vars, tab, world
  <1> QED BY <1>1, <1>2, <1>3, <1>4, <1>5, <1>6 DEF Next

\* A loop starts where nothing else is under way.
LEMMA StartsAlone ==
  ASSUME NEW ts \in [Tasks -> TaskRecs], NEW kind \in Loops, StartLoop(kind, ts),
         \A t \in Tasks : ts[t].pc = "off", ~bye'
  PROVE  OneAtATime'
  <1>1. /\ status' = "connecting" /\ current' \in Tasks /\ task'[current'].pc = "asleep"
        /\ \A t \in Tasks : t # current' => task'[t].pc = "off"
    BY StartLoopDoes
  <1>2. \A t \in Tasks : task'[t].pc # "off" => t = current'
    BY <1>1
  <1>3. \A t \in Tasks : task'[t].pc # "added"
    BY <1>1
  <1> QED BY <1>1, <1>2, <1>3 DEF OneAtATime, Busy

\* What is under way goes on to another of its stages.
LEMMA OneGoesOn ==
  ASSUME OneAtATime, NEW t \in Tasks, Busy(t), status' = status, bye' = bye,
         \A u \in Tasks : u # t => task'[u] = task[u],
         task'[t].pc = "added" => conn' # None /\ link'[conn'] = "live"
  PROVE  OneAtATime'
  <1>1. status' = "connecting" /\ ~bye'
    BY DEF OneAtATime
  <1>2. \A u \in Tasks : u # t => task'[u].pc = "off"
    BY DEF OneAtATime, Busy
  <1> QED BY <1>1, <1>2 DEF OneAtATime, Busy

\* What is under way ends: the tab is marked.
LEMMA OneEnds ==
  ASSUME TInv, OneAtATime, NEW t \in Tasks, Busy(t), UNCHANGED <<bye, conn, link, closes>>,
         task' = [task EXCEPT ![t] = Idle],
         status' = "connected" => task[t].pc = "added"
  PROVE  OneAtATime'
  <1>1. \A u \in Tasks : task'[u].pc = "off"
    BY Finished DEF OneAtATime, Busy, TInv
  <1>2. status' = "connected" => conn' # None /\ link'[conn'] # "none"
    BY DEF OneAtATime
  <1> QED BY <1>1, <1>2 DEF OneAtATime, Busy

\* Without early closes, every step keeps to it.
LEMMA StepPatient == TInv /\ ~EarlyCloses /\ Patient /\ [Next]_vars => Patient'
  <1> SUFFICES ASSUME TInv, ~EarlyCloses, Patient, [Next]_vars, ~hasty', status' # "gone"
               PROVE  OneAtATime'
    BY DEF Patient
  <1>0. /\ OneAtATime /\ status # "gone" /\ Ranges /\ LiveIsConn
        /\ task \in [Tasks -> TaskRecs] /\ waker \in Tasks \union {None}
        /\ \A t \in Tasks : task[t] \in TaskRecs
        /\ waker # None => task[waker].pc = "asleep"
    BY GoneStaysGone DEF Patient, TInv, Ranges, WakerSleeps
  <1>1. ASSUME NEW t \in Tasks, LoopRuns(t) PROVE OneAtATime'
    <2>1. /\ Busy(t) /\ status' = status /\ bye' = bye /\ \A u \in Tasks : u # t => task'[u] = task[u]
          /\ task'[t].pc # "added"
      BY <1>0, <1>1, LoopRunsDoes DEF Busy, tab
    <2> QED BY <1>0, <2>1, OneGoesOn
  <1>2. ASSUME NEW t \in Tasks, LoopReturns(t) PROVE OneAtATime'
    <2>1. Busy(t) /\ UNCHANGED <<bye, conn, link, closes>>
      BY <1>2 DEF LoopReturns, Answered, Busy, backend
    <2>2. CASE task' = [task EXCEPT ![t] = Idle] /\ UNCHANGED tab
      <3>1. status' # "connected"
        BY <1>0, <2>1, <2>2 DEF OneAtATime, tab
      <3> QED BY <1>0, <2>1, <2>2, <3>1, OneEnds
    <2>3. CASE task' = [task EXCEPT ![t] = Idle] /\ MarkConnected /\ task[t].pc = "added"
      BY <1>0, <2>1, <2>3, OneEnds
    <2>4. CASE task' = [task EXCEPT ![t] = Idle] /\ MarkError(task[t].err)
      <3>1. status' # "connected"
        BY <1>0, <2>4 DEF MarkError
      <3> QED BY <1>0, <2>1, <2>4, <3>1, OneEnds
    <2>5. CASE /\ task' = [task EXCEPT ![t].pc = "asleep", ![t].err = "none",
                                       ![t].step = IF task[t].kind = "catchup" THEN task[t].step + 1 ELSE 0]
               /\ UNCHANGED tab
      <3>1. task'[t].pc = "asleep" /\ \A u \in Tasks : u # t => task'[u] = task[u]
        BY <1>0, <2>5 DEF TaskRecs
      <3> QED BY <1>0, <2>1, <2>5, <3>1, OneGoesOn DEF tab
    <2>6. ~Removed([task EXCEPT ![t] = Idle])
      BY DEF Removed
    <2>7. \/ task' = [task EXCEPT ![t] = Idle] /\ UNCHANGED tab
          \/ task' = [task EXCEPT ![t] = Idle] /\ MarkConnected /\ task[t].pc = "added"
          \/ task' = [task EXCEPT ![t] = Idle] /\ MarkError(task[t].err)
          \/ /\ task' = [task EXCEPT ![t].pc = "asleep", ![t].err = "none",
                                  ![t].step = IF task[t].kind = "catchup" THEN task[t].step + 1 ELSE 0]
             /\ UNCHANGED tab
      BY <1>2, <2>6 DEF LoopReturns
    <2> QED BY <2>2, <2>3, <2>4, <2>5, <2>7
  <1>3. ASSUME NEW t \in Tasks, JobStarts(t) \/ DropLands(t) \/ DialFails(t) PROVE OneAtATime'
    <2>1. /\ Busy(t) /\ status' = status /\ bye' = bye /\ \A u \in Tasks : u # t => task'[u] = task[u]
          /\ task'[t].pc # "added"
      BY <1>0, <1>3 DEF JobStarts, DropLands, DialFails, Busy, tab, TaskRecs
    <2> QED BY <1>0, <2>1, OneGoesOn
  <1>4. ASSUME NEW t \in Tasks, DialAdds(t) PROVE OneAtATime'
    <2>1. PICK n \in Conns :
            /\ conn' = n
            /\ link' = [m \in Conns |-> IF m = n THEN "live"
                                        ELSE IF m = conn /\ link[m] = "live" THEN "none" ELSE link[m]]
      BY <1>4, FreeConn DEF DialAdds, TInv
    <2>2. conn' # None /\ link'[conn'] = "live"
      BY <2>1, Numbers
    <2>3. /\ Busy(t) /\ status' = status /\ bye' = bye /\ \A u \in Tasks : u # t => task'[u] = task[u]
      BY <1>0, <1>4 DEF DialAdds, Busy, tab
    <2> QED BY <1>0, <2>2, <2>3, OneGoesOn
  <1>5. ASSUME NEW t \in Tasks, FirstReturns(t) PROVE OneAtATime'
    <2> DEFINE done == [task EXCEPT ![t] = Idle]
    <2>1. Busy(t) /\ UNCHANGED <<bye, conn, link, closes>>
      BY <1>5 DEF FirstReturns, Answered, Busy, backend
    <2>2. CASE task' = done /\ MarkConnected /\ task[t].pc = "added"
      BY <1>0, <2>1, <2>2, OneEnds
    <2>3. CASE task' = done /\ MarkError(task[t].err)
      <3>1. status' # "connected"
        BY <1>0, <2>3 DEF MarkError
      <3> QED BY <1>0, <2>1, <2>3, <3>1, OneEnds
    <2>4. CASE StartLoop("loop", done)
      <3>1. \A u \in Tasks : done[u].pc = "off"
        BY <1>0, <2>1, Finished DEF OneAtATime, Busy
      <3>2. done \in [Tasks -> TaskRecs] /\ ~bye'
        BY <1>0, <2>1, Finished DEF OneAtATime
      <3> HIDE DEF done
      <3> QED BY <2>4, <3>1, <3>2, StartsAlone DEF Loops
    <2>5. ~Removed(done)
      BY DEF Removed
    <2> QED BY <1>5, <2>2, <2>3, <2>4, <2>5 DEF FirstReturns
  <1>6. ASSUME UNCHANGED <<task, status, bye>>,
               \A t \in Tasks : task[t].pc = "added" => conn' # None /\ link'[conn'] = "live",
               status = "connected" => (conn' # None /\ link'[conn'] # "none") \/ closes' # {}
        PROVE  OneAtATime'
    BY <1>0, <1>6 DEF OneAtATime, Busy
  <1>7. ASSUME NEW n \in Conns, LinkEnds(n) PROVE OneAtATime'
    <2>1. /\ UNCHANGED <<task, status, bye, conn>> /\ n = conn
          /\ \/ link' = [link EXCEPT ![n] = "none"] /\ closes' # {}
             \/ link' = [link EXCEPT ![n] = "probing"]
      BY <1>0, <1>7 DEF LinkEnds, LiveIsConn, tab
    <2>2. \A t \in Tasks : task[t].pc # "added"
      BY <1>7, <2>1 DEF LinkEnds, Unanswered
    <2>3. closes' # {} \/ (conn # None /\ link'[conn] # "none")
      BY <1>0, <2>1, Numbers DEF Ranges
    <2> QED BY <1>6, <2>1, <2>2, <2>3
  <1>8. ASSUME NEW n \in Conns, ProbeEnds(n) PROVE OneAtATime'
    <2>1. /\ UNCHANGED <<task, status, bye, conn>> /\ closes' # {}
          /\ \A m \in Conns : link[m] = "live" => link'[m] = "live"
      BY <1>0, <1>8 DEF ProbeEnds, tab, Ranges
    <2>2. \A t \in Tasks : task[t].pc = "added" => conn' # None /\ link'[conn'] = "live"
      BY <1>0, <2>1, Numbers DEF OneAtATime, Ranges
    <2> QED BY <1>6, <2>1, <2>2
  <1>9. ~ByeLands /\ ~CloseTab
    BY <1>0 DEF ByeLands, CloseTab, OneAtATime, Removed
  <1>10. ASSUME NEW e \in closes, CloseArrives(e) PROVE OneAtATime'
    <2>1. CASE status # "connected" /\ UNCHANGED <<tab, task, loops, bye>>
      BY <1>0, <1>6, <1>10, <2>1 DEF CloseArrives, OneAtATime, tab
    <2>2. CASE status = "connected" /\ StartLoop("loop", task) /\ UNCHANGED bye
      <3>1. (\A t \in Tasks : task[t].pc = "off") /\ ~bye'
        BY <1>0, <2>2 DEF OneAtATime, Busy
      <3> QED BY <1>0, <2>2, <3>1, StartsAlone DEF Loops
    <2> QED BY <1>10, <2>1, <2>2 DEF CloseArrives, Removed
  <1>11. ASSUME Wake PROVE OneAtATime'
    <2>1. /\ waker \in Tasks /\ waker # None /\ task' = Woken(task)
          /\ UNCHANGED <<status, bye, conn, link, closes>>
      BY <1>0, <1>11 DEF Wake, tab, backend
    <2>2. /\ Busy(waker) /\ task'[waker].pc = "woken"
          /\ \A u \in Tasks : u # waker => task'[u] = task[u]
      BY <1>0, <2>1, WokenTasks DEF Busy
    <2> QED BY <1>0, <2>1, <2>2, OneGoesOn
  <1>12. ASSUME NEW kind \in ByHand, ReconnectByHand(kind) PROVE OneAtATime'
    <2>1. /\ \A t \in Tasks : task[t].pc = "off"
          /\ status' = "connecting" /\ bye' = bye
      BY <1>12 DEF ReconnectByHand, Busy, MarkConnecting
    <2>2. PICK t \in Tasks :
            task' = [task EXCEPT ![t] = New(kind, IF kind = "retry" THEN "predrop" ELSE "queued")]
      BY <1>12 DEF ReconnectByHand
    <2>3. \A p \in {"predrop", "queued"} : New(kind, p).pc = p
      BY TaskRecords, ByHandReports DEF Pcs, InChain
    <2>4. task'[t].pc # "added" /\ \A u \in Tasks : u # t => task'[u].pc = "off"
      BY <1>0, <2>1, <2>2, <2>3
    <2> QED BY <1>0, <2>1, <2>4 DEF OneAtATime, Busy
  <1>13. ASSUME GoesOffline \/ HostFlips PROVE OneAtATime'
    BY <1>0, <1>6, <1>13 DEF GoesOffline, HostFlips, OneAtATime, tab, backend
  <1>14. ASSUME NetworkBack PROVE OneAtATime'
    <2>1. CASE UNCHANGED <<tab, task, loops>>
      BY <1>0, <1>6, <1>14, <2>1 DEF NetworkBack, OneAtATime, tab, backend
    <2>2. CASE status = "error" /\ StartLoop(IF ever THEN "loop" ELSE "catchup", task)
      <3>1. (\A t \in Tasks : task[t].pc = "off") /\ ~bye'
        BY <1>0, <1>14, <2>2 DEF OneAtATime, Busy, NetworkBack
      <3> QED BY <1>0, <2>2, <3>1, StartsAlone DEF Loops
    <2> QED BY <1>14, <2>1, <2>2 DEF NetworkBack
  <1>15. CASE UNCHANGED vars
    BY <1>0, <1>6, <1>15 DEF vars, OneAtATime, tab, backend
  <1> QED BY <1>1, <1>2, <1>3, <1>4, <1>5, <1>7, <1>8, <1>9, <1>10, <1>11, <1>12, <1>13, <1>14, <1>15
          DEF Next, LoopStep, JobStep, LinkStep, UserStep, WorldStep

\* A connected tab has a reader, or a close event on its way (session.rs, channel_io.rs),
\* unless the user reconnected while something was connecting: then the close of one
\* transport may be taken for another's.
THEOREM PatientBacked == ~EarlyCloses /\ Spec => []PatientTabsAreBacked
  <1>1. Init => Patient
    <2> SUFFICES ASSUME Init PROVE OneAtATime
      BY DEF Patient
    <2>1. PICK kind \in First : task = [t \in Tasks |-> IF t = 1 THEN New(kind, "queued") ELSE Idle]
      BY DEF Init
    <2>2. New(kind, "queued").pc = "queued" /\ Idle.pc = "off"
      BY TaskRecords, ByHandReports DEF Pcs, InChain
    <2>3. \A t \in Tasks : task[t].pc = IF t = 1 THEN "queued" ELSE "off"
      BY <2>1, <2>2
    <2> QED BY <2>3 DEF Init, OneAtATime, Busy
  <1>2. TInv /\ Patient => PatientTabsAreBacked
    BY DEF Patient, OneAtATime, PatientTabsAreBacked, ConnectedIsBacked
  <1>3. ~EarlyCloses => (~EarlyCloses)'
    OBVIOUS
  <1> QED BY <1>1, <1>2, <1>3, InitTInv, StepTInv, StepPatient, PTL DEF Spec
=============================================================================
