--------------------------- MODULE TerminalOutput ---------------------------
(***************************************************************************)
(* The output of one session on its way from the backend's reader to the   *)
(* frontend: src-tauri/src/terminal_output.rs (streams with a gate, a      *)
(* batch and a flush timer, attached and detached by command) and          *)
(* src/services/terminalOutput.ts (one channel shared by the terminal and  *)
(* the plugins).  Commands travel on their own and may overtake each other.*)
(* The reader's chunks and closes are numbered; a close is one of them.    *)
(***************************************************************************)
EXTENDS Naturals, Sequences

CONSTANTS MaxItems,    \* bound: chunks and closes emitted
          MaxChannels, \* bound: channels the frontend opens
          MaxStreams,  \* bound: streams the backend makes
          MaxBuffered, \* MAX_BUFFERED, in chunks
          MaxBatch     \* MAX_BATCH, in chunks

ASSUME OutputAssumption ==
  /\ MaxItems \in Nat /\ MaxChannels \in Nat /\ MaxStreams \in Nat
  /\ MaxBuffered \in Nat \ {0} /\ MaxBatch \in Nat \ {0}

None     == 0
Channels == 1..MaxChannels
Streams  == 1..MaxStreams
Handlers == {"terminal", "plugin"}

VARIABLES
  local,     \* a local shell: its streams are made gated
  \* the backend
  entry,     \* the session's entry in TerminalOutputs.streams, or None
  stream,    \* every stream made; one that left the map may still be held
  made,      \* streams made so far
  shell,     \* the reader of the shell or of the SSH channel
  begun,     \* items whose emit_output or emit_closed was called
  emit,      \* the item being emitted: it has its stream, not yet the lock
  removed,   \* local_disconnect was called: the tab is closed
  \* the frontend
  chan,      \* the channel of streams[sessionId], or None
  opened,    \* channels opened so far
  handler,   \* each subscription: "off", "wait" for attached, "on"
  attach,    \* the attach command of chan is on its way
  detaches,  \* channels whose detach command is on its way
  ready,     \* a local_ready command is on its way
  got        \* got[c]: what was sent to channel c

backend  == <<entry, stream, made>>
reader   == <<shell, begun, emit, removed>>
frontend == <<chan, opened, handler, attach>>
commands == <<detaches, ready>>
vars == <<local, backend, reader, frontend, commands, got>>

NewStream(g) == [sink |-> None, gated |-> g, pending |-> <<>>, close |-> 0,
                 timer |-> FALSE, hot |-> FALSE]
NotEmitting  == [item |-> 0, to |-> None, close |-> FALSE]

Init ==
  /\ local \in BOOLEAN
  /\ entry = None /\ made = 0 /\ stream = [s \in Streams |-> NewStream(FALSE)]
  /\ shell = "none" /\ begun = 0 /\ emit = NotEmitting
  /\ removed = FALSE
  /\ chan = None /\ opened = 0 /\ handler = [h \in Handlers |-> "off"] /\ attach = FALSE
  /\ detaches = {} /\ ready = FALSE
  /\ got = [c \in Channels |-> <<>>]

(***************************************************************************)
(* OutputStream, under its lock                                            *)
(***************************************************************************)

\* All that the stream still holds, the close behind the chunks.
All(r) == IF r.close = 0 THEN r.pending ELSE Append(r.pending, r.close)

SendReordered(s, r) == \* mutant: finish sends the close before it flushes
  /\ stream' = [stream EXCEPT ![s] =
       [r EXCEPT !.pending = <<>>, !.close = 0, !.hot = @ \/ (r.pending # <<>> /\ r.sink # None)]]
  /\ got' = IF r.sink = None THEN got
            ELSE [got EXCEPT ![r.sink] = @ \o (IF r.close = 0 THEN <<>> ELSE <<r.close>>) \o r.pending]

\* Stream s becomes r and is flushed: without a sink, all it holds is dropped.
Send(s, r) ==
  /\ stream' = [stream EXCEPT ![s] =
       [r EXCEPT !.pending = <<>>, !.close = 0,
                 !.hot = @ \/ (r.pending # <<>> /\ r.sink # None)]]
  /\ got' = IF r.sink = None THEN got ELSE [got EXCEPT ![r.sink] = @ \o All(r)]

Put(s, r) == stream' = [stream EXCEPT ![s] = r] /\ UNCHANGED got

OpenForgetsPending(s, r) == \* mutant: opening the gate leaves the held output to the next flush
  IF r.gated /\ r.close # 0 THEN Send(s, [r EXCEPT !.gated = FALSE])
  ELSE Put(s, [r EXCEPT !.gated = FALSE])

\* OutputStream::open
Open(s, r) == IF r.gated THEN Send(s, [r EXCEPT !.gated = FALSE]) ELSE Put(s, r)

\* OutputStream::output of chunk n.
Output(s, n) ==
  LET r    == stream[s]
      full == [r EXCEPT !.pending = Append(@, n)]
      size == Len(full.pending) IN
  \/ r.gated /\ size >= MaxBuffered /\ Open(s, full)
  \/ r.gated /\ size < MaxBuffered /\ Put(s, full)
  \/ ~r.gated /\ r.sink = None /\ Put(s, r)
  \/ /\ ~r.gated /\ r.sink # None
     /\ size >= MaxBatch \/ ~(r.timer \/ r.hot)
     /\ Send(s, full)
  \/ /\ ~r.gated /\ r.sink # None
     /\ size < MaxBatch /\ (r.timer \/ r.hot)
     /\ Put(s, [full EXCEPT !.timer = TRUE])

\* OutputStream::closed by item n.
Closed(s, n) ==
  LET r == [stream[s] EXCEPT !.close = n] IN
  IF r.gated THEN Put(s, r) ELSE Send(s, r)

(***************************************************************************)
(* The reader of the shell.  emit_output and emit_closed look the stream   *)
(* up first and take its lock next.                                        *)
(***************************************************************************)

\* TerminalOutputs::entry in the map of streams, then `Op` on that stream.
EntryMade(g) ==
  IF entry # None THEN UNCHANGED <<entry, made>>
  ELSE made < MaxStreams /\ made' = made + 1 /\ entry' = made + 1
EntryStream(g) == IF entry # None THEN stream[entry] ELSE NewStream(g)

\* A local shell is spawned once, behind a gate; an SSH transport starts without one.
Spawn ==
  /\ local /\ shell = "none"
  /\ EntryMade(TRUE)
  /\ Put(entry', EntryStream(TRUE))
  /\ shell' = "running"
  /\ UNCHANGED <<local, begun, emit, removed, frontend, commands>>

Connect ==
  /\ ~local /\ shell # "running" /\ emit = NotEmitting
  /\ shell' = "running"
  /\ UNCHANGED <<local, backend, begun, emit, removed, frontend, commands, got>>

EmitBegins(close) ==
  /\ shell = "running" /\ emit = NotEmitting
  /\ begun < MaxItems
  /\ begun' = begun + 1
  /\ emit' = IF entry = None THEN NotEmitting
             ELSE [item |-> begun + 1, to |-> entry, close |-> close]
  /\ shell' = IF close THEN "ended" ELSE shell
  /\ UNCHANGED <<local, backend, removed, frontend, commands, got>>

EmitLands ==
  /\ emit # NotEmitting
  /\ IF emit.close THEN Closed(emit.to, emit.item) ELSE Output(emit.to, emit.item)
  /\ emit' = NotEmitting
  /\ UNCHANGED <<local, entry, made, shell, begun, removed, frontend, commands>>

\* A disconnect stops an SSH reader without a close.
Shutdown ==
  /\ ~local /\ shell = "running" /\ emit = NotEmitting
  /\ shell' = "ended"
  /\ UNCHANGED <<local, backend, begun, emit, removed, frontend, commands, got>>

\* local_disconnect drops the entry; the killed shell's reader runs to its end.
Remove ==
  /\ local /\ shell # "none" /\ ~removed
  /\ removed' = TRUE
  /\ entry' = None
  /\ UNCHANGED <<local, stream, made, shell, begun, emit, frontend, commands, got>>

\* The flush task holds its stream, in the map or not.
TimerFires(s) ==
  /\ stream[s].timer
  /\ Send(s, [stream[s] EXCEPT !.timer = FALSE])
  /\ UNCHANGED <<local, entry, made, reader, frontend, commands>>

\* FLUSH_WINDOW has passed since the last send.
WindowEnds(s) ==
  /\ stream[s].hot
  /\ Put(s, [stream[s] EXCEPT !.hot = FALSE])
  /\ UNCHANGED <<local, entry, made, reader, frontend, commands>>

(***************************************************************************)
(* Commands that reach the backend                                         *)
(***************************************************************************)

AttachLandsEmpty == \* mutant: a new sink starts with an empty batch
  /\ attach
  /\ attach' = FALSE
  /\ EntryMade(local)
  /\ Put(entry', [EntryStream(local) EXCEPT !.sink = chan, !.pending = <<>>, !.hot = FALSE])
  /\ UNCHANGED <<local, reader, chan, opened, handler, commands>>

AttachLands ==
  /\ attach
  /\ attach' = FALSE
  /\ EntryMade(local)
  /\ Put(entry', [EntryStream(local) EXCEPT !.sink = chan, !.hot = FALSE])
  /\ UNCHANGED <<local, reader, chan, opened, handler, commands>>

SinkIs(c) == entry # None /\ stream[entry].sink = c

DetachLandsAlways(c) == \* mutant: a detach does not look at whose sink is attached
  /\ c \in detaches
  /\ detaches' = detaches \ {c}
  /\ \/ /\ entry # None
        /\ Put(entry, [stream[entry] EXCEPT !.sink = None, !.pending = <<>>])
        /\ entry' = None
     \/ entry = None /\ UNCHANGED <<entry, stream, got>>
  /\ UNCHANGED <<local, made, reader, frontend, ready>>

\* Ignored unless c is still the attached sink.
DetachLands(c) ==
  /\ c \in detaches
  /\ detaches' = detaches \ {c}
  /\ \/ /\ SinkIs(c)
        /\ Put(entry, [stream[entry] EXCEPT !.sink = None, !.pending = <<>>])
        /\ entry' = None
     \/ /\ ~SinkIs(c)
        /\ UNCHANGED <<entry, stream, got>>
  /\ UNCHANGED <<local, made, reader, frontend, ready>>

\* local_ready: TerminalOutputs::release makes the entry if there is none.
ReadyLands ==
  /\ ready
  /\ ready' = FALSE
  /\ EntryMade(TRUE)
  /\ Open(entry', EntryStream(TRUE))
  /\ UNCHANGED <<local, reader, frontend, detaches>>

(***************************************************************************)
(* The frontend                                                            *)
(***************************************************************************)

\* subscribe(): open() makes a channel unless the session has one.
Subscribe(h) ==
  /\ handler[h] = "off"
  /\ handler' = [handler EXCEPT ![h] = "wait"]
  /\ \/ chan # None /\ UNCHANGED <<chan, opened, attach>>
     \/ /\ chan = None
        /\ opened < MaxChannels
        /\ chan' = opened + 1 /\ opened' = opened + 1
        /\ attach' = TRUE
  /\ UNCHANGED <<local, backend, reader, commands, got>>

\* `attached` resolved; the terminal of a local shell then sends local_ready.
Attached(h) ==
  /\ handler[h] = "wait" /\ ~attach
  /\ handler' = [handler EXCEPT ![h] = "on"]
  /\ ready' = (ready \/ (h = "terminal" /\ local))
  /\ UNCHANGED <<local, backend, reader, chan, opened, attach, detaches, got>>

\* The last handler to go takes the channel with it.
Unsubscribe(h) ==
  /\ handler[h] = "on"
  /\ handler' = [handler EXCEPT ![h] = "off"]
  /\ \/ (\E o \in Handlers : handler'[o] # "off") /\ UNCHANGED <<chan, detaches>>
     \/ /\ \A o \in Handlers : handler'[o] = "off"
        /\ chan' = None
        /\ detaches' = detaches \union {chan}
  /\ UNCHANGED <<local, backend, reader, opened, attach, ready, got>>

ReaderStep   == Spawn \/ Connect \/ Shutdown \/ \E close \in BOOLEAN : EmitBegins(close)
TimerStep    == \E s \in Streams : TimerFires(s) \/ WindowEnds(s)
CommandStep  == AttachLands \/ ReadyLands \/ \E c \in Channels : DetachLands(c)
FrontendStep == \E h \in Handlers : Subscribe(h) \/ Attached(h) \/ Unsubscribe(h)

Next == ReaderStep \/ EmitLands \/ Remove \/ TimerStep \/ CommandStep \/ FrontendStep

Spec == Init /\ [][Next]_vars

\* Commands arrive, promises settle, timers fire and locks are granted.
Fairness ==
  /\ WF_vars(EmitLands)
  /\ WF_vars(AttachLands)
  /\ WF_vars(ReadyLands)
  /\ \A c \in Channels : WF_vars(DetachLands(c))
  /\ \A s \in Streams : WF_vars(TimerFires(s))
  /\ \A h \in Handlers : WF_vars(Attached(h))
FairSpec == Spec /\ Fairness

(***************************************************************************)
(* Properties                                                              *)
(***************************************************************************)

\* Everything is in its range; only a gated stream holds a close back, and what
\* an open stream has not sent waits for a flush task that is on its way.
Items == 1..MaxItems
StreamType == [sink : Channels \union {None}, gated : BOOLEAN, pending : Seq(Items),
               close : Items \union {0}, timer : BOOLEAN, hot : BOOLEAN]
NotStranded(r) == ~r.gated => r.close = 0 /\ (r.pending # <<>> => r.timer)
TypeOK ==
  /\ local \in BOOLEAN /\ removed \in BOOLEAN /\ attach \in BOOLEAN /\ ready \in BOOLEAN
  /\ made \in 0..MaxStreams /\ entry \in 0..made
  /\ stream \in [Streams -> StreamType] /\ \A s \in Streams : NotStranded(stream[s])
  /\ shell \in {"none", "running", "ended"}
  /\ begun \in 0..MaxItems
  /\ emit \in [item : 0..MaxItems, to : Streams \union {None}, close : BOOLEAN]
  /\ opened \in 0..MaxChannels /\ chan \in 0..opened /\ detaches \subseteq 1..opened
  /\ handler \in [Handlers -> {"off", "wait", "on"}]
  /\ got \in [Channels -> Seq(Items)]

\* "the close never overtakes output": a channel hears chunks and closes in the
\* order they were emitted, each at most once, through every gate, batch, flush
\* task and change of subscriber.
Increasing(seq) == \A i, j \in 1..Len(seq) : i < j => seq[i] < seq[j]
InOrder == \A c \in Channels : Increasing(got[c])

\* "a detach that lands after a re-attach cannot cut the new subscriber off": who
\* was told that it is attached is the sink of the session's stream.
SubscribersAttached ==
  \A h \in Handlers :
    handler[h] = "on" /\ ~removed => SinkIs(chan)

\* What waits for channel c; with None, what the entry without a sink holds.
Waiting(c) ==
  LET owns(s) == stream[s].sink = c /\ (c # None \/ s = entry) IN
  IF \E s \in Streams : owns(s) THEN All(stream[CHOOSE s \in Streams : owns(s)]) ELSE <<>>

\* The detailed streams implement the promise: a subscriber hears everything that
\* begins to be emitted while it is attached, in order.
Gone == MaxChannels + 1
Headed == IF emit = NotEmitting THEN None
          ELSE IF stream[emit.to].sink # None THEN stream[emit.to].sink
          ELSE IF emit.to = entry THEN None ELSE Gone
Promise == INSTANCE OutputPromise WITH
             emit <- emit.item,
             dest <- Headed,
             sub  <- (IF entry = None THEN None ELSE stream[entry].sink),
             owed <- [c \in Channels \union {None} |-> Waiting(c)]
KeepsPromise == Promise!Spec

\* While the terminal stays subscribed, what is held for it is sent in the end.
TerminalHearsAll ==
  <>[](handler["terminal"] = "on" /\ ~removed) => []<>(Waiting(chan) = <<>>)
=============================================================================
