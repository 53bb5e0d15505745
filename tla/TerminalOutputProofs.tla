------------------------ MODULE TerminalOutputProofs ------------------------
(***************************************************************************)
(* For any number of items, channels and streams, and any sizes of buffer  *)
(* and batch, no close overtakes output in terminal_output.rs, no late     *)
(* detach cuts a subscriber off, and the streams implement OutputPromise.  *)
(* The invariant says what makes that so: two streams never share a sink,  *)
(* the channel of an attach on its way is fresh, an open stream without a  *)
(* sink holds nothing, a close is only held once the reader has ended, and *)
(* what a stream holds is newer than what its sink has heard and older     *)
(* than what is being emitted.                                             *)
(***************************************************************************)
EXTENDS TerminalOutput, SequenceTheorems, TLAPS

StreamsFresh == \A s \in Streams : s > made => stream[s] = NewStream(FALSE)
SinksDistinct ==
  \A s, t \in Streams : s # t /\ stream[s].sink # None => stream[s].sink # stream[t].sink
ChannelsFresh ==
  /\ \A s \in Streams : stream[s].sink <= opened
  /\ \A c \in Channels : c > opened => got[c] = <<>>
  /\ attach => /\ chan # None /\ got[chan] = <<>>
               /\ \A s \in Streams : stream[s].sink # chan
Subscribed ==
  /\ \A h \in Handlers : handler[h] # "off" => chan # None
  /\ \A h \in Handlers : handler[h] = "on" => ~attach
  /\ chan \notin detaches
  /\ chan # None /\ ~attach /\ ~removed => SinkIs(chan)
EmissionOK ==
  /\ emit # NotEmitting =>
       /\ emit.item = begun /\ begun # 0 /\ emit.to \in 1..made /\ shell # "none"
       /\ emit.close => shell = "ended"
StreamHolds(r) ==
  /\ r.gated => local
  /\ r.close # 0 => r.gated /\ shell = "ended" /\ emit = NotEmitting
  /\ ~r.gated /\ r.sink = None => r.pending = <<>>
HoldsOK == \A s \in Streams : StreamHolds(stream[s])

Shape == /\ TypeOK /\ StreamsFresh /\ SinksDistinct /\ ChannelsFresh
         /\ Subscribed /\ EmissionOK /\ HoldsOK

\* Everything sent or held is older than Top.
Top == IF emit = NotEmitting THEN begun + 1 ELSE emit.item
Below(seq, n)    == \A i \in 1..Len(seq) : seq[i] < n
Ordered(a, b)    == \A i \in 1..Len(a), j \in 1..Len(b) : a[i] < b[j]
OrderOK ==
  /\ \A c \in Channels : Increasing(got[c]) /\ Below(got[c], Top)
  /\ \A s \in Streams :
       /\ Increasing(All(stream[s])) /\ Below(All(stream[s]), Top)
       /\ stream[s].sink # None => Ordered(got[stream[s].sink], All(stream[s]))

(***************************************************************************)
(* The shape of the state                                                  *)
(***************************************************************************)

\* A session starts without streams, subscribers or output.
LEMMA InitShape == Init => Shape
  <1> SUFFICES ASSUME Init PROVE Shape
    OBVIOUS
  <1> USE OutputAssumption DEF Init, NewStream, NotEmitting, Channels, Streams, None, Handlers
  <1>0. <<>> \in Seq(Items)
    OBVIOUS
  <1>1. TypeOK
    <2>1. stream \in [Streams -> StreamType] /\ \A s \in Streams : NotStranded(stream[s])
      BY <1>0 DEF StreamType, NotStranded
    <2>2. got \in [Channels -> Seq(Items)]
      BY <1>0
    <2>3. handler \in [Handlers -> {"off", "wait", "on"}]
      OBVIOUS
    <2>4. emit \in [item : 0..MaxItems, to : Streams \union {None}, close : BOOLEAN]
      OBVIOUS
    <2>5. begun \in 0..MaxItems /\ made \in 0..MaxStreams /\ entry \in 0..made
      OBVIOUS
    <2>6. opened \in 0..MaxChannels /\ chan \in 0..opened /\ detaches \subseteq 1..opened
      OBVIOUS
    <2> QED BY <2>1, <2>2, <2>3, <2>4, <2>5, <2>6, Zenon DEF TypeOK
  <1>2. StreamsFresh /\ SinksDistinct /\ ChannelsFresh
    BY DEF StreamsFresh, SinksDistinct, ChannelsFresh
  <1>3. Subscribed /\ EmissionOK /\ HoldsOK
    BY DEF Subscribed, EmissionOK, HoldsOK, StreamHolds
  <1> QED BY <1>1, <1>2, <1>3 DEF Shape

\* TerminalOutputs::entry returns a stream of the session, made when there is none.
LEMMA EntryGiven ==
  ASSUME Shape, NEW g \in BOOLEAN, EntryMade(g)
  PROVE  /\ entry' \in Streams /\ entry' \in 1..made' /\ made' \in 0..MaxStreams
         /\ made <= made'
         /\ EntryStream(g) \in StreamType /\ NotStranded(EntryStream(g))
         /\ entry # None => entry' = entry /\ made' = made /\ EntryStream(g) = stream[entry']
         /\ entry = None => entry' = made + 1 /\ made' = made + 1 /\ EntryStream(g) = NewStream(g)
  <1> USE OutputAssumption DEF Shape, TypeOK, EntryMade, EntryStream, Streams, None
  <1>1. CASE entry # None
    BY <1>1
  <1>2. CASE entry = None
    <2>1. NewStream(g) \in StreamType /\ NotStranded(NewStream(g))
      BY DEF NewStream, StreamType, NotStranded, Items, Channels
    <2> QED BY <1>2, <2>1
  <1> QED BY <1>1, <1>2

\* What a stream holds and what follows a channel's output are sequences of items.
LEMMA SeqFacts ==
  ASSUME NEW S, NEW a \in Seq(S), NEW n \in S, NEW b \in Seq(S)
  PROVE  Append(a, n) \in Seq(S) /\ a \o b \in Seq(S) /\ <<>> \in Seq(S)
  OBVIOUS

LEMMA AllTyped == ASSUME NEW r \in StreamType PROVE All(r) \in Seq(Items)
  BY SeqFacts DEF All, StreamType

\* A stream that is updated under its lock keeps the others as they are.
LEMMA StreamUpdated ==
  ASSUME Shape, NEW s \in Streams, NEW r \in StreamType, NotStranded(r),
         stream' = [stream EXCEPT ![s] = r], made' \in 0..MaxStreams, made <= made', s <= made',
         r.sink \in {stream[s].sink, None} \/ \A t \in Streams : stream[t].sink # r.sink
  PROVE  /\ stream' \in [Streams -> StreamType] /\ \A t \in Streams : NotStranded(stream'[t])
         /\ StreamsFresh' /\ SinksDistinct'
  <1> USE OutputAssumption DEF Shape, TypeOK
  <1>1. stream' \in [Streams -> StreamType] /\ \A t \in Streams : NotStranded(stream'[t])
    OBVIOUS
  <1>2. StreamsFresh'
    <2> SUFFICES ASSUME NEW t \in Streams, t > made' PROVE stream'[t] = NewStream(FALSE)
      BY DEF StreamsFresh, NewStream
    <2>1. t # s /\ t > made
      BY DEF Streams
    <2> QED BY <2>1 DEF StreamsFresh
  <1>3. SinksDistinct'
    <2> SUFFICES ASSUME NEW t \in Streams, NEW u \in Streams, t # u, stream'[t].sink # None
                 PROVE  stream'[t].sink # stream'[u].sink
      BY DEF SinksDistinct
    <2>1. stream'[t] = IF t = s THEN r ELSE stream[t]
      OBVIOUS
    <2>2. stream'[u] = IF u = s THEN r ELSE stream[u]
      OBVIOUS
    <2> QED BY <2>1, <2>2 DEF SinksDistinct
  <1> QED BY <1>1, <1>2, <1>3

\* A flush leaves the stream empty and adds what it held to its sink's channel.
Flushed(r) == [r EXCEPT !.pending = <<>>, !.close = 0,
                        !.hot = @ \/ (r.pending # <<>> /\ r.sink # None)]
LEMMA FlushedTyped ==
  ASSUME NEW r \in StreamType
  PROVE  /\ Flushed(r) \in StreamType /\ NotStranded(Flushed(r))
         /\ Flushed(r).sink = r.sink /\ Flushed(r).gated = r.gated
         /\ Flushed(r).pending = <<>> /\ Flushed(r).close = 0
  <1>1. <<>> \in Seq(Items)
    OBVIOUS
  <1>2. (r.hot \/ (r.pending # <<>> /\ r.sink # None)) \in BOOLEAN
    BY DEF StreamType
  <1>3. Flushed(r) \in StreamType
    BY <1>1, <1>2 DEF Flushed, StreamType
  <1> QED BY <1>3 DEF Flushed, StreamType, NotStranded

LEMMA SendGot ==
  ASSUME Shape, NEW s \in Streams, NEW r \in StreamType, Send(s, r)
  PROVE  /\ stream' = [stream EXCEPT ![s] = Flushed(r)]
         /\ got' \in [Channels -> Seq(Items)]
         /\ \A c \in Channels : got'[c] = IF c = r.sink THEN got[c] \o All(r) ELSE got[c]
  <1>1. stream' = [stream EXCEPT ![s] = Flushed(r)]
    BY DEF Send, Flushed
  <1>2. All(r) \in Seq(Items)
    BY AllTyped
  <1>3. got \in [Channels -> Seq(Items)]
    BY DEF Shape, TypeOK
  <1>4. CASE r.sink = None
    <2>1. got' = got /\ \A c \in Channels : c # r.sink
      BY <1>4 DEF Send, Channels, None
    <2> QED BY <1>1, <1>3, <2>1
  <1>5. CASE r.sink # None
    <2>1. r.sink \in Channels
      BY <1>5 DEF StreamType
    <2>2. got[r.sink] \o All(r) \in Seq(Items)
      BY <1>2, <1>3, <2>1, SeqFacts
    <2>3. got' = [got EXCEPT ![r.sink] = got[r.sink] \o All(r)]
      BY <1>5 DEF Send
    <2> QED BY <1>1, <1>3, <2>1, <2>2, <2>3
  <1> QED BY <1>4, <1>5

\* What neither touches a stream nor sends anything: the reader's own steps, the
\* frontend's, and the removal of the entry.
QuietStep == \/ Connect \/ Shutdown \/ Remove \/ \E close \in BOOLEAN : EmitBegins(close)
             \/ FrontendStep
LEMMA QuietShape == Shape /\ QuietStep => Shape'
  <1> SUFFICES ASSUME Shape, QuietStep PROVE Shape'
    OBVIOUS
  <1> USE OutputAssumption DEF Shape, backend, reader, frontend, commands
  <1>0. TypeOK /\ StreamsFresh /\ SinksDistinct /\ ChannelsFresh /\ Subscribed /\ EmissionOK /\ HoldsOK
    OBVIOUS
  <1>1. CASE Connect
    <2>1. shell' = "running" /\ UNCHANGED <<local, entry, stream, made, begun, emit, removed, chan, opened,
                                             handler, attach, detaches, ready, got>>
          /\ ~local /\ emit = NotEmitting
      BY <1>1 DEF Connect
    <2>2. TypeOK'
      BY <2>1 DEF TypeOK
    <2>3. StreamsFresh' /\ SinksDistinct' /\ ChannelsFresh' /\ Subscribed'
      BY <2>1 DEF StreamsFresh, SinksDistinct, ChannelsFresh, Subscribed, SinkIs
    <2>4. EmissionOK' /\ HoldsOK'
      BY <2>1 DEF EmissionOK, HoldsOK, StreamHolds, NotEmitting
    <2> QED BY <2>2, <2>3, <2>4
  <1>2. CASE Shutdown
    <2>1. shell' = "ended" /\ UNCHANGED <<local, entry, stream, made, begun, emit, removed, chan, opened,
                                           handler, attach, detaches, ready, got>>
          /\ ~local /\ emit = NotEmitting
      BY <1>2 DEF Shutdown
    <2>2. TypeOK'
      BY <2>1 DEF TypeOK
    <2>3. StreamsFresh' /\ SinksDistinct' /\ ChannelsFresh' /\ Subscribed'
      BY <2>1 DEF StreamsFresh, SinksDistinct, ChannelsFresh, Subscribed, SinkIs
    <2>4. EmissionOK' /\ HoldsOK'
      BY <2>1 DEF EmissionOK, HoldsOK, StreamHolds, NotEmitting
    <2> QED BY <2>2, <2>3, <2>4
  <1>3. CASE Remove
    <2>1. entry' = None /\ removed' = TRUE
          /\ UNCHANGED <<local, stream, made, shell, begun, emit, chan, opened,
                         handler, attach, detaches, ready, got>>
      BY <1>3 DEF Remove
    <2>2. TypeOK'
      BY <2>1 DEF TypeOK, None
    <2>3. StreamsFresh' /\ SinksDistinct' /\ ChannelsFresh' /\ Subscribed'
      BY <2>1 DEF StreamsFresh, SinksDistinct, ChannelsFresh, Subscribed
    <2>4. EmissionOK' /\ HoldsOK'
      BY <2>1 DEF EmissionOK, HoldsOK, StreamHolds, NotEmitting
    <2> QED BY <2>2, <2>3, <2>4
  <1>4. ASSUME NEW close \in BOOLEAN, EmitBegins(close) PROVE Shape'
    <2>1. begun < MaxItems /\ begun' = begun + 1 /\ emit = NotEmitting
          /\ emit' = (IF entry = None THEN NotEmitting
                      ELSE [item |-> begun + 1, to |-> entry, close |-> close])
          /\ shell = "running" /\ shell' = (IF close THEN "ended" ELSE shell)
          /\ UNCHANGED <<local, entry, stream, made, removed, chan, opened,
                         handler, attach, detaches, ready, got>>
      BY <1>4 DEF EmitBegins
    <2>2. emit' \in [item : 0..MaxItems, to : Streams \union {None}, close : BOOLEAN]
      <3>1. entry \in Streams \union {None} /\ begun + 1 \in 0..MaxItems
        BY <2>1 DEF TypeOK, Streams, None
      <3>2. CASE entry = None
        BY <2>1, <3>2 DEF TypeOK
      <3>3. CASE entry # None
        BY <2>1, <3>1, <3>3
      <3> QED BY <3>2, <3>3
    <2>3. TypeOK'
      BY <2>1, <2>2 DEF TypeOK
    <2>4. StreamsFresh' /\ SinksDistinct' /\ ChannelsFresh' /\ Subscribed'
      BY <2>1 DEF StreamsFresh, SinksDistinct, ChannelsFresh, Subscribed, SinkIs
    <2>5. EmissionOK'
      BY <2>1 DEF EmissionOK, TypeOK, None
    <2>6. HoldsOK'
      BY <2>1 DEF HoldsOK, StreamHolds
    <2> QED BY <2>3, <2>4, <2>5, <2>6
  <1>5. ASSUME NEW h \in Handlers, Subscribe(h) PROVE Shape'
    <2>1. handler[h] = "off" /\ handler' = [handler EXCEPT ![h] = "wait"]
          /\ UNCHANGED <<local, entry, stream, made, shell, begun, emit, removed, detaches, ready, got>>
      BY <1>5 DEF Subscribe
    <2>2. \/ chan # None /\ UNCHANGED <<chan, opened, attach>>
          \/ chan = None /\ opened < MaxChannels /\ chan' = opened + 1 /\ opened' = opened + 1 /\ attach' = TRUE
      BY <1>5 DEF Subscribe
    <2>3. TypeOK'
      <3>1. handler' \in [Handlers -> {"off", "wait", "on"}] /\ attach' \in BOOLEAN
        BY <2>1, <2>2 DEF TypeOK
      <3>2. opened' \in 0..MaxChannels /\ chan' \in 0..opened' /\ detaches' \subseteq 1..opened'
        BY <2>1, <2>2 DEF TypeOK
      <3> QED BY <2>1, <3>1, <3>2 DEF TypeOK
    <2>4. StreamsFresh' /\ SinksDistinct'
      BY <2>1 DEF StreamsFresh, SinksDistinct
    <2>5. ChannelsFresh'
      <3>1. \A s \in Streams : stream[s].sink \in Nat /\ stream[s].sink <= opened
        BY DEF TypeOK, StreamType, Channels, None, ChannelsFresh
      <3>2. opened \in Nat /\ opened' \in {opened, opened + 1} /\ got' = got /\ stream' = stream
        BY <2>1, <2>2 DEF TypeOK
      <3>3. (\A s \in Streams : stream'[s].sink <= opened') /\ \A c \in Channels : c > opened' => got'[c] = <<>>
        BY <3>1, <3>2 DEF ChannelsFresh, Channels
      <3>4. CASE chan # None /\ UNCHANGED <<chan, opened, attach>>
        BY <3>2, <3>4 DEF ChannelsFresh
      <3>5. CASE chan = None /\ opened < MaxChannels /\ chan' = opened + 1 /\ opened' = opened + 1 /\ attach' = TRUE
        <4>1. chan' \in Channels /\ chan' > opened /\ chan' # None
          BY <3>2, <3>5 DEF Channels, None
        <4>2. got[chan'] = <<>> /\ \A s \in Streams : stream[s].sink # chan'
          BY <3>1, <3>2, <4>1 DEF ChannelsFresh
        <4> QED BY <3>2, <3>3, <4>1, <4>2 DEF ChannelsFresh
      <3> QED BY <2>2, <3>4, <3>5
    <2>6. Subscribed'
      BY <2>1, <2>2 DEF Subscribed, TypeOK, SinkIs, None
    <2>7. EmissionOK' /\ HoldsOK'
      BY <2>1 DEF EmissionOK, HoldsOK, StreamHolds, NotEmitting
    <2> QED BY <2>3, <2>4, <2>5, <2>6, <2>7
  <1>6. ASSUME NEW h \in Handlers, Attached(h) PROVE Shape'
    <2>1. handler[h] = "wait" /\ ~attach /\ handler' = [handler EXCEPT ![h] = "on"] /\ ready' \in BOOLEAN
          /\ UNCHANGED <<local, entry, stream, made, shell, begun, emit, removed, chan, opened, attach, detaches, got>>
      BY <1>6 DEF Attached, TypeOK
    <2>2. TypeOK'
      BY <2>1 DEF TypeOK
    <2>3. StreamsFresh' /\ SinksDistinct' /\ ChannelsFresh' /\ Subscribed'
      BY <2>1 DEF StreamsFresh, SinksDistinct, ChannelsFresh, Subscribed, SinkIs, TypeOK
    <2>4. EmissionOK' /\ HoldsOK'
      BY <2>1 DEF EmissionOK, HoldsOK, StreamHolds, NotEmitting
    <2> QED BY <2>2, <2>3, <2>4
  <1>7. ASSUME NEW h \in Handlers, Unsubscribe(h) PROVE Shape'
    <2>1. handler[h] = "on" /\ handler' = [handler EXCEPT ![h] = "off"]
          /\ UNCHANGED <<local, entry, stream, made, shell, begun, emit, removed, opened, attach, ready, got>>
      BY <1>7 DEF Unsubscribe
    <2>2. \/ UNCHANGED <<chan, detaches>>
          \/ /\ \A o \in Handlers : handler'[o] = "off"
             /\ chan' = None /\ detaches' = detaches \union {chan}
      BY <1>7 DEF Unsubscribe
    <2>3. chan # None /\ ~attach
      BY <2>1 DEF Subscribed
    <2>4. TypeOK'
      <3>1. handler' \in [Handlers -> {"off", "wait", "on"}]
        BY <2>1 DEF TypeOK
      <3>2. chan \in 1..opened
        BY <2>3 DEF TypeOK, None
      <3>3. chan' \in 0..opened /\ detaches' \subseteq 1..opened
        <4>1. opened \in Nat /\ chan \in 0..opened /\ detaches \subseteq 1..opened
          BY DEF TypeOK
        <4>2. (chan' = chan \/ chan' = 0) /\ (detaches' = detaches \/ detaches' = detaches \union {chan})
          BY <2>2 DEF None
        <4>3. chan' \in 0..opened
          BY <4>1, <4>2
        <4>4. detaches \union {chan} \subseteq 1..opened
          BY <3>2, <4>1
        <4> QED BY <4>1, <4>2, <4>3, <4>4, Zenon
      <3>4. opened' \in 0..MaxChannels /\ chan' \in 0..opened' /\ detaches' \subseteq 1..opened'
        BY <2>1, <3>3 DEF TypeOK
      <3> QED BY <2>1, <3>1, <3>4 DEF TypeOK
    <2>5. StreamsFresh' /\ SinksDistinct' /\ ChannelsFresh'
      BY <2>1, <2>3 DEF StreamsFresh, SinksDistinct, ChannelsFresh
    <2>6. Subscribed'
      BY <2>1, <2>2, <2>3 DEF Subscribed, SinkIs, TypeOK, None
    <2>7. EmissionOK' /\ HoldsOK'
      BY <2>1 DEF EmissionOK, HoldsOK, StreamHolds, NotEmitting
    <2> QED BY <2>4, <2>5, <2>6, <2>7
  <1> QED BY <1>1, <1>2, <1>3, <1>4, <1>5, <1>6, <1>7 DEF QuietStep, FrontendStep

\* A step that changes one stream, and of what was sent at most what its sink heard:
\* the sink stays, goes, or becomes the channel of the attach that lands.
LEMMA StreamStep ==
  ASSUME Shape, NEW s \in Streams, NEW r \in StreamType, NotStranded(r),
         r.sink \in {stream[s].sink, None} \/ (attach /\ ~attach' /\ r.sink = chan),
         r.gated => local, r.close # 0 => r.gated /\ shell = "ended" /\ emit' = NotEmitting,
         ~r.gated /\ r.sink = None => r.pending = <<>>,
         stream' = [stream EXCEPT ![s] = r],
         got' \in [Channels -> Seq(Items)],
         \A c \in Channels : c # r.sink => got'[c] = got[c],
         made' \in 0..MaxStreams, made <= made', s <= made', entry' \in 0..made',
         attach' \in BOOLEAN, attach' => attach, detaches' \subseteq detaches, ready' \in BOOLEAN,
         emit' \in {emit, NotEmitting},
         shell' = shell \/ (shell = "none" /\ shell' = "running"),
         chan # None /\ ~attach' /\ ~removed => SinkIs(chan)',
         UNCHANGED <<local, begun, removed, chan, opened, handler>>
  PROVE  Shape'
  <1> USE OutputAssumption DEF Shape
  <1>0. \A t \in Streams : stream[t].sink \in Nat /\ stream[t].sink <= opened
    <2>1. \A t \in Streams : stream[t] \in StreamType
      BY DEF TypeOK
    <2>2. \A t \in Streams : stream[t].sink \in Nat
      BY <2>1 DEF StreamType, Channels, None
    <2> QED BY <2>2 DEF ChannelsFresh
  <1>2. /\ stream' \in [Streams -> StreamType] /\ \A t \in Streams : NotStranded(stream'[t])
        /\ StreamsFresh' /\ SinksDistinct'
    <2>1. r.sink \in {stream[s].sink, None} \/ \A t \in Streams : stream[t].sink # r.sink
      BY DEF ChannelsFresh
    <2> QED BY <2>1, StreamUpdated
  <1>3. TypeOK'
    <2>1. emit' \in [item : 0..MaxItems, to : Streams \union {None}, close : BOOLEAN]
      <3>1. NotEmitting \in [item : 0..MaxItems, to : Streams \union {None}, close : BOOLEAN]
        BY DEF NotEmitting, None
      <3>2. emit \in [item : 0..MaxItems, to : Streams \union {None}, close : BOOLEAN]
        BY DEF TypeOK
      <3> QED BY <3>1, <3>2, Zenon
    <2>2. begun' \in 0..MaxItems /\ shell' \in {"none", "running", "ended"}
          /\ handler' \in [Handlers -> {"off", "wait", "on"}]
          /\ opened' \in 0..MaxChannels /\ chan' \in 0..opened' /\ detaches' \subseteq 1..opened'
      BY DEF TypeOK
    <2>3. local' \in BOOLEAN /\ removed' \in BOOLEAN
      BY DEF TypeOK
    <2> QED BY <1>2, <2>1, <2>2, <2>3, Zenon DEF TypeOK
  <1>4. \A t \in Streams : stream'[t] = IF t = s THEN r ELSE stream[t]
    BY DEF TypeOK
  <1>5. ChannelsFresh'
    <2>1. opened \in Nat /\ chan \in 0..opened
      BY DEF TypeOK
    <2>2. r.sink \in Nat /\ r.sink <= opened
      BY <1>0, <2>1 DEF None
    <2>3. \A t \in Streams : stream'[t].sink <= opened
      BY <1>0, <1>4, <2>2
    <2>4. \A c \in Channels : c > opened => got'[c] = <<>>
      <3> SUFFICES ASSUME NEW c \in Channels, c > opened PROVE got'[c] = <<>>
        OBVIOUS
      <3>1. c # r.sink
        BY <2>1, <2>2 DEF Channels
      <3>2. got'[c] = got[c]
        BY <3>1
      <3> QED BY <3>2 DEF ChannelsFresh
    <2>5. ASSUME attach' PROVE chan # None /\ got'[chan] = <<>> /\ \A t \in Streams : stream'[t].sink # chan
      <3>1. chan # None /\ got[chan] = <<>> /\ \A t \in Streams : stream[t].sink # chan
        BY <2>5 DEF ChannelsFresh
      <3>2. chan # r.sink
        BY <2>5, <3>1
      <3>3. chan \in Channels
        BY <2>1, <3>1 DEF Channels, None, TypeOK
      <3>4. got'[chan] = got[chan]
        BY <3>2, <3>3
      <3> QED BY <1>4, <3>1, <3>2, <3>4
    <2> QED BY <2>3, <2>4, <2>5 DEF ChannelsFresh
  <1>6. Subscribed'
    BY DEF Subscribed
  <1>7. EmissionOK'
    BY DEF EmissionOK, NotEmitting, TypeOK
  <1>8. HoldsOK'
    <2> SUFFICES ASSUME NEW t \in Streams PROVE StreamHolds(stream[t])'
      BY DEF HoldsOK
    <2>1. CASE t = s
      BY <1>4, <2>1 DEF StreamHolds
    <2>2. CASE t # s
      <3>1. stream'[t] = stream[t] /\ StreamHolds(stream[t])
        BY <1>4, <2>2 DEF HoldsOK
      <3> QED BY <3>1 DEF StreamHolds, EmissionOK
    <2> QED BY <2>1, <2>2
  <1> QED BY <1>2, <1>3, <1>5, <1>6, <1>7, <1>8

\* A stream that was made holds what an invariant of its own allows.
LEMMA StreamFacts ==
  ASSUME Shape, NEW s \in Streams
  PROVE  /\ stream[s] \in StreamType /\ NotStranded(stream[s]) /\ StreamHolds(stream[s])
         /\ stream[s].timer \/ stream[s].hot \/ stream[s].sink # None => s <= made
         /\ made \in Nat /\ s \in Nat
  <1>1. stream[s] \in StreamType /\ NotStranded(stream[s]) /\ StreamHolds(stream[s]) /\ made \in Nat /\ s \in Nat
    BY DEF Shape, TypeOK, HoldsOK, Streams
  <1>2. s > made => stream[s] = NewStream(FALSE)
    BY DEF Shape, StreamsFresh
  <1>3. s > made => ~stream[s].timer /\ ~stream[s].hot /\ stream[s].sink = None
    BY <1>2 DEF NewStream
  <1> QED BY <1>1, <1>3

\* The flush task and the end of its window.
LEMMA TimerShape == Shape /\ TimerStep => Shape'
  <1> SUFFICES ASSUME Shape, NEW s \in Streams, TimerFires(s) \/ WindowEnds(s) PROVE Shape'
    BY DEF TimerStep
  <1>1. stream[s] \in StreamType /\ NotStranded(stream[s]) /\ StreamHolds(stream[s]) /\ s <= made
    BY StreamFacts DEF TimerFires, WindowEnds
  <1>2. /\ made \in 0..MaxStreams /\ entry \in 0..made /\ attach \in BOOLEAN /\ ready \in BOOLEAN
        /\ got \in [Channels -> Seq(Items)] /\ made <= made
    BY DEF Shape, TypeOK
  <1>3. chan # None /\ ~attach /\ ~removed => SinkIs(chan)
    BY DEF Shape, Subscribed
  <1>4. entry \in Streams \union {None}
    BY OutputAssumption, <1>2 DEF Streams, None
  <1>5. CASE TimerFires(s)
    <2> DEFINE r == [stream[s] EXCEPT !.timer = FALSE]
    <2>1. r \in StreamType /\ r.sink = stream[s].sink /\ r.gated = stream[s].gated
      BY <1>1 DEF StreamType
    <2>2. Send(s, r) /\ UNCHANGED <<local, entry, made, reader, frontend, commands>>
      BY <1>5 DEF TimerFires
    <2>3. /\ Flushed(r) \in StreamType /\ NotStranded(Flushed(r))
          /\ Flushed(r).sink = r.sink /\ Flushed(r).gated = r.gated
          /\ Flushed(r).pending = <<>> /\ Flushed(r).close = 0
      BY <2>1, FlushedTyped
    <2>4. /\ stream' = [stream EXCEPT ![s] = Flushed(r)]
          /\ got' \in [Channels -> Seq(Items)]
          /\ \A c \in Channels : got'[c] = IF c = r.sink THEN got[c] \o All(r) ELSE got[c]
      BY <2>1, <2>2, SendGot
    <2>5. SinkIs(chan)' <=> SinkIs(chan)
      <3>1. stream'[s].sink = stream[s].sink /\ \A u \in Streams : u # s => stream'[u] = stream[u]
        BY <2>1, <2>3, <2>4 DEF Shape, TypeOK
      <3> QED BY <1>4, <2>2, <3>1 DEF SinkIs, frontend
    <2> HIDE DEF r
    <2>6. UNCHANGED <<local, entry, made, shell, begun, emit, removed, chan, opened, handler, attach, detaches, ready>>
      BY <2>2 DEF reader, frontend, commands
    <2> QED BY <1>1, <1>2, <1>3, <2>1, <2>3, <2>4, <2>5, <2>6, StreamStep DEF StreamHolds
  <1>6. CASE WindowEnds(s)
    <2> DEFINE r == [stream[s] EXCEPT !.hot = FALSE]
    <2>1. r \in StreamType /\ r.sink = stream[s].sink /\ r.gated = stream[s].gated
          /\ r.close = stream[s].close /\ r.pending = stream[s].pending /\ NotStranded(r)
      BY <1>1 DEF StreamType, NotStranded
    <2>2. stream' = [stream EXCEPT ![s] = r] /\ got' = got
      BY <1>6 DEF WindowEnds, Put
    <2>3. UNCHANGED <<local, entry, made, shell, begun, emit, removed, chan, opened, handler, attach, detaches, ready>>
      BY <1>6 DEF WindowEnds, reader, frontend, commands
    <2>5. SinkIs(chan)' <=> SinkIs(chan)
      <3>1. stream'[s].sink = stream[s].sink /\ \A u \in Streams : u # s => stream'[u] = stream[u]
        BY <2>1, <2>2 DEF Shape, TypeOK
      <3> QED BY <1>4, <2>3, <3>1 DEF SinkIs
    <2> HIDE DEF r
    <2>6. r.close # 0 => emit = NotEmitting
      BY <1>1, <2>1 DEF StreamHolds
    <2> QED BY <1>1, <1>2, <1>3, <2>1, <2>2, <2>3, <2>5, <2>6, StreamStep DEF StreamHolds
  <1> QED BY <1>5, <1>6

\* The entry, made or found, holds what a stream may hold.
LEMMA EntryHolds ==
  ASSUME Shape, NEW g \in BOOLEAN, EntryMade(g)
  PROVE  /\ EntryStream(g).sink = stream[entry'].sink
         /\ ~g \/ local => StreamHolds(EntryStream(g))
         /\ entry = None => EntryStream(g).pending = <<>> /\ EntryStream(g).close = 0
                            /\ EntryStream(g).gated = g
  <1>1. entry # None => EntryStream(g) = stream[entry']
    BY EntryGiven
  <1>2. entry' \in Streams /\ (entry = None => entry' = made + 1 /\ EntryStream(g) = NewStream(g))
    BY EntryGiven
  <1>3. StreamHolds(stream[entry'])
    BY <1>2, StreamFacts
  <1>4. CASE entry # None
    BY <1>1, <1>3, <1>4
  <1>5. CASE entry = None
    <2>1. entry' > made
      BY <1>2, <1>5 DEF Shape, TypeOK
    <2>2. stream[entry'] = NewStream(FALSE)
      BY <1>2, <2>1 DEF Shape, StreamsFresh
    <2> QED BY <1>2, <1>5, <2>2 DEF NewStream, StreamHolds
  <1> QED BY <1>4, <1>5

\* The spawn of a local shell.
LEMMA SpawnShape == Shape /\ Spawn => Shape'
  <1> SUFFICES ASSUME Shape, Spawn PROVE Shape'
    OBVIOUS
  <1> DEFINE r == EntryStream(TRUE)
  <1>1. local /\ shell = "none" /\ EntryMade(TRUE) /\ shell' = "running"
        /\ stream' = [stream EXCEPT ![entry'] = r] /\ got' = got
        /\ UNCHANGED <<local, begun, emit, removed, chan, opened, handler, attach, detaches, ready>>
    BY DEF Spawn, Put, frontend, commands
  <1>2. /\ entry' \in Streams /\ entry' \in 1..made' /\ made' \in 0..MaxStreams /\ made <= made'
        /\ r \in StreamType /\ NotStranded(r) /\ (entry # None => entry' = entry)
    BY <1>1, EntryGiven
  <1>3. r.sink = stream[entry'].sink /\ StreamHolds(r)
    BY <1>1, EntryHolds
  <1> HIDE DEF r
  <1>4. chan # None /\ ~attach' /\ ~removed => SinkIs(chan)'
    <2>1. chan # None /\ ~attach /\ ~removed => SinkIs(chan)
      BY DEF Shape, Subscribed
    <2>2. stream'[entry'].sink = stream[entry'].sink
      BY <1>1, <1>2, <1>3 DEF Shape, TypeOK
    <2> QED BY <1>1, <1>2, <2>1, <2>2 DEF SinkIs
  <1>5. /\ got' \in [Channels -> Seq(Items)] /\ attach' \in BOOLEAN /\ ready' \in BOOLEAN
        /\ entry' <= made' /\ entry' \in 0..made' /\ made' \in 0..MaxStreams
    BY <1>1, <1>2 DEF Shape, TypeOK
  <1>6. r.close = 0
    BY <1>1, <1>3 DEF StreamHolds
  <1> QED BY <1>1, <1>2, <1>3, <1>4, <1>5, <1>6, StreamStep DEF StreamHolds

\* An attach that lands.
LEMMA AttachShape == Shape /\ AttachLands => Shape'
  <1> SUFFICES ASSUME Shape, AttachLands PROVE Shape'
    OBVIOUS
  <1> DEFINE e == EntryStream(local)
             r == [e EXCEPT !.sink = chan, !.hot = FALSE]
  <1>1. attach /\ attach' = FALSE /\ EntryMade(local)
        /\ stream' = [stream EXCEPT ![entry'] = r] /\ got' = got
        /\ UNCHANGED <<local, shell, begun, emit, removed, chan, opened, handler, detaches, ready>>
    BY DEF AttachLands, Put, reader, commands
  <1>0. local \in BOOLEAN
    BY DEF Shape, TypeOK
  <1>2. /\ entry' \in Streams /\ entry' \in 1..made' /\ made' \in 0..MaxStreams /\ made <= made'
        /\ e \in StreamType /\ NotStranded(e)
    BY <1>0, <1>1, EntryGiven
  <1>3. StreamHolds(e)
    BY <1>0, <1>1, EntryHolds
  <1>4. chan # None /\ chan \in Channels
    BY <1>1, OutputAssumption DEF Shape, TypeOK, ChannelsFresh, Channels, None
  <1>5. r \in StreamType /\ NotStranded(r) /\ r.sink = chan /\ r.gated = e.gated
        /\ r.close = e.close /\ r.pending = e.pending
    BY <1>2, <1>4 DEF StreamType, NotStranded
  <1>6. stream'[entry'] = r
    BY <1>1, <1>2 DEF Shape, TypeOK
  <1> HIDE DEF r, e
  <1>7. SinkIs(chan)'
    BY <1>1, <1>2, <1>5, <1>6 DEF SinkIs, None
  <1>8. /\ got' \in [Channels -> Seq(Items)] /\ attach' \in BOOLEAN /\ ready' \in BOOLEAN
        /\ entry' <= made' /\ entry' \in 0..made'
    <2>1. got \in [Channels -> Seq(Items)] /\ ready \in BOOLEAN
      BY DEF Shape, TypeOK
    <2>2. entry' <= made' /\ entry' \in 0..made'
      BY <1>2
    <2> QED BY <1>1, <2>1, <2>2
  <1>9. /\ r.gated => local
        /\ r.close # 0 => r.gated /\ shell = "ended" /\ emit' = NotEmitting
        /\ ~r.gated /\ r.sink = None => r.pending = <<>>
    BY <1>1, <1>3, <1>4, <1>5 DEF StreamHolds
  <1>10. \A c \in Channels : c # r.sink => got'[c] = got[c]
    BY <1>1
  <1>11. emit' \in {emit, NotEmitting} /\ shell' = shell /\ detaches' \subseteq detaches
    BY <1>1
  <1> QED BY <1>1, <1>2, <1>5, <1>7, <1>8, <1>9, <1>10, <1>11, StreamStep

\* A detach that lands, too late or in time.
LEMMA DetachShape == Shape /\ (\E c \in Channels : DetachLands(c)) => Shape'
  <1> SUFFICES ASSUME Shape, NEW c \in Channels, DetachLands(c) PROVE Shape'
    OBVIOUS
  <1>1. c \in detaches /\ detaches' = detaches \ {c}
        /\ UNCHANGED <<local, made, shell, begun, emit, removed, chan, opened, handler, attach, ready>>
    BY DEF DetachLands, reader, frontend
  <1>2. CASE SinkIs(c)
    <2> DEFINE r == [stream[entry] EXCEPT !.sink = None, !.pending = <<>>]
    <2>1. entry # None /\ entry' = None /\ stream' = [stream EXCEPT ![entry] = r] /\ got' = got
      BY <1>2 DEF DetachLands, Put, SinkIs
    <2>2. entry \in Streams /\ entry <= made /\ made \in 0..MaxStreams
      BY <2>1, OutputAssumption DEF Shape, TypeOK, Streams, None
    <2>3. stream[entry] \in StreamType /\ NotStranded(stream[entry]) /\ StreamHolds(stream[entry])
      BY <2>2, StreamFacts
    <2>4. <<>> \in Seq(Items)
      OBVIOUS
    <2>5. r \in StreamType /\ NotStranded(r) /\ r.sink = None /\ r.gated = stream[entry].gated
          /\ r.close = stream[entry].close /\ r.pending = <<>>
      BY <2>3, <2>4 DEF StreamType, NotStranded
    <2>6. ~(chan # None /\ ~attach /\ ~removed)
      <3>1. chan \notin detaches
        BY DEF Shape, Subscribed
      <3>2. chan # c
        BY <1>1, <3>1
      <3> QED BY <1>2, <3>2 DEF Shape, Subscribed, SinkIs
    <2> HIDE DEF r
    <2>7. /\ got' \in [Channels -> Seq(Items)] /\ attach' \in BOOLEAN /\ ready' \in BOOLEAN
          /\ entry' \in 0..made' /\ made' \in 0..MaxStreams /\ made <= made' /\ entry <= made'
      BY <1>1, <2>1, <2>2 DEF Shape, TypeOK, None
    <2>8. /\ r.gated => local
          /\ r.close # 0 => r.gated /\ shell = "ended" /\ emit' = NotEmitting
          /\ ~r.gated /\ r.sink = None => r.pending = <<>>
      BY <1>1, <2>3, <2>5 DEF StreamHolds
    <2>9. \A d \in Channels : d # r.sink => got'[d] = got[d]
      BY <2>1
    <2>10. emit' \in {emit, NotEmitting} /\ shell' = shell /\ detaches' \subseteq detaches
           /\ r.sink \in {stream[entry].sink, None} /\ (attach' => attach)
           /\ (chan # None /\ ~attach' /\ ~removed => SinkIs(chan)')
      BY <1>1, <2>5, <2>6
    <2> QED BY <1>1, <2>1, <2>2, <2>5, <2>7, <2>8, <2>9, <2>10, StreamStep
  <1>3. CASE ~SinkIs(c)
    <2>1. UNCHANGED <<entry, stream, got>>
      BY <1>3 DEF DetachLands
    <2>2. /\ TypeOK /\ StreamsFresh /\ SinksDistinct /\ ChannelsFresh /\ Subscribed /\ EmissionOK /\ HoldsOK
      BY DEF Shape
    <2>3. TypeOK'
      BY <1>1, <2>1, <2>2 DEF TypeOK
    <2>4. StreamsFresh' /\ SinksDistinct' /\ ChannelsFresh'
      BY <1>1, <2>1, <2>2 DEF StreamsFresh, SinksDistinct, ChannelsFresh
    <2>5. Subscribed' /\ EmissionOK' /\ HoldsOK'
      BY <1>1, <2>1, <2>2 DEF Subscribed, EmissionOK, HoldsOK, StreamHolds, SinkIs, NotEmitting
    <2> QED BY <2>3, <2>4, <2>5 DEF Shape
  <1> QED BY <1>2, <1>3

\* Opening a gate, or doing nothing to an open one.
LEMMA OpenedTyped ==
  ASSUME Shape, NEW s \in Streams, NEW r \in StreamType, NotStranded(r), Open(s, r)
  PROVE  \E q \in StreamType :
           /\ NotStranded(q) /\ q.sink = r.sink /\ ~q.gated /\ q.close = 0
           /\ q.pending = IF r.gated THEN <<>> ELSE r.pending
           /\ stream' = [stream EXCEPT ![s] = q]
           /\ got' \in [Channels -> Seq(Items)]
           /\ \A c \in Channels : got'[c] = IF r.gated /\ c = r.sink THEN got[c] \o All(r) ELSE got[c]
  <1>1. CASE r.gated
    <2> DEFINE o == [r EXCEPT !.gated = FALSE]
    <2>1. o \in StreamType /\ o.sink = r.sink /\ o.close = r.close /\ o.pending = r.pending /\ ~o.gated
      BY DEF StreamType
    <2>2. Send(s, o)
      BY <1>1 DEF Open
    <2> HIDE DEF o
    <2>3. All(o) = All(r)
      BY <2>1 DEF All
    <2>4. /\ Flushed(o) \in StreamType /\ NotStranded(Flushed(o))
          /\ Flushed(o).sink = o.sink /\ Flushed(o).gated = o.gated
          /\ Flushed(o).pending = <<>> /\ Flushed(o).close = 0
      BY <2>1, FlushedTyped
    <2>5. /\ stream' = [stream EXCEPT ![s] = Flushed(o)]
          /\ got' \in [Channels -> Seq(Items)]
          /\ \A c \in Channels : got'[c] = IF c = o.sink THEN got[c] \o All(o) ELSE got[c]
      BY <2>1, <2>2, SendGot
    <2> QED BY <1>1, <2>1, <2>3, <2>4, <2>5
  <1>2. CASE ~r.gated
    <2>1. stream' = [stream EXCEPT ![s] = r] /\ got' = got
      BY <1>2 DEF Open, Put
    <2>2. got \in [Channels -> Seq(Items)]
      BY DEF Shape, TypeOK
    <2>3. r.close = 0
      BY <1>2 DEF NotStranded
    <2> QED BY <1>2, <2>1, <2>2, <2>3
  <1>3. r.gated \in BOOLEAN
    BY DEF StreamType
  <1> QED BY <1>1, <1>2, <1>3

\* The terminal's ready command.
LEMMA ReadyShape == Shape /\ ReadyLands => Shape'
  <1> SUFFICES ASSUME Shape, ReadyLands PROVE Shape'
    OBVIOUS
  <1> DEFINE e == EntryStream(TRUE)
  <1>1. ready' = FALSE /\ EntryMade(TRUE) /\ Open(entry', e)
        /\ UNCHANGED <<local, shell, begun, emit, removed, chan, opened, handler, attach, detaches>>
    BY DEF ReadyLands, reader, frontend
  <1>2. /\ entry' \in Streams /\ entry' \in 1..made' /\ made' \in 0..MaxStreams /\ made <= made'
        /\ e \in StreamType /\ NotStranded(e) /\ (entry # None => entry' = entry)
    BY <1>1, EntryGiven
  <1>3. e.sink = stream[entry'].sink /\ (entry = None => e.gated)
    BY <1>1, EntryHolds
  <1>4. entry # None => e = stream[entry'] /\ StreamHolds(e)
    BY <1>1, <1>2, EntryGiven, StreamFacts
  <1> HIDE DEF e
  <1>5. PICK q \in StreamType :
           /\ NotStranded(q) /\ q.sink = e.sink /\ ~q.gated /\ q.close = 0
           /\ q.pending = IF e.gated THEN <<>> ELSE e.pending
           /\ stream' = [stream EXCEPT ![entry'] = q]
           /\ got' \in [Channels -> Seq(Items)]
           /\ \A c \in Channels : got'[c] = IF e.gated /\ c = e.sink THEN got[c] \o All(e) ELSE got[c]
    BY <1>1, <1>2, OpenedTyped
  <1>6. chan # None /\ ~attach' /\ ~removed => SinkIs(chan)'
    <2>1. chan # None /\ ~attach /\ ~removed => SinkIs(chan)
      BY DEF Shape, Subscribed
    <2>2. stream'[entry'].sink = stream[entry'].sink
      BY <1>2, <1>3, <1>5 DEF Shape, TypeOK
    <2> QED BY <1>1, <1>2, <2>1, <2>2 DEF SinkIs
  <1>7. q.sink = None => q.pending = <<>>
    BY <1>3, <1>4, <1>5 DEF StreamHolds
  <1>8. attach \in BOOLEAN /\ entry' <= made' /\ entry' \in 0..made'
    <2>1. attach \in BOOLEAN
      BY DEF Shape, TypeOK
    <2> QED BY <1>2, <2>1
  <1>9. \A c \in Channels : c # q.sink => got'[c] = got[c]
    BY <1>5
  <1>10. emit' \in {emit, NotEmitting} /\ shell' = shell /\ detaches' \subseteq detaches
         /\ attach' \in BOOLEAN /\ (attach' => attach) /\ ready' \in BOOLEAN
    BY <1>1, <1>8
  <1> QED BY <1>1, <1>2, <1>3, <1>5, <1>6, <1>7, <1>8, <1>9, <1>10, StreamStep

\* What an emission does to its stream, which holds no close yet: the item is kept
\* behind what is held, or all is passed to the sink, or nobody listens.
Emitted(q) ==
  LET s == emit.to
      w == Append(stream[s].pending, emit.item) IN
  /\ NotStranded(q) /\ q.sink = stream[s].sink /\ (q.gated => stream[s].gated)
  /\ q.close # 0 => q.gated /\ emit.close
  /\ ~q.gated /\ q.sink = None => q.pending = <<>>
  /\ stream' = [stream EXCEPT ![s] = q]
  /\ \/ All(q) = w /\ got' = got
     \/ All(q) = <<>> /\ q.sink = None /\ got' = got
     \/ All(q) = <<>> /\ q.sink # None /\ got' \in [Channels -> Seq(Items)]
        /\ \A c \in Channels : got'[c] = IF c = q.sink THEN got[c] \o w ELSE got[c]

LEMMA EmitTyped ==
  ASSUME Shape, emit # NotEmitting
  PROVE  /\ emit.to \in Streams /\ emit.to <= made /\ emit.item \in Items /\ emit.item = begun
         /\ stream[emit.to] \in StreamType /\ stream[emit.to].close = 0
         /\ Append(stream[emit.to].pending, emit.item) \in Seq(Items)
         /\ NotStranded(stream[emit.to]) /\ StreamHolds(stream[emit.to])
  <1>1. emit.item = begun /\ begun # 0 /\ emit.to \in 1..made
    BY DEF Shape, EmissionOK
  <1>2. emit.to \in Streams /\ emit.to <= made /\ emit.item \in Items
    BY <1>1, OutputAssumption DEF Shape, TypeOK, Streams, Items
  <1>3. stream[emit.to] \in StreamType /\ NotStranded(stream[emit.to]) /\ StreamHolds(stream[emit.to])
    BY <1>2, StreamFacts
  <1>4. Append(stream[emit.to].pending, emit.item) \in Seq(Items)
    BY <1>2, <1>3, SeqFacts DEF StreamType
  <1> QED BY <1>1, <1>2, <1>3, <1>4 DEF StreamHolds

LEMMA SendOutcome ==
  ASSUME Shape, emit # NotEmitting, NEW r \in StreamType, Send(emit.to, r),
         r.sink = stream[emit.to].sink, r.gated => stream[emit.to].gated,
         All(r) = Append(stream[emit.to].pending, emit.item)
  PROVE  \E q \in StreamType : Emitted(q)
  <1>1. emit.to \in Streams
    BY EmitTyped
  <1>2. /\ Flushed(r) \in StreamType /\ NotStranded(Flushed(r))
        /\ Flushed(r).sink = r.sink /\ Flushed(r).gated = r.gated
        /\ Flushed(r).pending = <<>> /\ Flushed(r).close = 0
    BY FlushedTyped
  <1>3. /\ stream' = [stream EXCEPT ![emit.to] = Flushed(r)]
        /\ got' \in [Channels -> Seq(Items)]
        /\ \A c \in Channels : got'[c] = IF c = r.sink THEN got[c] \o All(r) ELSE got[c]
    BY <1>1, SendGot
  <1>4. All(Flushed(r)) = <<>>
    BY <1>2 DEF All
  <1>5. r.sink = None => got' = got
    BY DEF Send
  <1> QED BY <1>2, <1>3, <1>4, <1>5 DEF Emitted

LEMMA EmitOutcome ==
  ASSUME Shape, EmitLands
  PROVE  \E q \in StreamType : Emitted(q)
  <1> DEFINE s == emit.to
             n == emit.item
             r == stream[s]
             w == Append(r.pending, n)
             full == [r EXCEPT !.pending = Append(@, n)]
  <1>1. emit # NotEmitting /\ (IF emit.close THEN Closed(s, n) ELSE Output(s, n))
    BY DEF EmitLands
  <1>2. /\ s \in Streams /\ n \in Items /\ r \in StreamType /\ r.close = 0 /\ w \in Seq(Items)
        /\ NotStranded(r) /\ StreamHolds(r)
    BY <1>1, EmitTyped
  <1>3. full \in StreamType /\ full.pending = w /\ full.sink = r.sink /\ full.gated = r.gated
        /\ full.close = 0 /\ full.timer = r.timer
    BY <1>2 DEF StreamType
  <1>4. All(full) = w
    BY <1>3 DEF All
  <1>5. CASE emit.close
    <2> DEFINE c == [r EXCEPT !.close = n]
    <2>1. c \in StreamType /\ c.close = n /\ c.sink = r.sink /\ c.gated = r.gated /\ c.pending = r.pending
      BY <1>2 DEF StreamType
    <2>2. n # 0 /\ All(c) = w
      BY <1>2, <2>1 DEF Items, All
    <2>3. IF c.gated THEN Put(s, c) ELSE Send(s, c)
      BY <1>1, <1>5 DEF Closed
    <2>4. CASE c.gated
      <3>1. stream' = [stream EXCEPT ![s] = c] /\ got' = got
        BY <2>3, <2>4 DEF Put
      <3>2. NotStranded(c)
        BY <2>4 DEF NotStranded
      <3> HIDE DEF c
      <3> QED BY <1>5, <2>1, <2>2, <2>4, <3>1, <3>2 DEF Emitted
    <2>5. CASE ~c.gated
      <3> HIDE DEF c
      <3> QED BY <1>1, <2>1, <2>2, <2>3, <2>5, SendOutcome
    <2> QED BY <2>4, <2>5
  <1>6. CASE ~emit.close
    <2>0. Output(s, n)
      BY <1>1, <1>6
    <2>1. CASE r.gated /\ Open(s, full)
      <3> DEFINE o == [full EXCEPT !.gated = FALSE]
      <3>1. o \in StreamType /\ o.sink = r.sink /\ ~o.gated /\ o.pending = w /\ o.close = 0
        BY <1>3 DEF StreamType
      <3>2. Send(s, o)
        BY <1>3, <2>1 DEF Open
      <3> HIDE DEF o
      <3>3. All(o) = w
        BY <3>1 DEF All
      <3> QED BY <1>1, <3>1, <3>2, <3>3, SendOutcome
    <2>2. CASE r.gated /\ Put(s, full)
      <3>1. stream' = [stream EXCEPT ![s] = full] /\ got' = got
        BY <2>2 DEF Put
      <3>2. NotStranded(full)
        BY <1>3, <2>2 DEF NotStranded
      <3> HIDE DEF full
      <3> QED BY <1>3, <1>4, <2>2, <3>1, <3>2 DEF Emitted
    <2>3. CASE ~r.gated /\ r.sink = None /\ Put(s, r)
      <3>1. stream' = [stream EXCEPT ![s] = r] /\ got' = got
        BY <2>3 DEF Put
      <3>2. r.pending = <<>>
        BY <1>2, <2>3 DEF StreamHolds
      <3>3. All(r) = <<>>
        BY <1>2, <3>2 DEF All
      <3> QED BY <1>2, <2>3, <3>1, <3>2, <3>3 DEF Emitted
    <2>4. CASE Send(s, full)
      <3> HIDE DEF full
      <3> QED BY <1>1, <1>3, <1>4, <2>4, SendOutcome
    <2>5. CASE ~r.gated /\ r.sink # None /\ Put(s, [full EXCEPT !.timer = TRUE])
      <3> DEFINE q == [full EXCEPT !.timer = TRUE]
      <3>1. q \in StreamType /\ q.sink = r.sink /\ ~q.gated /\ q.pending = w /\ q.close = 0 /\ q.timer
        BY <1>3, <2>5 DEF StreamType
      <3>2. stream' = [stream EXCEPT ![s] = q] /\ got' = got
        BY <2>5 DEF Put
      <3> HIDE DEF q
      <3>3. All(q) = w /\ NotStranded(q)
        BY <3>1 DEF All, NotStranded
      <3> QED BY <2>5, <3>1, <3>2, <3>3 DEF Emitted
    <2> QED BY <2>0, <2>1, <2>2, <2>3, <2>4, <2>5 DEF Output
  <1>7. emit.close \in BOOLEAN
    BY DEF Shape, TypeOK
  <1> QED BY <1>5, <1>6

\* An emission that has its stream's lock.
LEMMA EmitShape == Shape /\ EmitLands => Shape'
  <1> SUFFICES ASSUME Shape, EmitLands PROVE Shape'
    OBVIOUS
  <1> DEFINE s == emit.to
  <1>1. emit # NotEmitting /\ emit' = NotEmitting
        /\ UNCHANGED <<local, entry, made, shell, begun, removed, chan, opened, handler, attach, detaches, ready>>
    BY DEF EmitLands, frontend, commands
  <1>2. s \in Streams /\ s <= made /\ stream[s] \in StreamType /\ StreamHolds(stream[s])
    BY <1>1, EmitTyped
  <1>3. PICK q \in StreamType : Emitted(q)
    BY EmitOutcome
  <1>4. /\ NotStranded(q) /\ q.sink = stream[s].sink /\ stream' = [stream EXCEPT ![s] = q]
        /\ q.gated => local
        /\ ~q.gated /\ q.sink = None => q.pending = <<>>
        /\ q.close # 0 => q.gated /\ emit.close
    BY <1>2, <1>3 DEF Emitted, StreamHolds
  <1>5. q.close # 0 => shell = "ended"
    BY <1>1, <1>4 DEF Shape, EmissionOK
  <1>6. /\ made \in 0..MaxStreams /\ entry \in 0..made /\ attach \in BOOLEAN /\ ready \in BOOLEAN
        /\ got \in [Channels -> Seq(Items)] /\ made <= made
    BY DEF Shape, TypeOK
  <1>7. got' \in [Channels -> Seq(Items)] /\ \A c \in Channels : c # q.sink => got'[c] = got[c]
    BY <1>3, <1>6 DEF Emitted
  <1>8. entry \in Streams \union {None}
    BY OutputAssumption, <1>6 DEF Streams, None
  <1>9. chan # None /\ ~attach' /\ ~removed => SinkIs(chan)'
    <2>1. chan # None /\ ~attach /\ ~removed => SinkIs(chan)
      BY DEF Shape, Subscribed
    <2>2. \A u \in Streams : stream'[u].sink = stream[u].sink
      BY <1>2, <1>4 DEF Shape, TypeOK
    <2> QED BY <1>1, <1>8, <2>1, <2>2 DEF SinkIs
  <1>10. emit' \in {emit, NotEmitting} /\ shell' = shell /\ detaches' \subseteq detaches
    BY <1>1
  <1> HIDE DEF s
  <1> QED BY <1>1, <1>2, <1>4, <1>5, <1>6, <1>7, <1>9, <1>10, StreamStep

\* Shape is inductive.
LEMMA ShapeStep == Shape /\ [Next]_vars => Shape'
  <1> SUFFICES ASSUME Shape, [Next]_vars PROVE Shape'
    OBVIOUS
  <1>1. CASE UNCHANGED vars
    <2>1. UNCHANGED <<local, entry, stream, made, shell, begun, emit, removed, chan, opened,
                      handler, attach, detaches, ready, got>>
      BY <1>1 DEF vars, backend, reader, frontend, commands
    <2>2. TypeOK'
      BY <2>1 DEF TypeOK, Shape
    <2>3. (StreamsFresh /\ SinksDistinct /\ ChannelsFresh)'
      BY <2>1 DEF Shape, StreamsFresh, SinksDistinct, ChannelsFresh
    <2>4. (Subscribed /\ EmissionOK /\ HoldsOK)'
      BY <2>1 DEF Shape, Subscribed, EmissionOK, HoldsOK, StreamHolds, SinkIs, NotEmitting
    <2> QED BY <2>2, <2>3, <2>4 DEF Shape
  <1>2. CASE Next
    BY <1>2, QuietShape, SpawnShape, EmitShape, TimerShape, AttachShape, ReadyShape, DetachShape
       DEF Next, ReaderStep, CommandStep, QuietStep
  <1> QED BY <1>1, <1>2

\* Every session stays well formed.
THEOREM TypeCorrect == Spec => []TypeOK
  <1>1. Shape => TypeOK
    BY DEF Shape
  <1> QED BY InitShape, ShapeStep, <1>1, PTL DEF Spec

\* No late detach cuts a subscriber off, whatever the order in which attaches and
\* detaches land.
THEOREM SubscribersStay == Spec => []SubscribersAttached
  <1>1. Shape => SubscribersAttached
    BY DEF Shape, Subscribed, SubscribersAttached, SinkIs, None
  <1> QED BY InitShape, ShapeStep, <1>1, PTL DEF Spec

(***************************************************************************)
(* The order of what is sent and held                                      *)
(***************************************************************************)

\* Sequences of items that are joined stay in order.
LEMMA Joined ==
  ASSUME NEW a \in Seq(Items), NEW b \in Seq(Items), Increasing(a), Increasing(b), Ordered(a, b)
  PROVE  Increasing(a \o b)
  <1> USE DEF Items
  <1>1. \A i \in 1..Len(a \o b) :
          (a \o b)[i] = IF i <= Len(a) THEN a[i] ELSE b[i - Len(a)]
    OBVIOUS
  <1>2. Len(a \o b) = Len(a) + Len(b) /\ Len(a) \in Nat /\ Len(b) \in Nat
    OBVIOUS
  <1> SUFFICES ASSUME NEW i \in 1..Len(a \o b), NEW j \in 1..Len(a \o b), i < j
               PROVE  (a \o b)[i] < (a \o b)[j]
    BY DEF Increasing
  <1>3. CASE j <= Len(a)
    BY <1>1, <1>2, <1>3 DEF Increasing
  <1>4. CASE i <= Len(a) /\ j > Len(a)
    <2>1. i \in 1..Len(a) /\ j - Len(a) \in 1..Len(b)
      BY <1>2, <1>4
    <2>2. (a \o b)[i] = a[i] /\ (a \o b)[j] = b[j - Len(a)]
      BY <1>1, <1>2, <1>4
    <2> QED BY <2>1, <2>2 DEF Ordered
  <1>5. CASE i > Len(a)
    <2>1. i - Len(a) \in 1..Len(b) /\ j - Len(a) \in 1..Len(b) /\ i - Len(a) < j - Len(a)
      BY <1>2, <1>5
    <2>2. (a \o b)[i] = b[i - Len(a)] /\ (a \o b)[j] = b[j - Len(a)]
      BY <1>1, <1>2, <1>5
    <2> QED BY <2>1, <2>2 DEF Increasing
  <1> QED BY <1>2, <1>3, <1>4, <1>5

LEMMA JoinedBelow ==
  ASSUME NEW a \in Seq(Items), NEW b \in Seq(Items), NEW n \in Nat, Below(a, n), Below(b, n)
  PROVE  Below(a \o b, n)
  <1>1. \A i \in 1..Len(a \o b) :
          (a \o b)[i] = IF i <= Len(a) THEN a[i] ELSE b[i - Len(a)]
    OBVIOUS
  <1>2. Len(a \o b) = Len(a) + Len(b) /\ Len(a) \in Nat /\ Len(b) \in Nat
    OBVIOUS
  <1> SUFFICES ASSUME NEW i \in 1..Len(a \o b) PROVE (a \o b)[i] < n
    BY DEF Below
  <1>3. CASE i <= Len(a)
    BY <1>1, <1>2, <1>3 DEF Below
  <1>4. CASE i > Len(a)
    <2>1. i - Len(a) \in 1..Len(b)
      BY <1>2, <1>4
    <2> QED BY <1>1, <1>4, <2>1 DEF Below
  <1> QED BY <1>2, <1>3, <1>4

\* An item that is newer than a sequence may be put behind it.
LEMMA Extended ==
  ASSUME NEW a \in Seq(Items), NEW n \in Items, Increasing(a), Below(a, n)
  PROVE  Increasing(Append(a, n)) /\ Below(Append(a, n), n + 1)
  <1>0. Items \subseteq Nat
    BY OutputAssumption DEF Items
  <1>1. \A i \in 1..Len(a) + 1 : Append(a, n)[i] = IF i <= Len(a) THEN a[i] ELSE n
    BY AppendProperties
  <1>2. Len(Append(a, n)) = Len(a) + 1 /\ Len(a) \in Nat /\ n \in Nat /\ \A i \in 1..Len(a) : a[i] \in Nat
    <2>1. \A i \in 1..Len(a) : a[i] \in Items
      OBVIOUS
    <2>2. Len(Append(a, n)) = Len(a) + 1 /\ Len(a) \in Nat
      BY AppendProperties
    <2>3. n \in Nat
      BY <1>0
    <2> QED BY <1>0, <2>1, <2>2, <2>3
  <1>3. Increasing(Append(a, n))
    <2> SUFFICES ASSUME NEW i \in 1..Len(a) + 1, NEW j \in 1..Len(a) + 1, i < j
                 PROVE  Append(a, n)[i] < Append(a, n)[j]
      BY <1>2 DEF Increasing
    <2>1. i \in 1..Len(a) /\ Append(a, n)[i] = a[i]
      BY <1>1, <1>2
    <2>2. CASE j <= Len(a)
      BY <1>1, <1>2, <2>1, <2>2 DEF Increasing
    <2>3. CASE j > Len(a)
      BY <1>1, <1>2, <2>1, <2>3 DEF Below
    <2> QED BY <1>2, <2>2, <2>3
  <1>4. Below(Append(a, n), n + 1)
    BY <1>1, <1>2 DEF Below
  <1> QED BY <1>3, <1>4

LEMMA ExtendedOrdered ==
  ASSUME NEW a \in Seq(Items), NEW b \in Seq(Items), NEW n \in Items, Ordered(a, b), Below(a, n)
  PROVE  Ordered(a, Append(b, n))
  <1>1. \A i \in 1..Len(b) + 1 : Append(b, n)[i] = IF i <= Len(b) THEN b[i] ELSE n
    BY AppendProperties
  <1>2. Len(Append(b, n)) = Len(b) + 1 /\ Len(b) \in Nat
    OBVIOUS
  <1> SUFFICES ASSUME NEW i \in 1..Len(a), NEW j \in 1..Len(b) + 1 PROVE a[i] < Append(b, n)[j]
    BY <1>2 DEF Ordered
  <1>3. CASE j <= Len(b)
    BY <1>1, <1>2, <1>3 DEF Ordered
  <1>4. CASE j > Len(b)
    BY <1>1, <1>2, <1>4 DEF Below
  <1> QED BY <1>2, <1>3, <1>4

LEMMA BelowMore ==
  ASSUME NEW a \in Seq(Items), NEW m \in Nat, NEW n \in Nat, m <= n, Below(a, m)
  PROVE  Below(a, n)
  <1>1. \A i \in 1..Len(a) : a[i] \in Items
    OBVIOUS
  <1>2. Items \subseteq Nat
    BY OutputAssumption DEF Items
  <1>3. \A i \in 1..Len(a) : a[i] \in Nat
    BY <1>1, <1>2
  <1> QED BY <1>3 DEF Below

LEMMA EmptyOrdered ==
  /\ Increasing(<<>>) /\ \A n : Below(<<>>, n)
  /\ \A a : Ordered(a, <<>>) /\ Ordered(<<>>, a)
  BY DEF Increasing, Below, Ordered

\* Top only grows.
LEMMA TopGrows ==
  ASSUME Shape, Shape', [Next]_vars
  PROVE  Top \in Nat /\ Top' \in Nat /\ Top <= Top'
  <1>1. begun \in Nat /\ begun' \in Nat /\ (emit # NotEmitting => emit.item = begun)
        /\ (emit' # NotEmitting => emit.item' = begun')
    BY DEF Shape, TypeOK, EmissionOK, NotEmitting
  <1>2. \/ begun' = begun /\ emit' = emit
        \/ emit # NotEmitting /\ begun' = begun /\ emit' = NotEmitting
        \/ emit = NotEmitting /\ begun' = begun + 1
    BY Zenon DEF Next, vars, reader, ReaderStep, TimerStep, CommandStep, FrontendStep, Spawn, Connect,
           Shutdown, Remove, EmitBegins, EmitLands, TimerFires, WindowEnds, AttachLands, DetachLands,
           ReadyLands, Subscribe, Attached, Unsubscribe
  <1>3. Top \in {begun, begun + 1} /\ (emit = NotEmitting => Top = begun + 1)
        /\ (emit # NotEmitting => Top = begun)
    BY <1>1 DEF Top
  <1>4. Top' \in {begun', begun' + 1} /\ (emit' = NotEmitting => Top' = begun' + 1)
        /\ (emit' # NotEmitting => Top' = begun')
    BY <1>1 DEF Top, NotEmitting
  <1>5. CASE begun' = begun /\ emit' = emit
    BY <1>1, <1>3, <1>4, <1>5
  <1>6. CASE emit # NotEmitting /\ begun' = begun /\ emit' = NotEmitting
    BY <1>1, <1>3, <1>4, <1>6
  <1>7. CASE emit = NotEmitting /\ begun' = begun + 1
    BY <1>1, <1>3, <1>4, <1>7
  <1> QED BY <1>2, <1>5, <1>6, <1>7

\* A step that leaves what is sent and held as it is.
LEMMA OrderKept ==
  ASSUME Shape, Shape', [Next]_vars, OrderOK, UNCHANGED <<stream, got>>
  PROVE  OrderOK'
  <1>1. Top \in Nat /\ Top' \in Nat /\ Top <= Top'
    BY TopGrows
  <1>2. \A c \in Channels : got[c] \in Seq(Items)
    BY DEF Shape, TypeOK
  <1>3. \A s \in Streams : All(stream[s]) \in Seq(Items)
    BY AllTyped DEF Shape, TypeOK
  <1>4. \A c \in Channels : Below(got[c], Top')
    BY <1>1, <1>2, BelowMore DEF OrderOK
  <1>5. \A s \in Streams : Below(All(stream[s]), Top')
    BY <1>1, <1>3, BelowMore DEF OrderOK
  <1> QED BY <1>4, <1>5 DEF OrderOK

\* A step that changes one stream, and of what was sent at most what its sink heard.
LEMMA OrderStream ==
  ASSUME Shape, Shape', [Next]_vars, OrderOK, NEW s \in Streams, NEW q \in StreamType,
         stream' = [stream EXCEPT ![s] = q],
         \A c \in Channels : c # q.sink => got'[c] = got[c],
         Increasing(All(q)), Below(All(q), Top'),
         q.sink # None => /\ Increasing(got'[q.sink]) /\ Below(got'[q.sink], Top')
                          /\ Ordered(got'[q.sink], All(q))
  PROVE  OrderOK'
  <1>1. Top \in Nat /\ Top' \in Nat /\ Top <= Top'
    BY TopGrows
  <1>2. \A c \in Channels : got[c] \in Seq(Items)
    BY DEF Shape, TypeOK
  <1>3. \A t \in Streams : All(stream[t]) \in Seq(Items)
    BY AllTyped DEF Shape, TypeOK
  <1>4. \A t \in Streams : stream'[t] = IF t = s THEN q ELSE stream[t]
    BY DEF Shape, TypeOK
  <1>5. ASSUME NEW c \in Channels PROVE Increasing(got'[c]) /\ Below(got'[c], Top')
    <2>1. CASE c = q.sink
      BY <2>1, OutputAssumption DEF Channels, None
    <2>2. CASE c # q.sink
      BY <1>1, <1>2, <2>2, BelowMore DEF OrderOK
    <2> QED BY <2>1, <2>2
  <1>6. ASSUME NEW t \in Streams
        PROVE  /\ Increasing(All(stream'[t])) /\ Below(All(stream'[t]), Top')
               /\ stream'[t].sink # None => Ordered(got'[stream'[t].sink], All(stream'[t]))
    <2>1. CASE t = s
      BY <1>4, <2>1
    <2>2. CASE t # s
      <3>1. stream'[t] = stream[t] /\ Increasing(All(stream[t])) /\ Below(All(stream[t]), Top')
        BY <1>1, <1>3, <1>4, <2>2, BelowMore DEF OrderOK
      <3>2. ASSUME stream[t].sink # None PROVE got'[stream[t].sink] = got[stream[t].sink]
        <4>1. stream'[t].sink # stream'[s].sink
          BY <2>2, <3>1, <3>2 DEF Shape, SinksDistinct
        <4>2. stream[t].sink \in Channels
          BY <3>2 DEF Shape, TypeOK, StreamType
        <4> QED BY <1>4, <3>1, <4>1, <4>2
      <3> QED BY <3>1, <3>2 DEF OrderOK
    <2> QED BY <2>1, <2>2
  <1> QED BY <1>5, <1>6 DEF OrderOK

\* A step that leaves what is sent, and what its stream holds, as it is.
LEMMA OrderHeld ==
  ASSUME Shape, Shape', [Next]_vars, OrderOK, NEW s \in Streams, NEW q \in StreamType,
         q.sink = stream[s].sink, All(q) = All(stream[s]), stream' = [stream EXCEPT ![s] = q],
         \A c \in Channels : got'[c] = got[c]
  PROVE  OrderOK'
  <1>1. Top \in Nat /\ Top' \in Nat /\ Top <= Top'
    BY TopGrows
  <1>2. All(q) \in Seq(Items)
    BY AllTyped
  <1>3. Increasing(All(q)) /\ Below(All(q), Top)
    BY DEF OrderOK
  <1>4. Below(All(q), Top')
    BY <1>1, <1>2, <1>3, BelowMore
  <1>5. ASSUME q.sink # None
        PROVE  /\ Increasing(got'[q.sink]) /\ Below(got'[q.sink], Top')
               /\ Ordered(got'[q.sink], All(q))
    <2>1. q.sink \in Channels
      BY <1>5 DEF StreamType
    <2>2. got[q.sink] \in Seq(Items)
      BY <2>1 DEF Shape, TypeOK
    <2>3. Increasing(got[q.sink]) /\ Below(got[q.sink], Top) /\ Ordered(got[q.sink], All(q))
      BY <1>5, <2>1 DEF OrderOK
    <2>4. Below(got[q.sink], Top')
      BY <1>1, <2>2, <2>3, BelowMore
    <2> QED BY <2>1, <2>3, <2>4
  <1> QED BY <1>3, <1>4, <1>5, OrderStream

\* An entry that is made holds nothing.
LEMMA EntryAll ==
  ASSUME Shape, NEW g \in BOOLEAN, EntryMade(g)
  PROVE  All(EntryStream(g)) = All(stream[entry'])
  <1>1. CASE entry # None
    BY <1>1, EntryGiven
  <1>2. CASE entry = None
    <2>1. entry' \in Streams /\ entry' = made + 1 /\ EntryStream(g) = NewStream(g)
      BY <1>2, EntryGiven
    <2>2. entry' > made
      BY <2>1 DEF Shape, TypeOK
    <2>3. stream[entry'] = NewStream(FALSE)
      BY <2>1, <2>2 DEF Shape, StreamsFresh
    <2> QED BY <2>1, <2>3 DEF NewStream, All
  <1> QED BY <1>1, <1>2

\* What a flush sends was held by the stream, and is in order behind its sink's output.
LEMMA OrderFlushed ==
  ASSUME Shape, Shape', [Next]_vars, OrderOK, NEW s \in Streams, NEW r \in StreamType, NEW q \in StreamType,
         r.sink = stream[s].sink, All(r) = All(stream[s]), q.sink = r.sink, All(q) = <<>>,
         stream' = [stream EXCEPT ![s] = q],
         \A c \in Channels : got'[c] = IF c = r.sink THEN got[c] \o All(r) ELSE got[c]
  PROVE  OrderOK'
  <1>1. Top \in Nat /\ Top' \in Nat /\ Top <= Top'
    BY TopGrows
  <1>2. \A c \in Channels : got[c] \in Seq(Items)
    BY DEF Shape, TypeOK
  <1>3. All(r) \in Seq(Items)
    BY AllTyped
  <1>4. ASSUME r.sink # None
        PROVE  Increasing(got'[r.sink]) /\ Below(got'[r.sink], Top')
    <2>1. r.sink \in Channels
      BY <1>4 DEF StreamType
    <2> DEFINE a == got[r.sink]
               b == All(r)
    <2>2. a \in Seq(Items) /\ b \in Seq(Items) /\ got'[r.sink] = a \o b
      BY <1>2, <1>3, <2>1
    <2>3. Increasing(a) /\ Below(a, Top) /\ Increasing(b) /\ Below(b, Top) /\ Ordered(a, b)
      BY <1>4, <2>1 DEF OrderOK
    <2> HIDE DEF a, b
    <2>4. Increasing(a \o b) /\ Below(a \o b, Top)
      BY <1>1, <2>2, <2>3, Joined, JoinedBelow
    <2>5. a \o b \in Seq(Items)
      BY <2>2, ConcatProperties
    <2>6. Below(a \o b, Top')
      BY <1>1, <2>4, <2>5, BelowMore
    <2> QED BY <2>2, <2>4, <2>6
  <1> QED BY <1>4, EmptyOrdered, OrderStream

\* An emission in order.
LEMMA OrderEmitted ==
  ASSUME Shape, Shape', [Next]_vars, OrderOK, EmitLands
  PROVE  OrderOK'
  <1> DEFINE s == emit.to
             n == emit.item
             a == stream[s].pending
             w == Append(a, n)
  <1>1. PICK q \in StreamType : Emitted(q)
    BY EmitOutcome
  <1>2. emit # NotEmitting /\ emit' = NotEmitting /\ begun' = begun
    BY DEF EmitLands
  <1>3. s \in Streams /\ n \in Items /\ n = begun /\ stream[s] \in StreamType /\ stream[s].close = 0
        /\ w \in Seq(Items)
    BY <1>2, EmitTyped
  <1>4. a \in Seq(Items) /\ All(stream[s]) = a
    BY <1>3 DEF StreamType, All
  <1>5. Top = n /\ Top' = n + 1
    BY <1>2, <1>3 DEF Top, NotEmitting
  <1>6. Increasing(a) /\ Below(a, n)
    BY <1>3, <1>4, <1>5 DEF OrderOK
  <1>7. q.sink = stream[s].sink /\ stream' = [stream EXCEPT ![s] = q]
    BY <1>1 DEF Emitted
  <1>8. \/ All(q) = w /\ got' = got
        \/ All(q) = <<>> /\ q.sink = None /\ got' = got
        \/ All(q) = <<>> /\ q.sink # None
           /\ \A c \in Channels : got'[c] = IF c = q.sink THEN got[c] \o w ELSE got[c]
    BY <1>1 DEF Emitted
  <1>9. ASSUME q.sink # None
        PROVE  /\ q.sink \in Channels /\ got[q.sink] \in Seq(Items) /\ Increasing(got[q.sink])
               /\ Below(got[q.sink], n) /\ Below(got[q.sink], n + 1) /\ Ordered(got[q.sink], w)
    <2>1. q.sink \in Channels
      BY <1>9 DEF StreamType
    <2>2. got[q.sink] \in Seq(Items)
      BY <2>1 DEF Shape, TypeOK
    <2>3. Increasing(got[q.sink]) /\ Below(got[q.sink], n) /\ Ordered(got[q.sink], a)
      BY <1>3, <1>4, <1>5, <1>7, <1>9, <2>1 DEF OrderOK
    <2>4. n \in Nat /\ n + 1 \in Nat /\ n <= n + 1
      BY <1>3, OutputAssumption DEF Items
    <2> HIDE DEF a, n
    <2>5. Below(got[q.sink], n + 1)
      BY <2>2, <2>3, <2>4, BelowMore
    <2>6. Ordered(got[q.sink], w)
      BY <1>3, <1>4, <2>2, <2>3, ExtendedOrdered
    <2> QED BY <2>1, <2>2, <2>3, <2>5, <2>6
  <1> HIDE DEF a, n, s
  <1>10. Increasing(w) /\ Below(w, n + 1)
    BY <1>3, <1>4, <1>6, Extended
  <1> HIDE DEF w
  <1>11. CASE All(q) = w /\ got' = got
    BY <1>3, <1>5, <1>7, <1>9, <1>10, <1>11, OrderStream
  <1>12. CASE All(q) = <<>> /\ q.sink = None /\ got' = got
    BY <1>3, <1>7, <1>12, EmptyOrdered, OrderStream
  <1>13. CASE /\ All(q) = <<>> /\ q.sink # None
              /\ \A c \in Channels : got'[c] = IF c = q.sink THEN got[c] \o w ELSE got[c]
    <2>1. got'[q.sink] = got[q.sink] \o w
      BY <1>9, <1>13
    <2>2. n + 1 \in Nat
      BY <1>3, OutputAssumption DEF Items
    <2>3. Increasing(got'[q.sink]) /\ Below(got'[q.sink], Top')
      BY <1>3, <1>5, <1>9, <1>10, <1>13, <2>1, <2>2, Joined, JoinedBelow
    <2> QED BY <1>3, <1>7, <1>13, <2>3, EmptyOrdered, OrderStream
  <1> QED BY <1>8, <1>11, <1>12, <1>13

\* The flush task, the end of its window, the gate, and a change of sink.
LEMMA OrderStep == Shape /\ OrderOK /\ [Next]_vars => OrderOK'
  <1> SUFFICES ASSUME Shape, OrderOK, [Next]_vars PROVE OrderOK'
    OBVIOUS
  <1>0. Shape'
    BY ShapeStep
  <1>1. CASE UNCHANGED vars \/ QuietStep
    <2>1. UNCHANGED <<stream, got>>
      BY <1>1 DEF vars, QuietStep, FrontendStep, Connect, Shutdown, Remove, EmitBegins, Subscribe,
                  Attached, Unsubscribe, backend
    <2> QED BY <1>0, <2>1, OrderKept
  <1>2. CASE EmitLands
    BY <1>0, <1>2, OrderEmitted
  <1>3. ASSUME NEW s \in Streams, TimerFires(s) PROVE OrderOK'
    <2> DEFINE r == [stream[s] EXCEPT !.timer = FALSE]
    <2>1. stream[s] \in StreamType
      BY StreamFacts
    <2>2. r \in StreamType /\ r.sink = stream[s].sink /\ r.close = stream[s].close /\ r.pending = stream[s].pending
      BY <2>1 DEF StreamType
    <2>3. Send(s, r)
      BY <1>3 DEF TimerFires
    <2> HIDE DEF r
    <2>4. All(r) = All(stream[s])
      BY <2>2 DEF All
    <2>5. Flushed(r) \in StreamType /\ Flushed(r).sink = r.sink /\ All(Flushed(r)) = <<>>
      BY <2>2, FlushedTyped DEF All
    <2>6. /\ stream' = [stream EXCEPT ![s] = Flushed(r)]
          /\ \A c \in Channels : got'[c] = IF c = r.sink THEN got[c] \o All(r) ELSE got[c]
      BY <2>2, <2>3, SendGot
    <2> QED BY <1>0, <2>2, <2>4, <2>5, <2>6, OrderFlushed
  <1>4. ASSUME NEW s \in Streams, WindowEnds(s) PROVE OrderOK'
    <2> DEFINE q == [stream[s] EXCEPT !.hot = FALSE]
    <2>1. stream[s] \in StreamType
      BY StreamFacts
    <2>2. q \in StreamType /\ q.sink = stream[s].sink /\ q.close = stream[s].close /\ q.pending = stream[s].pending
      BY <2>1 DEF StreamType
    <2>3. stream' = [stream EXCEPT ![s] = q] /\ got' = got
      BY <1>4 DEF WindowEnds, Put
    <2> HIDE DEF q
    <2>4. All(q) = All(stream[s])
      BY <2>2 DEF All
    <2> QED BY <1>0, <2>2, <2>3, <2>4, OrderHeld
  <1>5. CASE Spawn
    <2> DEFINE r == EntryStream(TRUE)
    <2>1. EntryMade(TRUE) /\ stream' = [stream EXCEPT ![entry'] = r] /\ got' = got
      BY <1>5 DEF Spawn, Put
    <2>2. entry' \in Streams /\ r \in StreamType /\ r.sink = stream[entry'].sink
      BY <2>1, EntryGiven, EntryHolds
    <2>3. All(r) = All(stream[entry'])
      BY <2>1, EntryAll
    <2> HIDE DEF r
    <2> QED BY <1>0, <2>1, <2>2, <2>3, OrderHeld
  <1>6. CASE ReadyLands
    <2> DEFINE e == EntryStream(TRUE)
    <2>1. EntryMade(TRUE) /\ Open(entry', e)
      BY <1>6 DEF ReadyLands
    <2>2. entry' \in Streams /\ e \in StreamType /\ NotStranded(e) /\ e.sink = stream[entry'].sink
      BY <2>1, EntryGiven, EntryHolds
    <2>3. All(e) = All(stream[entry'])
      BY <2>1, EntryAll
    <2> HIDE DEF e
    <2>4. PICK q \in StreamType :
            /\ NotStranded(q) /\ q.sink = e.sink /\ ~q.gated /\ q.close = 0
            /\ q.pending = IF e.gated THEN <<>> ELSE e.pending
            /\ stream' = [stream EXCEPT ![entry'] = q]
            /\ got' \in [Channels -> Seq(Items)]
            /\ \A c \in Channels : got'[c] = IF e.gated /\ c = e.sink THEN got[c] \o All(e) ELSE got[c]
      BY <2>1, <2>2, OpenedTyped
    <2>5. CASE e.gated
      <3>1. All(q) = <<>>
        BY <2>4, <2>5 DEF All
      <3>2. \A c \in Channels : got'[c] = IF c = e.sink THEN got[c] \o All(e) ELSE got[c]
        BY <2>4, <2>5
      <3> QED BY <1>0, <2>2, <2>3, <2>4, <3>1, <3>2, OrderFlushed
    <2>6. CASE ~e.gated
      <3>1. All(q) = All(e)
        BY <2>2, <2>4, <2>6 DEF All, NotStranded
      <3>2. \A c \in Channels : got'[c] = got[c]
        BY <2>4, <2>6
      <3> QED BY <1>0, <2>2, <2>3, <2>4, <3>1, <3>2, OrderHeld
    <2> QED BY <2>5, <2>6
  <1>7. CASE AttachLands
    <2> DEFINE e == EntryStream(local)
               r == [e EXCEPT !.sink = chan, !.hot = FALSE]
    <2>1. attach /\ EntryMade(local) /\ stream' = [stream EXCEPT ![entry'] = r] /\ got' = got /\ local \in BOOLEAN
      BY <1>7 DEF AttachLands, Put, Shape, TypeOK
    <2>2. entry' \in Streams /\ e \in StreamType
      BY <2>1, EntryGiven
    <2>3. All(e) = All(stream[entry'])
      BY <2>1, EntryAll
    <2>4. chan \in Channels /\ got[chan] = <<>>
      BY <2>1, OutputAssumption DEF Shape, TypeOK, ChannelsFresh, Channels, None
    <2>5. r \in StreamType /\ r.sink = chan /\ r.close = e.close /\ r.pending = e.pending
      BY <2>2, <2>4 DEF StreamType
    <2> HIDE DEF r, e
    <2>6. All(r) = All(stream[entry'])
      BY <2>3, <2>5 DEF All
    <2>7. Increasing(All(r)) /\ Below(All(r), Top')
      <3>1. All(stream[entry']) \in Seq(Items)
        BY <2>2, AllTyped DEF Shape, TypeOK
      <3>2. Increasing(All(r)) /\ Below(All(r), Top)
        BY <2>2, <2>6 DEF OrderOK
      <3> QED BY <1>0, <2>6, <3>1, <3>2, TopGrows, BelowMore
    <2> QED BY <1>0, <2>1, <2>2, <2>4, <2>5, <2>7, EmptyOrdered, OrderStream
  <1>8. ASSUME NEW c \in Channels, DetachLands(c) PROVE OrderOK'
    <2>1. CASE SinkIs(c)
      <3> DEFINE q == [stream[entry] EXCEPT !.sink = None, !.pending = <<>>]
      <3>1. entry # None /\ stream' = [stream EXCEPT ![entry] = q] /\ got' = got
        BY <1>8, <2>1 DEF DetachLands, Put, SinkIs
      <3>2. entry \in Streams
        BY <3>1, OutputAssumption DEF Shape, TypeOK, Streams, None
      <3>3. stream[entry] \in StreamType /\ <<>> \in Seq(Items)
        BY <3>2, StreamFacts
      <3>4. q \in StreamType /\ q.sink = None /\ q.pending = <<>> /\ q.close = stream[entry].close
        BY <3>3 DEF StreamType
      <3> HIDE DEF q
      <3>5. Increasing(All(q)) /\ Below(All(q), Top')
        <4>1. CASE q.close = 0
          BY <3>4, <4>1, EmptyOrdered DEF All
        <4>2. CASE q.close # 0
          <5>1. q.close \in Items /\ All(q) = Append(<<>>, q.close)
                /\ All(stream[entry]) = Append(stream[entry].pending, q.close)
            BY <3>4, <4>2 DEF StreamType, All
          <5>2. q.close < Top
            <6>1. stream[entry].pending \in Seq(Items)
              BY <3>3 DEF StreamType
            <6> DEFINE k == Len(stream[entry].pending) + 1
            <6>2. k \in 1..Len(All(stream[entry])) /\ All(stream[entry])[k] = q.close
              <7>1. /\ Len(Append(stream[entry].pending, q.close)) = k /\ k \in Nat /\ k >= 1
                    /\ Append(stream[entry].pending, q.close)[k] = q.close
                BY <5>1, <6>1, AppendProperties, LenProperties
              <7> HIDE DEF k
              <7> QED BY <5>1, <7>1
            <6>3. Below(All(stream[entry]), Top)
              BY <3>2 DEF OrderOK
            <6> HIDE DEF k
            <6> QED BY <6>2, <6>3 DEF Below
          <5>3. Top \in Nat /\ Top' \in Nat /\ Top <= Top' /\ q.close \in Nat
            BY <1>0, <5>1, TopGrows, OutputAssumption DEF Items
          <5>4. Increasing(Append(<<>>, q.close)) /\ Below(Append(<<>>, q.close), q.close + 1)
            BY <3>3, <5>1, EmptyOrdered, Extended
          <5>5. Append(<<>>, q.close) \in Seq(Items)
            BY <3>3, <5>1, AppendProperties
          <5>6. q.close + 1 \in Nat /\ q.close + 1 <= Top'
            BY <5>2, <5>3
          <5>7. Below(Append(<<>>, q.close), Top')
            BY <5>3, <5>4, <5>5, <5>6, BelowMore
          <5> QED BY <5>1, <5>4, <5>7
        <4> QED BY <4>1, <4>2
      <3> QED BY <1>0, <3>1, <3>2, <3>4, <3>5, OrderStream
    <2>2. CASE ~SinkIs(c)
      <3>1. UNCHANGED <<stream, got>>
        BY <1>8, <2>2 DEF DetachLands
      <3> QED BY <1>0, <3>1, OrderKept
    <2> QED BY <2>1, <2>2
  <1> QED BY <1>1, <1>2, <1>3, <1>4, <1>5, <1>6, <1>7, <1>8
      DEF Next, ReaderStep, TimerStep, CommandStep, QuietStep

\* A channel hears chunks and closes in the order in which they were emitted.
THEOREM ClosesInOrder == Spec => []InOrder
  <1>1. Init => OrderOK
    <2> SUFFICES ASSUME Init PROVE OrderOK
      OBVIOUS
    <2>1. \A c \in Channels : got[c] = <<>>
      BY DEF Init
    <2>2. \A s \in Streams : All(stream[s]) = <<>> /\ stream[s].sink = None
      BY DEF Init, NewStream, All
    <2> QED BY <2>1, <2>2, EmptyOrdered DEF OrderOK
  <1>2. OrderOK => InOrder
    BY DEF OrderOK, InOrder
  <1> QED BY InitShape, ShapeStep, OrderStep, <1>1, <1>2, PTL DEF Spec

(***************************************************************************)
(* The streams keep OutputPromise                                          *)
(***************************************************************************)

\* What the promise sees of the streams: who is subscribed, and what is owed to whom.
Ears   == Channels \union {None}
Subbed == IF entry = None THEN None ELSE stream[entry].sink
Owed   == [c \in Ears |-> Waiting(c)]

\* As no two streams share a sink, what waits for a channel is what its stream holds.
OwedOK ==
  /\ Owed = [c \in Ears |-> Owed[c]]
  /\ \A s \in Streams : stream[s].sink # None => Owed[stream[s].sink] = All(stream[s])
  /\ \A c \in Channels : (\A s \in Streams : stream[s].sink # c) => Owed[c] = <<>>
  /\ entry # None /\ stream[entry].sink = None => Owed[None] = All(stream[entry])
  /\ entry = None \/ stream[entry].sink # None => Owed[None] = <<>>

LEMMA OwedFacts == Shape => OwedOK
  <1> SUFFICES ASSUME Shape PROVE OwedOK
    OBVIOUS
  <1> DEFINE owns(c, s) == stream[s].sink = c /\ (c # None \/ s = entry)
  <1>1. \A c \in Ears : Owed[c] = IF \E s \in Streams : owns(c, s)
                                  THEN All(stream[CHOOSE s \in Streams : owns(c, s)]) ELSE <<>>
    BY DEF Owed, Waiting
  <1>2. entry \in Streams \union {None} /\ \A s \in Streams : stream[s].sink \in Ears /\ s # None
    <2>1. stream \in [Streams -> StreamType] /\ entry \in 0..made /\ made \in 0..MaxStreams
      BY DEF Shape, TypeOK
    <2>2. \A s \in Streams : stream[s].sink \in Ears
      BY <2>1 DEF StreamType, Ears
    <2>3. entry \in Streams \union {None} /\ None \notin Streams
      BY <2>1, OutputAssumption DEF Streams, None
    <2> QED BY <2>2, <2>3
  <1>3. ASSUME NEW c \in Ears, NEW s \in Streams, owns(c, s) PROVE Owed[c] = All(stream[s])
    <2>1. \A t \in Streams : owns(c, t) => t = s
      BY <1>3 DEF Shape, SinksDistinct
    <2>2. (CHOOSE t \in Streams : owns(c, t)) = s
      BY <1>3, <2>1
    <2> QED BY <1>1, <1>3, <2>2
  <1>4. ASSUME NEW c \in Ears, \A s \in Streams : ~owns(c, s) PROVE Owed[c] = <<>>
    BY <1>1, <1>4
  <1>5. Owed = [c \in Ears |-> Owed[c]]
    BY DEF Owed
  <1>6. None \in Ears /\ \A c \in Channels : c \in Ears /\ c # None
    BY DEF Ears, Channels, None
  <1>7. \A s \in Streams : stream[s].sink # None => Owed[stream[s].sink] = All(stream[s])
    BY <1>2, <1>3
  <1>8. \A c \in Channels : (\A s \in Streams : stream[s].sink # c) => Owed[c] = <<>>
    BY <1>4, <1>6
  <1>9. entry # None /\ stream[entry].sink = None => Owed[None] = All(stream[entry])
    BY <1>2, <1>3, <1>6
  <1>10. entry = None \/ stream[entry].sink # None => Owed[None] = <<>>
    BY <1>2, <1>4, <1>6
  <1> QED BY <1>5, <1>7, <1>8, <1>9, <1>10 DEF OwedOK

\* What is owed, changed in one place.
LEMMA OwedChanged ==
  ASSUME OwedOK, OwedOK', NEW d \in Ears, NEW v,
         \A c \in Ears : Owed'[c] = IF c = d THEN v ELSE Owed[c]
  PROVE  Owed' = [Owed EXCEPT ![d] = v]
  <1>1. Owed = [c \in Ears |-> Owed[c]] /\ Owed' = [c \in Ears |-> Owed'[c]]
    BY DEF OwedOK, Ears
  <1> QED BY <1>1

LEMMA OwedKept ==
  ASSUME OwedOK, OwedOK', \A c \in Ears : Owed'[c] = Owed[c]
  PROVE  Owed' = Owed
  <1>1. Owed = [c \in Ears |-> Owed[c]] /\ Owed' = [c \in Ears |-> Owed'[c]]
    BY DEF OwedOK, Ears
  <1> QED BY <1>1

\* The steps of the promise, in these terms.
Stutters == UNCHANGED <<begun, emit.item, Headed, Subbed, Owed, got>>
LEMMA PromiseKept ==
  /\ Stutters => UNCHANGED Promise!vars
  /\ /\ emit.item = 0 /\ begun' = begun + 1 /\ emit'.item = begun + 1 /\ Headed' = Subbed
     /\ UNCHANGED <<Subbed, Owed, got>>
     => Promise!Begin
  /\ /\ emit.item = 0 /\ Subbed = None /\ begun' = begun + 1
     /\ UNCHANGED <<emit.item, Headed, Subbed, Owed, got>>
     => Promise!Unheard
  /\ /\ emit.item # 0 /\ Headed # Gone /\ Owed' = [Owed EXCEPT ![Headed] = Append(Owed[Headed], emit.item)]
     /\ emit'.item = 0 /\ Headed' = None /\ UNCHANGED <<begun, Subbed, got>>
     => Promise!Keep
  /\ /\ emit.item # 0 /\ Headed \in Channels
     /\ got' = [got EXCEPT ![Headed] = got[Headed] \o Append(Owed[Headed], emit.item)]
     /\ Owed' = [Owed EXCEPT ![Headed] = <<>>]
     /\ emit'.item = 0 /\ Headed' = None /\ UNCHANGED <<begun, Subbed>>
     => Promise!Pass
  /\ /\ emit.item # 0 /\ Headed \notin Channels /\ Owed' \in {Owed, [Owed EXCEPT ![None] = <<>>]}
     /\ emit'.item = 0 /\ Headed' = None /\ UNCHANGED <<begun, Subbed, got>>
     => Promise!Drop
  /\ Owed' = [Owed EXCEPT ![None] = <<>>] /\ UNCHANGED <<begun, emit.item, Headed, Subbed, got>>
     => Promise!Discard
  /\ /\ Subbed' = None /\ Headed' = (IF emit.item # 0 /\ Headed = Subbed THEN Gone ELSE Headed)
     /\ Owed' = [Owed EXCEPT ![Subbed] = <<>>]
     /\ UNCHANGED <<begun, emit.item, got>>
     => Promise!Leave
  /\ Subbed \in Channels /\ Subbed' = None /\ UNCHANGED <<begun, emit.item, Headed, Owed, got>>
     => Promise!CutOff
  BY DEF Stutters, Owed, Ears, Subbed, Promise!vars, Promise!Begin, Promise!Unheard, Promise!Keep,
         Promise!Pass, Promise!Drop, Promise!EmitEnds, Promise!Discard, Promise!Leave, Promise!CutOff

LEMMA PromiseDelivers ==
  ASSUME NEW c \in Channels, Owed[c] # <<>>,
         got' = [got EXCEPT ![c] = got[c] \o Owed[c]], Owed' = [Owed EXCEPT ![c] = <<>>],
         UNCHANGED <<begun, emit.item, Headed, Subbed>>
  PROVE  Promise!Deliver(c)
  BY DEF Owed, Ears, Subbed, Promise!Deliver

LEMMA PromiseFollows ==
  ASSUME NEW c \in Channels, got[c] = <<>>, Owed[c] = <<>>, Subbed # c, Subbed' = c,
         Headed' = (IF emit.item # 0 /\ Headed = Subbed THEN c ELSE Headed),
         Owed' = [Owed EXCEPT ![c] = Owed[Subbed], ![Subbed] = <<>>],
         UNCHANGED <<begun, emit.item, got>>
  PROVE  Promise!Follow(c)
  BY DEF Owed, Ears, Subbed, Promise!Follow

\* A stream that keeps its sink, and its place, changes what is owed to that sink only.
LEMMA OwedInPlace ==
  ASSUME Shape, Shape', NEW s \in Streams, NEW q \in StreamType, q.sink = stream[s].sink,
         stream' = [stream EXCEPT ![s] = q], entry' = entry
  PROVE  /\ OwedOK /\ OwedOK' /\ Subbed' = Subbed
         /\ emit' = emit => Headed' = Headed
         /\ q.sink # None \/ s = entry => Owed[q.sink] = All(stream[s])
         /\ \A c \in Ears : Owed'[c] = IF c = q.sink /\ (c # None \/ s = entry) THEN All(q) ELSE Owed[c]
  <1>1. OwedOK /\ OwedOK'
    BY OwedFacts, PTL
  <1>2. /\ \A t \in Streams : stream'[t] = IF t = s THEN q ELSE stream[t]
        /\ \A t \in Streams : stream[t].sink \in Ears
        /\ entry \in Streams \union {None} /\ None \notin Streams
    <2>1. stream \in [Streams -> StreamType] /\ entry \in 0..made /\ made \in 0..MaxStreams
      BY DEF Shape, TypeOK
    <2>2. \A t \in Streams : stream'[t] = IF t = s THEN q ELSE stream[t]
      BY <2>1
    <2>3. \A t \in Streams : stream[t].sink \in Ears
      BY <2>1 DEF StreamType, Ears
    <2>4. entry \in Streams \union {None} /\ None \notin Streams
      BY <2>1, OutputAssumption DEF Streams, None
    <2> QED BY <2>2, <2>3, <2>4
  <1>3. \A t \in Streams : stream'[t].sink = stream[t].sink
    BY <1>2
  <1>4. Subbed' = Subbed
    BY <1>2, <1>3 DEF Subbed
  <1>5. ASSUME emit' = emit PROVE Headed' = Headed
    <2>1. CASE emit = NotEmitting
      BY <1>5, <2>1 DEF Headed
    <2>2. CASE emit # NotEmitting
      <3>1. emit.to \in Streams /\ stream'[emit.to].sink = stream[emit.to].sink
        BY <1>3, <2>2, EmitTyped
      <3> QED BY <1>5, <2>2, <3>1 DEF Headed
    <2> QED BY <2>1, <2>2
  <1>6. q.sink # None \/ s = entry => Owed[q.sink] = All(stream[s])
    BY <1>1, <1>2 DEF OwedOK
  <1>7. ASSUME NEW c \in Ears
        PROVE  Owed'[c] = IF c = q.sink /\ (c # None \/ s = entry) THEN All(q) ELSE Owed[c]
    <2>1. CASE c # None
      <3>1. c \in Channels
        BY <2>1 DEF Ears
      <3>2. CASE \E t \in Streams : stream[t].sink = c
        <4>1. PICK t \in Streams : stream[t].sink = c
          BY <3>2
        <4>2. Owed[c] = All(stream[t]) /\ Owed'[c] = All(stream'[t])
          BY <1>1, <1>3, <2>1, <4>1 DEF OwedOK
        <4>3. t = s \/ q.sink # c
          BY <2>1, <4>1 DEF Shape, SinksDistinct
        <4> QED BY <1>2, <2>1, <4>1, <4>2, <4>3
      <3>3. CASE \A t \in Streams : stream[t].sink # c
        BY <1>1, <1>3, <3>1, <3>3 DEF OwedOK
      <3> QED BY <3>2, <3>3
    <2>2. CASE c = None
      BY <1>1, <1>2, <1>3, <2>2 DEF OwedOK
    <2> QED BY <2>1, <2>2
  <1> QED BY <1>1, <1>4, <1>5, <1>6, <1>7

\* A new stream, with nobody attached and nothing held, is not noticed.
LEMMA OwedNewEntry ==
  ASSUME Shape, Shape', NEW g \in BOOLEAN, EntryMade(g), entry = None, NEW q \in StreamType,
         q.sink = None, All(q) = <<>>, stream' = [stream EXCEPT ![entry'] = q], emit' = emit
  PROVE  Subbed' = Subbed /\ Owed' = Owed /\ Headed' = Headed
  <1>1. OwedOK /\ OwedOK'
    BY OwedFacts, PTL
  <1>2. entry' = made + 1 /\ entry' \in Streams /\ made \in Nat /\ entry' # None
    BY EntryGiven DEF Shape, TypeOK, Streams, None
  <1>3. stream[entry'].sink = None
    BY <1>2 DEF Shape, StreamsFresh, NewStream
  <1>4. \A t \in Streams : stream'[t].sink = stream[t].sink /\ (t # entry' => stream'[t] = stream[t])
    BY <1>2, <1>3 DEF Shape, TypeOK
  <1>5. stream'[entry'] = q
    BY <1>2 DEF Shape, TypeOK
  <1>6. Subbed' = Subbed
    BY <1>2, <1>5 DEF Subbed
  <1>7. ASSUME NEW c \in Ears PROVE Owed'[c] = Owed[c]
    <2>1. CASE c = None
      BY <1>1, <1>2, <1>5, <2>1 DEF OwedOK
    <2>2. CASE c # None
      <3>1. c \in Channels
        BY <2>2 DEF Ears
      <3>2. CASE \E t \in Streams : stream[t].sink = c
        <4>1. PICK t \in Streams : stream[t].sink = c
          BY <3>2
        <4>2. t # entry'
          BY <1>3, <2>2, <4>1
        <4> QED BY <1>1, <1>4, <2>2, <4>1, <4>2 DEF OwedOK
      <3>3. CASE \A t \in Streams : stream[t].sink # c
        BY <1>1, <1>4, <3>1, <3>3 DEF OwedOK
      <3> QED BY <3>2, <3>3
    <2> QED BY <2>1, <2>2
  <1>8. Headed' = Headed
    <2>1. CASE emit = NotEmitting
      BY <2>1 DEF Headed
    <2>2. CASE emit # NotEmitting
      <3>1. emit.to \in Streams /\ emit.to # entry' /\ emit.to # entry
        BY <1>2, <2>2, EmitTyped DEF Streams, None
      <3> QED BY <1>4, <2>2, <3>1 DEF Headed
    <2> QED BY <2>1, <2>2
  <1> QED BY <1>1, <1>6, <1>7, <1>8, OwedKept

\* A flush delivers what is owed to its sink; without one it drops what the entry holds.
LEMMA PromiseFlushed ==
  ASSUME Shape, Shape', NEW s \in Streams, NEW r \in StreamType, NEW q \in StreamType,
         r.sink = stream[s].sink, All(r) = All(stream[s]), q.sink = r.sink, All(q) = <<>>,
         stream' = [stream EXCEPT ![s] = q], got' \in [Channels -> Seq(Items)],
         \A c \in Channels : got'[c] = IF c = r.sink THEN got[c] \o All(r) ELSE got[c],
         UNCHANGED <<entry, begun, emit>>
  PROVE  [Promise!Next]_(Promise!vars)
  <1> USE DEF Promise!Next
  <1>1. /\ OwedOK /\ OwedOK' /\ Subbed' = Subbed /\ Headed' = Headed
        /\ q.sink # None \/ s = entry => Owed[q.sink] = All(stream[s])
        /\ \A c \in Ears : Owed'[c] = IF c = q.sink /\ (c # None \/ s = entry) THEN All(q) ELSE Owed[c]
    <2>1. q.sink = stream[s].sink /\ entry' = entry /\ emit' = emit
      OBVIOUS
    <2> QED BY <2>1, OwedInPlace
  <1>2. /\ got \in [Channels -> Seq(Items)] /\ q.sink \in Ears
        /\ None \in Ears /\ None \notin Channels
    BY DEF Shape, TypeOK, StreamType, Ears, Channels, None
  <1>3. CASE q.sink = None
    <2>1. got' = got
      BY <1>2, <1>3
    <2>2. CASE s = entry
      <3>1. \A c \in Ears : Owed'[c] = IF c = None THEN <<>> ELSE Owed[c]
        BY <1>1, <1>3, <2>2
      <3>2. OwedOK /\ OwedOK' /\ None \in Ears
        BY <1>1, <1>2
      <3>3. Owed' = [Owed EXCEPT ![None] = <<>>]
        BY <3>1, <3>2, OwedChanged
      <3> QED BY <1>1, <2>1, <3>3, PromiseKept
    <2>3. CASE s # entry
      <3>1. \A c \in Ears : Owed'[c] = Owed[c]
        BY <1>1, <1>3, <2>3
      <3>2. Owed' = Owed
        BY <1>1, <3>1, OwedKept
      <3> QED BY <1>1, <2>1, <3>2, PromiseKept DEF Stutters
    <2> QED BY <2>2, <2>3
  <1>4. CASE q.sink # None
    <2> DEFINE c == q.sink
    <2>1. c \in Channels /\ c \in Ears /\ Owed[c] = All(r)
      BY <1>1, <1>2, <1>4 DEF Ears
    <2>2. \A d \in Ears : Owed'[d] = IF d = c THEN <<>> ELSE Owed[d]
      BY <1>1, <1>4
    <2>3. Owed' = [Owed EXCEPT ![c] = <<>>]
      BY <1>1, <2>1, <2>2, OwedChanged
    <2>4. got' = [got EXCEPT ![c] = got[c] \o Owed[c]]
      BY <1>2, <2>1
    <2>5. CASE Owed[c] # <<>>
      BY <1>1, <2>1, <2>3, <2>4, <2>5, PromiseDelivers
    <2>6. CASE Owed[c] = <<>>
      <3>1. \A d \in Ears : Owed'[d] = Owed[d]
        BY <2>2, <2>6
      <3>2. Owed' = Owed
        BY <1>1, <3>1, OwedKept
      <3>3. got[c] \o <<>> = got[c]
        BY <1>2, <2>1
      <3>4. got' = got
        BY <1>2, <2>1, <2>4, <2>6, <3>3
      <3> QED BY <1>1, <3>2, <3>4, PromiseKept DEF Stutters
    <2> QED BY <2>5, <2>6
  <1> QED BY <1>3, <1>4

\* A step that leaves what its stream holds as it is.
LEMMA PromiseHeld ==
  ASSUME Shape, Shape', NEW s \in Streams, NEW q \in StreamType, q.sink = stream[s].sink,
         All(q) = All(stream[s]), stream' = [stream EXCEPT ![s] = q],
         UNCHANGED <<got, entry, begun, emit>>
  PROVE  [Promise!Next]_(Promise!vars)
  <1>1. /\ OwedOK /\ OwedOK' /\ Subbed' = Subbed /\ Headed' = Headed
        /\ q.sink # None \/ s = entry => Owed[q.sink] = All(stream[s])
        /\ \A c \in Ears : Owed'[c] = IF c = q.sink /\ (c # None \/ s = entry) THEN All(q) ELSE Owed[c]
    <2>1. entry' = entry /\ emit' = emit
      OBVIOUS
    <2> QED BY <2>1, OwedInPlace
  <1>2. \A c \in Ears : Owed'[c] = Owed[c]
    BY <1>1
  <1>3. Owed' = Owed
    BY <1>1, <1>2, OwedKept
  <1> QED BY <1>1, <1>3, PromiseKept DEF Stutters

\* An emission that lands is kept, passed on, or dropped for want of a subscriber.
LEMMA PromiseEmits == ASSUME Shape, Shape', EmitLands PROVE [Promise!Next]_(Promise!vars)
  <1> USE DEF Promise!Next
  <1> DEFINE s == emit.to
             n == emit.item
             w == Append(stream[s].pending, n)
  <1>1. PICK q \in StreamType : Emitted(q)
    BY EmitOutcome
  <1>2. emit # NotEmitting /\ emit' = NotEmitting /\ UNCHANGED <<begun, entry>>
    BY DEF EmitLands
  <1>3. s \in Streams /\ n \in Items /\ stream[s] \in StreamType /\ stream[s].close = 0 /\ w \in Seq(Items)
    BY <1>2, EmitTyped
  <1>4. w = Append(All(stream[s]), n)
    BY <1>3 DEF All
  <1>5. q.sink = stream[s].sink /\ stream' = [stream EXCEPT ![s] = q]
    BY <1>1 DEF Emitted
  <1>6. \/ All(q) = w /\ got' = got
        \/ All(q) = <<>> /\ q.sink = None /\ got' = got
        \/ All(q) = <<>> /\ q.sink # None /\ got' \in [Channels -> Seq(Items)]
           /\ \A c \in Channels : got'[c] = IF c = q.sink THEN got[c] \o w ELSE got[c]
    BY <1>1 DEF Emitted
  <1>7. n # 0 /\ emit'.item = 0 /\ Headed' = None
    BY <1>2, <1>3, OutputAssumption DEF Items, NotEmitting, Headed
  <1>8. Headed = IF q.sink # None THEN q.sink ELSE IF s = entry THEN None ELSE Gone
    BY <1>2, <1>5 DEF Headed
  <1> HIDE DEF s, n, w
  <1>9. /\ OwedOK /\ OwedOK' /\ Subbed' = Subbed
        /\ q.sink # None \/ s = entry => Owed[q.sink] = All(stream[s])
        /\ \A c \in Ears : Owed'[c] = IF c = q.sink /\ (c # None \/ s = entry) THEN All(q) ELSE Owed[c]
    BY <1>2, <1>3, <1>5, OwedInPlace
  <1>10. /\ got \in [Channels -> Seq(Items)] /\ q.sink \in Ears /\ None \in Ears /\ None \notin Channels
         /\ Gone \notin Channels /\ Gone # None /\ \A c \in Channels : c \in Ears /\ c # Gone
    BY OutputAssumption DEF Shape, TypeOK, StreamType, Ears, Channels, None, Gone
  <1>11. CASE q.sink = None /\ s # entry
    <2>1. \A c \in Ears : Owed'[c] = Owed[c]
      BY <1>9, <1>11
    <2>2. Owed' = Owed /\ got' = got /\ Headed = Gone
      BY <1>6, <1>8, <1>9, <1>11, <2>1, OwedKept
    <2> QED BY <1>2, <1>7, <1>9, <1>10, <2>2, PromiseKept DEF n
  <1>12. CASE q.sink # None \/ s = entry
    <2>1. Headed = q.sink /\ Owed[q.sink] = All(stream[s]) /\ w = Append(Owed[Headed], n)
      BY <1>4, <1>8, <1>9, <1>12
    <2>2. \A c \in Ears : Owed'[c] = IF c = q.sink THEN All(q) ELSE Owed[c]
      BY <1>9, <1>12
    <2>3. Owed' = [Owed EXCEPT ![q.sink] = All(q)]
      BY <1>9, <1>10, <2>2, OwedChanged
    <2>4. CASE All(q) = w /\ got' = got
      <3>1. Headed # Gone
        BY <1>10, <2>1 DEF Ears
      <3> QED BY <1>2, <1>7, <1>9, <2>1, <2>3, <2>4, <3>1, PromiseKept DEF n
    <2>5. CASE All(q) = <<>> /\ q.sink = None /\ got' = got
      BY <1>2, <1>7, <1>9, <1>10, <2>1, <2>3, <2>5, PromiseKept DEF n
    <2>6. CASE /\ All(q) = <<>> /\ q.sink # None /\ got' \in [Channels -> Seq(Items)]
               /\ \A c \in Channels : got'[c] = IF c = q.sink THEN got[c] \o w ELSE got[c]
      <3>1. q.sink \in Channels
        BY <1>10, <2>6 DEF Ears
      <3>2. got' = [got EXCEPT ![q.sink] = got[q.sink] \o w]
        BY <1>10, <2>6, <3>1
      <3> QED BY <1>2, <1>7, <1>9, <2>1, <2>3, <2>6, <3>1, <3>2, PromiseKept DEF n
    <2> QED BY <1>6, <2>4, <2>5, <2>6
  <1> QED BY <1>11, <1>12

\* What the reader and the frontend do on their own, and the removal of the entry.
LEMMA PromiseQuiet == ASSUME Shape, Shape', QuietStep PROVE [Promise!Next]_(Promise!vars)
  <1> USE DEF Promise!Next, backend, reader, frontend, commands
  <1>1. OwedOK /\ OwedOK'
    BY OwedFacts, PTL
  <1>2. ASSUME UNCHANGED <<entry, stream, begun, emit, got>> PROVE [Promise!Next]_(Promise!vars)
    <2>1. \A c \in Ears : Owed'[c] = Owed[c]
      BY <1>2 DEF Owed, Waiting
    <2>2. Owed' = Owed
      BY <1>1, <2>1, OwedKept
    <2> QED BY <1>2, <2>2, PromiseKept DEF Stutters, Headed, Subbed
  <1>3. CASE Connect \/ Shutdown \/ FrontendStep
    BY <1>2, <1>3 DEF Connect, Shutdown, FrontendStep, Subscribe, Attached, Unsubscribe
  <1>4. ASSUME NEW close \in BOOLEAN, EmitBegins(close) PROVE [Promise!Next]_(Promise!vars)
    <2>1. /\ emit = NotEmitting /\ begun' = begun + 1 /\ UNCHANGED <<entry, stream, got>>
          /\ emit' = (IF entry = None THEN NotEmitting
                      ELSE [item |-> begun + 1, to |-> entry, close |-> close])
      BY <1>4 DEF EmitBegins
    <2>2. \A c \in Ears : Owed'[c] = Owed[c]
      BY <2>1 DEF Owed, Waiting
    <2>3. Owed' = Owed /\ Subbed' = Subbed /\ emit.item = 0
      BY <1>1, <2>1, <2>2, OwedKept DEF Subbed, NotEmitting
    <2>4. CASE entry = None
      BY <2>1, <2>3, <2>4, PromiseKept DEF Headed, Subbed
    <2>5. CASE entry # None
      <3>1. emit'.item = begun + 1 /\ emit'.to = entry /\ emit' # NotEmitting
        BY <2>1, <2>5 DEF NotEmitting
      <3>2. Headed' = Subbed
        BY <2>1, <2>5, <3>1 DEF Headed, Subbed
      <3> QED BY <2>1, <2>3, <3>1, <3>2, PromiseKept
    <2> QED BY <2>4, <2>5
  <1>5. CASE Remove
    <2>1. entry' = None /\ UNCHANGED <<stream, begun, emit, got>>
      BY <1>5 DEF Remove
    <2>2. CASE entry = None
      BY <1>2, <2>1, <2>2
    <2>3. CASE entry # None
      <3>1. entry \in Streams /\ stream[entry].sink \in Ears /\ None \in Ears
        BY <2>3, OutputAssumption DEF Shape, TypeOK, Streams, None, StreamType, Ears
      <3>2. \A c \in Ears : c # None => Owed'[c] = Owed[c]
        BY <2>1 DEF Owed, Waiting
      <3>3. Owed'[None] = <<>> /\ Subbed' = None /\ Subbed = stream[entry].sink
        BY <1>1, <2>1, <2>3 DEF OwedOK, Subbed
      <3>4. CASE stream[entry].sink = None
        <4>1. Owed' = [Owed EXCEPT ![None] = <<>>]
          BY <1>1, <3>1, <3>2, <3>3, OwedChanged
        <4>2. Headed' = (IF emit.item # 0 /\ Headed = Subbed THEN Gone ELSE Headed)
          <5>1. CASE emit = NotEmitting
            BY <2>1, <5>1 DEF Headed, NotEmitting
          <5>2. CASE emit # NotEmitting
            <6>1. emit.to \in Streams /\ emit.to # None /\ Gone # None /\ emit.item # 0
              BY <5>2, EmitTyped, OutputAssumption DEF Streams, None, Gone, Items
            <6>2. CASE emit.to = entry
              BY <2>1, <3>3, <3>4, <5>2, <6>1, <6>2 DEF Headed
            <6>3. CASE emit.to # entry
              BY <2>1, <3>3, <3>4, <5>2, <6>1, <6>3 DEF Headed
            <6> QED BY <6>2, <6>3
          <5> QED BY <5>1, <5>2
        <4> QED BY <2>1, <3>3, <3>4, <4>1, <4>2, PromiseKept
      <3>5. CASE stream[entry].sink # None
        <4>1. Owed[None] = <<>>
          BY <1>1, <3>5 DEF OwedOK
        <4>2. \A c \in Ears : Owed'[c] = Owed[c]
          BY <3>2, <3>3, <4>1
        <4>3. Owed' = Owed
          BY <1>1, <4>2, OwedKept
        <4>4. Headed' = Headed
          <5>1. CASE emit = NotEmitting
            BY <2>1, <5>1 DEF Headed
          <5>2. CASE emit # NotEmitting
            <6>1. emit.to \in Streams /\ emit.to # None
              BY <5>2, EmitTyped DEF Streams, None
            <6> QED BY <2>1, <3>5, <5>2, <6>1 DEF Headed
          <5> QED BY <5>1, <5>2
        <4>5. Subbed \in Channels
          BY <3>1, <3>3, <3>5 DEF Ears
        <4> QED BY <2>1, <3>3, <4>3, <4>4, <4>5, PromiseKept
      <3> QED BY <3>4, <3>5
    <2> QED BY <2>2, <2>3
  <1> QED BY <1>3, <1>4, <1>5 DEF QuietStep

\* An attach: what waited for the old subscriber, or for none, follows to the new one.
LEMMA PromiseAttaches == ASSUME Shape, Shape', AttachLands PROVE [Promise!Next]_(Promise!vars)
  <1> USE DEF Promise!Next
  <1> DEFINE e == EntryStream(local)
             r == [e EXCEPT !.sink = chan, !.hot = FALSE]
  <1>1. attach /\ EntryMade(local) /\ stream' = [stream EXCEPT ![entry'] = r]
        /\ UNCHANGED <<got, begun, emit, chan>> /\ local \in BOOLEAN
    BY DEF AttachLands, Put, Shape, TypeOK, reader
  <1>2. /\ entry' \in Streams /\ e \in StreamType /\ entry' # None
        /\ entry # None => entry' = entry
        /\ entry = None => entry' = made + 1
    BY <1>1, EntryGiven DEF Streams, None
  <1>3. All(e) = All(stream[entry']) /\ e.sink = stream[entry'].sink
    BY <1>1, EntryAll, EntryHolds
  <1>4. chan \in Channels /\ chan # None /\ got[chan] = <<>> /\ \A s \in Streams : stream[s].sink # chan
    BY <1>1, OutputAssumption DEF Shape, TypeOK, ChannelsFresh, Channels, None
  <1>5. r.sink = chan /\ r.close = e.close /\ r.pending = e.pending
    BY <1>2, <1>4 DEF StreamType
  <1> HIDE DEF r, e
  <1>6. All(r) = All(stream[entry'])
    BY <1>3, <1>5 DEF All
  <1>7. OwedOK /\ OwedOK'
    BY OwedFacts, PTL
  <1>8. /\ stream'[entry'] = r /\ \A t \in Streams \ {entry'} : stream'[t] = stream[t]
        /\ \A t \in Streams : stream[t].sink \in Ears
        /\ entry \in Streams \union {None} /\ None \notin Streams
        /\ None \in Ears /\ \A c \in Channels : c \in Ears /\ c # None /\ c # Gone
        /\ Gone # None
    <2>1. stream \in [Streams -> StreamType] /\ entry \in 0..made /\ made \in 0..MaxStreams
      BY DEF Shape, TypeOK
    <2>2. stream'[entry'] = r /\ \A t \in Streams \ {entry'} : stream'[t] = stream[t]
      BY <1>1, <1>2, <2>1
    <2>3. \A t \in Streams : stream[t].sink \in Ears
      BY <2>1 DEF StreamType, Ears
    <2>4. entry \in Streams \union {None} /\ None \notin Streams
      BY <2>1, OutputAssumption DEF Streams, None
    <2>5. None \in Ears /\ (\A c \in Channels : c \in Ears /\ c # None /\ c # Gone) /\ Gone # None
      BY OutputAssumption DEF None, Ears, Channels, Gone
    <2> QED BY <2>2, <2>3, <2>4, <2>5
  <1>9. Subbed' = chan /\ Subbed = stream[entry'].sink /\ Subbed \in Ears /\ Subbed # chan
    <2>1. CASE entry = None
      <3>1. stream[entry'].sink = None
        BY <1>2, <2>1 DEF Shape, TypeOK, StreamsFresh, NewStream
      <3> QED BY <1>2, <1>4, <1>5, <1>8, <2>1, <3>1 DEF Subbed
    <2>2. CASE entry # None
      BY <1>2, <1>4, <1>5, <1>8, <2>2 DEF Subbed
    <2> QED BY <2>1, <2>2
  <1>10. Owed[chan] = <<>>
    BY <1>4, <1>7 DEF OwedOK
  <1>11. Owed[Subbed] = All(r)
    <2>1. CASE entry = None
      <3>0. made \in Nat /\ entry' > made
        BY <1>2, <2>1 DEF Shape, TypeOK
      <3>1. stream[entry'] = NewStream(FALSE)
        BY <1>2, <3>0 DEF Shape, StreamsFresh
      <3>2. All(r) = <<>> /\ Subbed = None
        BY <1>6, <2>1, <3>1 DEF All, NewStream, Subbed
      <3> QED BY <1>7, <2>1, <3>2 DEF OwedOK
    <2>2. CASE entry # None
      BY <1>2, <1>6, <1>7, <1>9, <2>2 DEF OwedOK
    <2> QED BY <2>1, <2>2
  <1>12. ASSUME NEW c \in Ears
         PROVE  Owed'[c] = IF c = Subbed THEN <<>> ELSE IF c = chan THEN All(r) ELSE Owed[c]
    <2>1. CASE c = chan
      BY <1>2, <1>4, <1>5, <1>7, <1>8, <1>9, <2>1 DEF OwedOK
    <2>2. CASE c = None
      <3>1. Owed'[c] = <<>>
        BY <1>2, <1>4, <1>5, <1>7, <1>8, <2>2 DEF OwedOK
      <3>2. CASE Subbed = None
        BY <2>2, <3>1, <3>2
      <3>3. CASE Subbed # None
        <4>1. entry # None /\ stream[entry].sink # None
          BY <3>3 DEF Subbed
        <4>2. Owed[None] = <<>>
          BY <1>7, <4>1 DEF OwedOK
        <4> QED BY <1>4, <2>2, <3>1, <4>2
      <3> QED BY <3>2, <3>3
    <2>3. CASE c # chan /\ c # None
      <3>1. c \in Channels
        BY <2>3 DEF Ears
      <3>2. CASE c = Subbed
        <4>1. \A t \in Streams \ {entry'} : stream[t].sink # c
          BY <1>2, <1>9, <2>3, <3>2 DEF Shape, SinksDistinct
        <4>2. \A t \in Streams : stream'[t].sink # c
          BY <1>5, <1>8, <2>3, <4>1
        <4> QED BY <1>7, <3>1, <3>2, <4>2 DEF OwedOK
      <3>3. CASE c # Subbed
        <4>1. CASE \E t \in Streams : stream[t].sink = c
          <5>1. PICK t \in Streams : stream[t].sink = c
            BY <4>1
          <5>2. t # entry'
            BY <1>9, <3>3, <5>1
          <5> QED BY <1>7, <1>8, <2>3, <3>3, <5>1, <5>2 DEF OwedOK
        <4>2. CASE \A t \in Streams : stream[t].sink # c
          <5>1. \A t \in Streams : stream'[t].sink # c
            BY <1>5, <1>8, <2>3, <4>2
          <5> QED BY <1>7, <2>3, <3>1, <3>3, <4>2, <5>1 DEF OwedOK
        <4> QED BY <4>1, <4>2
      <3> QED BY <3>2, <3>3
    <2> QED BY <2>1, <2>2, <2>3
  <1>13. Owed' = [Owed EXCEPT ![chan] = Owed[Subbed], ![Subbed] = <<>>]
    <2>1. Owed = [c \in Ears |-> Owed[c]] /\ Owed' = [c \in Ears |-> Owed'[c]]
      BY <1>7 DEF OwedOK, Ears
    <2> QED BY <1>11, <1>12, <2>1
  <1>14. Headed' = (IF emit.item # 0 /\ Headed = Subbed THEN chan ELSE Headed)
    <2>1. CASE emit = NotEmitting
      BY <1>1, <2>1 DEF Headed, NotEmitting
    <2>2. CASE emit # NotEmitting
      <3>1. emit.to \in Streams /\ emit.item # 0 /\ emit.to <= made /\ made \in Nat
        BY <2>2, EmitTyped, OutputAssumption DEF Items, Shape, TypeOK
      <3>2. CASE emit.to = entry'
        <4>1. entry' = entry
          BY <1>2, <3>1, <3>2
        <4>2. Headed = Subbed
          BY <1>9, <2>2, <3>2, <4>1 DEF Headed
        <4>3. Headed' = chan
          BY <1>1, <1>4, <1>5, <1>8, <2>2, <3>2 DEF Headed
        <4> QED BY <3>1, <4>2, <4>3
      <3>3. CASE emit.to # entry'
        <4>1. stream'[emit.to] = stream[emit.to] /\ emit.to # entry
          BY <1>2, <1>8, <3>1, <3>3
        <4>2. Headed = IF stream[emit.to].sink # None THEN stream[emit.to].sink ELSE Gone
          BY <2>2, <4>1 DEF Headed
        <4>3. Headed' = Headed
          BY <1>1, <2>2, <3>3, <4>1, <4>2 DEF Headed
        <4>4. Headed # Subbed
          <5>1. CASE stream[emit.to].sink # None
            BY <1>2, <1>9, <3>1, <3>3, <4>2, <5>1 DEF Shape, SinksDistinct
          <5>2. CASE stream[emit.to].sink = None
            BY <1>8, <1>9, <4>2, <5>2 DEF Ears
          <5> QED BY <5>1, <5>2
        <4> QED BY <4>3, <4>4
      <3> QED BY <3>2, <3>3
    <2> QED BY <2>1, <2>2
  <1>15. Promise!Follow(chan)
    BY <1>1, <1>4, <1>9, <1>10, <1>13, <1>14, PromiseFollows
  <1> QED BY <1>4, <1>15

\* A detach in time: what the subscriber has not heard is dropped with it.
LEMMA PromiseDetaches ==
  ASSUME Shape, Shape', NEW c \in Channels, DetachLands(c)
  PROVE  [Promise!Next]_(Promise!vars)
  <1> USE DEF Promise!Next
  <1>0. OwedOK /\ OwedOK'
    BY OwedFacts, PTL
  <1>1. OwedOK /\ OwedOK' /\ UNCHANGED <<begun, emit>>
    BY <1>0 DEF DetachLands, reader
  <1>2. CASE ~SinkIs(c)
    <2>1. UNCHANGED <<entry, stream, got, begun, emit>>
      BY <1>1, <1>2 DEF DetachLands
    <2>2. \A d \in Ears : Owed'[d] = Owed[d]
      BY <2>1 DEF Owed, Waiting
    <2>3. Owed' = Owed
      BY <1>1, <2>2, OwedKept
    <2> QED BY <2>1, <2>3, PromiseKept DEF Stutters, Headed, Subbed
  <1>3. CASE SinkIs(c)
    <2> DEFINE q == [stream[entry] EXCEPT !.sink = None, !.pending = <<>>]
    <2>1. entry # None /\ entry' = None /\ stream' = [stream EXCEPT ![entry] = q] /\ got' = got
          /\ stream[entry].sink = c
      BY <1>3 DEF DetachLands, Put, SinkIs
    <2>2. entry \in Streams
      BY <2>1, OutputAssumption DEF Shape, TypeOK, Streams, None
    <2>3. q.sink = None
      BY <2>2 DEF Shape, TypeOK, StreamType
    <2> HIDE DEF q
    <2>4. /\ stream'[entry] = q /\ \A t \in Streams \ {entry} : stream'[t] = stream[t]
          /\ c \in Ears /\ c # None /\ c # Gone /\ Gone # None
          /\ None \notin Streams
      <3>1. stream'[entry] = q /\ \A t \in Streams \ {entry} : stream'[t] = stream[t]
        BY <2>1, <2>2 DEF Shape, TypeOK
      <3>2. c \in Ears /\ c # None /\ c # Gone /\ Gone # None /\ None \notin Streams
        BY OutputAssumption DEF Streams, None, Ears, Channels, Gone
      <3> QED BY <3>1, <3>2
    <2>5. Subbed = c /\ Subbed' = None
      BY <2>1 DEF Subbed
    <2>6. \A t \in Streams \ {entry} : stream[t].sink # c
      BY <2>1, <2>2, <2>4 DEF Shape, SinksDistinct
    <2>7. ASSUME NEW d \in Ears PROVE Owed'[d] = IF d = c THEN <<>> ELSE Owed[d]
      <3>1. CASE d = c
        <4>1. \A t \in Streams : stream'[t].sink # c
          BY <2>3, <2>4, <2>6
        <4> QED BY <1>1, <3>1, <4>1 DEF OwedOK
      <3>2. CASE d = None
        BY <1>1, <2>1, <2>4, <3>2 DEF OwedOK
      <3>3. CASE d # c /\ d # None
        <4>1. d \in Channels
          BY <3>3 DEF Ears
        <4>2. CASE \E t \in Streams : stream[t].sink = d
          <5>1. PICK t \in Streams : stream[t].sink = d
            BY <4>2
          <5>2. stream'[t] = stream[t]
            BY <2>1, <2>4, <3>3, <5>1
          <5>3. Owed[d] = All(stream[t]) /\ Owed'[d] = All(stream'[t])
            BY <1>1, <3>3, <5>1, <5>2 DEF OwedOK
          <5> QED BY <3>3, <5>2, <5>3
        <4>3. CASE \A t \in Streams : stream[t].sink # d
          <5>1. \A t \in Streams : stream'[t].sink # d
            BY <2>3, <2>4, <3>3, <4>3
          <5> QED BY <1>1, <3>3, <4>1, <4>3, <5>1 DEF OwedOK
        <4> QED BY <4>2, <4>3
      <3> QED BY <3>1, <3>2, <3>3
    <2>8. Owed' = [Owed EXCEPT ![Subbed] = <<>>]
      BY <1>1, <2>4, <2>5, <2>7, OwedChanged
    <2>9. Headed' = (IF emit.item # 0 /\ Headed = Subbed THEN Gone ELSE Headed)
      <3>1. CASE emit = NotEmitting
        BY <1>1, <3>1 DEF Headed, NotEmitting
      <3>2. CASE emit # NotEmitting
        <4>1. emit.to \in Streams /\ emit.to # None /\ emit.item # 0
          BY <3>2, <2>4, EmitTyped, OutputAssumption DEF Items
        <4>2. CASE emit.to = entry
          BY <1>1, <2>1, <2>3, <2>4, <2>5, <3>2, <4>1, <4>2 DEF Headed
        <4>3. CASE emit.to # entry
          BY <1>1, <2>1, <2>4, <2>5, <2>6, <3>2, <4>1, <4>3 DEF Headed
        <4> QED BY <4>2, <4>3
      <3> QED BY <3>1, <3>2
    <2> QED BY <1>1, <2>1, <2>5, <2>8, <2>9, PromiseKept
  <1> QED BY <1>2, <1>3

\* The shell is spawned, or its gate opened: output held there is delivered.
LEMMA PromiseSpawns == ASSUME Shape, Shape', Spawn PROVE [Promise!Next]_(Promise!vars)
  <1> DEFINE e == EntryStream(TRUE)
  <1>1. EntryMade(TRUE) /\ stream' = [stream EXCEPT ![entry'] = e] /\ UNCHANGED <<got, begun, emit>>
    BY DEF Spawn, Put
  <1>2. entry' \in Streams /\ e \in StreamType /\ (entry # None => entry' = entry /\ e = stream[entry'])
        /\ (entry = None => e = NewStream(TRUE))
    BY <1>1, EntryGiven
  <1> HIDE DEF e
  <1>3. Subbed' = Subbed /\ Owed' = Owed /\ Headed' = Headed
    <2>1. CASE entry # None
      <3>1. stream' = stream /\ entry' = entry
        BY <1>1, <1>2, <2>1 DEF Shape, TypeOK
      <3>2. OwedOK /\ OwedOK'
        BY OwedFacts, PTL
      <3>3. \A c \in Ears : Owed'[c] = Owed[c]
        BY <3>1 DEF Owed, Waiting
      <3> QED BY <1>1, <3>1, <3>2, <3>3, OwedKept DEF Headed, Subbed
    <2>2. CASE entry = None
      <3>1. e.sink = None /\ All(e) = <<>>
        BY <1>2, <2>2 DEF NewStream, All
      <3> QED BY <1>1, <1>2, <2>2, <3>1, OwedNewEntry
    <2> QED BY <2>1, <2>2
  <1> QED BY <1>1, <1>3, PromiseKept DEF Stutters

LEMMA PromiseReady == ASSUME Shape, Shape', ReadyLands PROVE [Promise!Next]_(Promise!vars)
  <1> DEFINE e == EntryStream(TRUE)
  <1>1. EntryMade(TRUE) /\ Open(entry', e) /\ UNCHANGED <<begun, emit>>
    BY DEF ReadyLands, reader
  <1>2. /\ entry' \in Streams /\ e \in StreamType /\ NotStranded(e) /\ e.sink = stream[entry'].sink
        /\ entry # None => entry' = entry
        /\ entry = None => e = NewStream(TRUE)
    BY <1>1, EntryGiven, EntryHolds
  <1>3. All(e) = All(stream[entry'])
    BY <1>1, EntryAll
  <1> HIDE DEF e
  <1>4. PICK q \in StreamType :
          /\ NotStranded(q) /\ q.sink = e.sink /\ ~q.gated /\ q.close = 0
          /\ q.pending = IF e.gated THEN <<>> ELSE e.pending
          /\ stream' = [stream EXCEPT ![entry'] = q]
          /\ got' \in [Channels -> Seq(Items)]
          /\ \A c \in Channels : got'[c] = IF e.gated /\ c = e.sink THEN got[c] \o All(e) ELSE got[c]
    BY <1>1, <1>2, OpenedTyped
  <1>5. got \in [Channels -> Seq(Items)]
    BY DEF Shape, TypeOK
  <1>6. CASE entry = None
    <2>1. e.sink = None /\ e.gated /\ All(e) = <<>>
      BY <1>2, <1>6 DEF NewStream, All
    <2>2. All(q) = <<>> /\ q.sink = None
      BY <1>4, <2>1 DEF All
    <2>3. \A c \in Channels : got'[c] = got[c]
      BY <1>4, <2>1 DEF Channels, None
    <2>4. got' = got
      BY <1>4, <1>5, <2>3
    <2>5. Subbed' = Subbed /\ Owed' = Owed /\ Headed' = Headed
      BY <1>1, <1>4, <1>6, <2>2, OwedNewEntry
    <2> QED BY <1>1, <2>4, <2>5, PromiseKept DEF Stutters
  <1>7. CASE entry # None /\ e.gated
    <2>1. All(q) = <<>>
      BY <1>4, <1>7 DEF All
    <2>2. \A c \in Channels : got'[c] = IF c = e.sink THEN got[c] \o All(e) ELSE got[c]
      BY <1>4, <1>7
    <2> QED BY <1>1, <1>2, <1>3, <1>4, <1>7, <2>1, <2>2, PromiseFlushed
  <1>8. CASE entry # None /\ ~e.gated
    <2>1. All(q) = All(stream[entry'])
      BY <1>2, <1>3, <1>4, <1>8 DEF All, NotStranded
    <2>2. got' = got
      <3>1. \A c \in Channels : got'[c] = got[c]
        BY <1>4, <1>8
      <3> QED BY <1>4, <1>5, <3>1
    <2> QED BY <1>1, <1>2, <1>4, <1>8, <2>1, <2>2, PromiseHeld
  <1> QED BY <1>6, <1>7, <1>8

\* Every step of the streams is a step of the promise, or none.
LEMMA PromiseStep == Shape /\ [Next]_vars => [Promise!Next]_(Promise!vars)
  <1> SUFFICES ASSUME Shape, [Next]_vars PROVE [Promise!Next]_(Promise!vars)
    OBVIOUS
  <1>0. Shape'
    BY ShapeStep
  <1>1. CASE UNCHANGED vars
    <2>1. UNCHANGED <<entry, stream, begun, emit, got>>
      BY <1>1 DEF vars, backend, reader
    <2>2. OwedOK /\ OwedOK'
      BY <1>0, OwedFacts, PTL
    <2>3. Owed' = Owed
      <3>1. \A c \in Ears : Owed'[c] = Owed[c]
        BY <2>1 DEF Owed, Waiting
      <3> QED BY <2>2, <3>1, OwedKept
    <2> QED BY <2>1, <2>3, PromiseKept DEF Stutters, Headed, Subbed
  <1>2. CASE QuietStep
    BY <1>0, <1>2, PromiseQuiet
  <1>3. ASSUME NEW s \in Streams, TimerFires(s) PROVE [Promise!Next]_(Promise!vars)
    <2> DEFINE r == [stream[s] EXCEPT !.timer = FALSE]
    <2>1. stream[s] \in StreamType
      BY StreamFacts
    <2>2. r \in StreamType /\ r.sink = stream[s].sink /\ r.close = stream[s].close /\ r.pending = stream[s].pending
      BY <2>1 DEF StreamType
    <2>3. Send(s, r) /\ UNCHANGED <<entry, begun, emit>>
      BY <1>3 DEF TimerFires, reader
    <2> HIDE DEF r
    <2>4. All(r) = All(stream[s])
      BY <2>2 DEF All
    <2>5. Flushed(r) \in StreamType /\ Flushed(r).sink = r.sink /\ All(Flushed(r)) = <<>>
      BY <2>2, FlushedTyped DEF All
    <2>6. /\ stream' = [stream EXCEPT ![s] = Flushed(r)] /\ got' \in [Channels -> Seq(Items)]
          /\ \A c \in Channels : got'[c] = IF c = r.sink THEN got[c] \o All(r) ELSE got[c]
      BY <2>2, <2>3, SendGot
    <2> QED BY <1>0, <2>2, <2>3, <2>4, <2>5, <2>6, PromiseFlushed
  <1>4. ASSUME NEW s \in Streams, WindowEnds(s) PROVE [Promise!Next]_(Promise!vars)
    <2> DEFINE q == [stream[s] EXCEPT !.hot = FALSE]
    <2>1. stream[s] \in StreamType
      BY StreamFacts
    <2>2. q \in StreamType /\ q.sink = stream[s].sink /\ q.close = stream[s].close /\ q.pending = stream[s].pending
      BY <2>1 DEF StreamType
    <2>3. stream' = [stream EXCEPT ![s] = q] /\ UNCHANGED <<got, entry, begun, emit>>
      BY <1>4 DEF WindowEnds, Put, reader
    <2> HIDE DEF q
    <2>4. All(q) = All(stream[s])
      BY <2>2 DEF All
    <2> QED BY <1>0, <2>2, <2>3, <2>4, PromiseHeld
  <1> QED BY <1>0, <1>1, <1>2, <1>3, <1>4, PromiseEmits, PromiseSpawns, PromiseReady, PromiseAttaches,
            PromiseDetaches
      DEF Next, ReaderStep, TimerStep, CommandStep, QuietStep

\* The streams implement the promise: through gates, batches, flush tasks and commands that
\* overtake each other, a subscriber hears, in order and without a gap, everything that
\* began to be emitted while it was subscribed (terminal_output.rs).
THEOREM StreamsKeepPromise == Spec => KeepsPromise
  <1>1. Init => Promise!Init
    <2> SUFFICES ASSUME Init PROVE Promise!Init
      OBVIOUS
    <2>1. Shape /\ OwedOK
      BY InitShape, OwedFacts
    <2>2. /\ begun = 0 /\ emit = NotEmitting /\ entry = None /\ got = [c \in Channels |-> <<>>]
          /\ \A s \in Streams : stream[s].sink = None
      BY DEF Init, NewStream
    <2>3. \A c \in Ears : Owed[c] = <<>>
      BY <2>1, <2>2 DEF OwedOK, Ears, Channels, None
    <2>4. Owed = [c \in Ears |-> <<>>]
      BY <2>1, <2>3 DEF OwedOK
    <2> QED BY <2>2, <2>4 DEF Promise!Init, Owed, Ears, Headed, NotEmitting
  <1> QED BY <1>1, InitShape, ShapeStep, PromiseStep, PTL DEF Spec, KeepsPromise, Promise!Spec
=============================================================================
