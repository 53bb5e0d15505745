---------------------------- MODULE OutputPromise ----------------------------
(***************************************************************************)
(* What src-tauri/src/terminal_output.rs promises a session's subscriber,  *)
(* without gates, batches, timers or the map of streams: a channel hears,  *)
(* in order and without a gap, everything that began to be emitted while   *)
(* it was the subscriber, a close being one more item.                     *)
(***************************************************************************)
EXTENDS Naturals, Sequences

\* None and Gone are no channels, and differ.
CONSTANTS Channels, \* the subscribers' channels
          None,     \* nobody subscribes (yet)
          Gone      \* the subscriber an item was headed for has left

VARIABLES begun, \* items the session has begun to emit, numbered from 1
          emit,  \* the item being emitted, 0 when there is none
          dest,  \* where it is headed
          sub,   \* the subscribed channel
          owed,  \* owed[c]: items accepted for c and not sent yet
          got    \* got[c]: items sent to c

vars == <<begun, emit, dest, sub, owed, got>>

Init == /\ begun = 0 /\ emit = 0 /\ dest = None /\ sub = None
        /\ owed = [c \in Channels \union {None} |-> <<>>]
        /\ got  = [c \in Channels |-> <<>>]

Begin == /\ emit = 0
         /\ begun' = begun + 1
         /\ emit' = begun + 1
         /\ dest' = sub
         /\ UNCHANGED <<sub, owed, got>>

\* With no subscriber an item may come to nothing at once.
Unheard == /\ emit = 0 /\ sub = None
           /\ begun' = begun + 1
           /\ UNCHANGED <<emit, dest, sub, owed, got>>

EmitEnds == emit' = 0 /\ dest' = None /\ UNCHANGED <<begun, sub>>

Keep == /\ emit # 0 /\ dest # Gone
        /\ owed' = [owed EXCEPT ![dest] = Append(@, emit)]
        /\ EmitEnds
        /\ UNCHANGED got

\* Sent, behind everything that was owed.
Pass == /\ emit # 0 /\ dest \in Channels
        /\ got'  = [got EXCEPT ![dest] = @ \o Append(owed[dest], emit)]
        /\ owed' = [owed EXCEPT ![dest] = <<>>]
        /\ EmitEnds

\* Only what has no subscriber may be lost: the item itself, what waited, or both.
Drop == /\ emit # 0 /\ dest \notin Channels
        /\ owed' \in {owed, [owed EXCEPT ![None] = <<>>]}
        /\ EmitEnds
        /\ UNCHANGED got

Discard == /\ owed' = [owed EXCEPT ![None] = <<>>]
           /\ UNCHANGED <<begun, emit, dest, sub, got>>

Deliver(c) == /\ owed[c] # <<>>
              /\ got'  = [got EXCEPT ![c] = @ \o owed[c]]
              /\ owed' = [owed EXCEPT ![c] = <<>>]
              /\ UNCHANGED <<begun, emit, dest, sub>>

\* What waits for the subscriber, and the item headed there, follow to c.
Follow(c) == /\ got[c] = <<>> /\ owed[c] = <<>> /\ sub # c
             /\ sub' = c
             /\ dest' = IF emit # 0 /\ dest = sub THEN c ELSE dest
             /\ owed' = [owed EXCEPT ![c] = owed[sub], ![sub] = <<>>]
             /\ UNCHANGED <<begun, emit, got>>

\* The subscriber leaves, with nothing more to come to it,
Leave == /\ sub' = None
         /\ dest' = IF emit # 0 /\ dest = sub THEN Gone ELSE dest
         /\ owed' = [owed EXCEPT ![sub] = <<>>]
         /\ UNCHANGED <<begun, emit, got>>

\* or is cut off from what begins later, but still hears the rest.
CutOff == /\ sub \in Channels
          /\ sub' = None
          /\ UNCHANGED <<begun, emit, dest, owed, got>>

Next == \/ Begin \/ Unheard \/ Keep \/ Pass \/ Drop \/ Discard \/ Leave \/ CutOff
        \/ \E c \in Channels : Deliver(c) \/ Follow(c)

Spec == Init /\ [][Next]_vars
=============================================================================
