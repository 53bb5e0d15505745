-------------------------- MODULE SyncEngineProofs --------------------------
(***************************************************************************)
(* For any number of edits and remote pushes, no edit is forgotten by the  *)
(* sync engine, and it retries while it shows "offline".  EditAccounted    *)
(* alone is not inductive: a blob that lands replaces the server's copy,   *)
(* so the proof also needs that no blob on its way is older than that copy *)
(* (PutsNotOlder), and TypeOK for the bounds of what a blob holds.         *)
(***************************************************************************)
EXTENDS SyncEngine, TLAPS

\* The launch state (SplashScreen.tsx:158-170) is well-typed.
LEMMA InitTypeOK == Init => TypeOK
  <1> SUFFICES ASSUME Init PROVE TypeOK
    OBVIOUS
  <1>1. FlagsOK
    BY Zenon DEF Init, FlagsOK
  <1>2. StagesOK
    BY DEF Init, StagesOK
  <1>3. CountsOK
    BY DEF Init, CountsOK
  <1> QED BY <1>1, <1>2, <1>3 DEF Init, TypeOK

\* Every flag of sync.ts:75-96 stays a Boolean, one step per action.
LEMMA StepFlagsOK == FlagsOK /\ [Next]_vars => FlagsOK'
  <1> SUFFICES ASSUME FlagsOK, [Next]_vars PROVE FlagsOK'
    OBVIOUS
  <1> USE DEF FlagsOK, run, login, owed, device, world
  <1>1. CASE RunPulls
    BY <1>1, Zenon DEF RunPulls, RunFails
  <1>2. CASE RunMerges
    BY <1>2, Zenon DEF RunMerges, RunFails, RunSucceeds
  <1>3. CASE RunExports
    BY <1>3, Zenon DEF RunExports, RunFails
  <1>4. CASE RunUploads
    BY <1>4, Zenon DEF RunUploads, RunFails, RunSucceeds
  <1>5. CASE HoldEnds
    BY <1>5, Zenon DEF HoldEnds, AwaitingServer
  <1>6. CASE LoginPulls
    BY <1>6, Zenon DEF LoginPulls, LoginFails
  <1>7. CASE LoginMerges
    BY <1>7, Zenon DEF LoginMerges, LoginFails
  <1>8. CASE LoginExports
    BY <1>8, Zenon DEF LoginExports, LoginFails
  <1>9. CASE LoginUploads
    BY <1>9, Zenon DEF LoginUploads, LoginFails
  <1>10. CASE StreamOpens
    BY <1>10, Zenon DEF StreamOpens, StartLogin, SyncInBackground, SyncNow
  <1>11. CASE StreamLost
    BY <1>11, Zenon DEF StreamLost
  <1>12. CASE StreamEnds
    BY <1>12, Zenon DEF StreamEnds
  <1>13. CASE Retry
    BY <1>13, Zenon DEF Retry
  <1>14. CASE RemotePush
    BY <1>14, Zenon DEF RemotePush, SyncNow
  <1>15. CASE SwapStarts
    BY <1>15, Zenon DEF SwapStarts
  <1>16. CASE SwapHalts
    BY <1>16, Zenon DEF SwapHalts
  <1>17. CASE SwapFails
    BY <1>17, Zenon DEF SwapFails
  <1>18. CASE TimerFires
    BY <1>18, Zenon DEF TimerFires, SyncInBackground, SyncNow
  <1>19. CASE Edit
    BY <1>19, Zenon DEF Edit
  <1>20. CASE UserSync
    BY <1>20, Zenon DEF UserSync, SyncNow
  <1>21. CASE Pause
    BY <1>21, Zenon DEF Pause
  <1>22. CASE Unpause
    BY <1>22, Zenon DEF Unpause, StartLogin
  <1>23. CASE Restart
    BY <1>23, Zenon DEF Restart
  <1>24. CASE ServerFlips
    BY <1>24, Zenon DEF ServerFlips
  <1>25. CASE UNCHANGED vars
    BY <1>25, Zenon DEF vars
  <1> QED BY <1>1, <1>2, <1>3, <1>4, <1>5, <1>6, <1>7, <1>8, <1>9, <1>10, <1>11, <1>12, <1>13, <1>14, <1>15, <1>16, <1>17, <1>18, <1>19, <1>20, <1>21, <1>22, <1>23, <1>24, <1>25 DEF Next, SyncStep, LoginStep, StreamStep, SwapStep, UserStep

\* The status, the two syncs, the switch and the stream move between the states of their handlers.
LEMMA StepStagesOK == StagesOK /\ [Next]_vars => StagesOK'
  <1> SUFFICES ASSUME StagesOK, [Next]_vars PROVE StagesOK'
    OBVIOUS
  <1> USE DEF StagesOK, run, login, owed, device, world
  <1>1. CASE RunPulls
    BY <1>1 DEF RunPulls, RunFails
  <1>2. CASE RunMerges
    BY <1>2 DEF RunMerges, RunFails, RunSucceeds
  <1>3. CASE RunExports
    BY <1>3 DEF RunExports, RunFails
  <1>4. CASE RunUploads
    BY <1>4 DEF RunUploads, RunFails, RunSucceeds
  <1>5. CASE HoldEnds
    BY <1>5 DEF HoldEnds, AwaitingServer
  <1>6. CASE LoginPulls
    BY <1>6 DEF LoginPulls, LoginFails
  <1>7. CASE LoginMerges
    BY <1>7 DEF LoginMerges, LoginFails
  <1>8. CASE LoginExports
    BY <1>8 DEF LoginExports, LoginFails
  <1>9. CASE LoginUploads
    BY <1>9 DEF LoginUploads, LoginFails
  <1>10. CASE StreamOpens
    BY <1>10 DEF StreamOpens, StartLogin, SyncInBackground, SyncNow
  <1>11. CASE StreamLost
    BY <1>11 DEF StreamLost
  <1>12. CASE StreamEnds
    BY <1>12 DEF StreamEnds
  <1>13. CASE Retry
    BY <1>13 DEF Retry
  <1>14. CASE RemotePush
    BY <1>14 DEF RemotePush, SyncNow
  <1>15. CASE SwapStarts
    BY <1>15 DEF SwapStarts
  <1>16. CASE SwapHalts
    BY <1>16 DEF SwapHalts
  <1>17. CASE SwapFails
    BY <1>17 DEF SwapFails
  <1>18. CASE TimerFires
    BY <1>18 DEF TimerFires, SyncInBackground, SyncNow
  <1>19. CASE Edit
    BY <1>19 DEF Edit
  <1>20. CASE UserSync
    BY <1>20 DEF UserSync, SyncNow
  <1>21. CASE Pause
    BY <1>21 DEF Pause
  <1>22. CASE Unpause
    BY <1>22 DEF Unpause, StartLogin
  <1>23. CASE Restart
    BY <1>23 DEF Restart
  <1>24. CASE ServerFlips
    BY <1>24 DEF ServerFlips
  <1>25. CASE UNCHANGED vars
    BY <1>25 DEF vars
  <1> QED BY <1>1, <1>2, <1>3, <1>4, <1>5, <1>6, <1>7, <1>8, <1>9, <1>10, <1>11, <1>12, <1>13, <1>14, <1>15, <1>16, <1>17, <1>18, <1>19, <1>20, <1>21, <1>22, <1>23, <1>24, <1>25 DEF Next, SyncStep, LoginStep, StreamStep, SwapStep, UserStep

\* No blob, exported or uploaded, holds more edits than were made.
LEMMA StepCountsOK == CountsOK /\ [Next]_vars => CountsOK'
  <1> SUFFICES ASSUME CountsOK, [Next]_vars PROVE CountsOK'
    OBVIOUS
  <1> USE DEF CountsOK, run, login, owed, device, world
  <1>1. CASE RunPulls
    BY <1>1 DEF RunPulls, RunFails
  <1>2. CASE RunMerges
    BY <1>2 DEF RunMerges, RunFails, RunSucceeds
  <1>3. CASE RunExports
    BY <1>3 DEF RunExports, RunFails
  <1>4. CASE RunUploads
    BY <1>4 DEF RunUploads, RunFails, RunSucceeds
  <1>5. CASE HoldEnds
    BY <1>5 DEF HoldEnds, AwaitingServer
  <1>6. CASE LoginPulls
    BY <1>6 DEF LoginPulls, LoginFails
  <1>7. CASE LoginMerges
    BY <1>7 DEF LoginMerges, LoginFails
  <1>8. CASE LoginExports
    BY <1>8 DEF LoginExports, LoginFails
  <1>9. CASE LoginUploads
    BY <1>9 DEF LoginUploads, LoginFails
  <1>10. CASE StreamOpens
    BY <1>10 DEF StreamOpens, StartLogin, SyncInBackground, SyncNow
  <1>11. CASE StreamLost
    BY <1>11 DEF StreamLost
  <1>12. CASE StreamEnds
    BY <1>12 DEF StreamEnds
  <1>13. CASE Retry
    BY <1>13 DEF Retry
  <1>14. CASE RemotePush
    BY <1>14 DEF RemotePush, SyncNow
  <1>15. CASE SwapStarts
    BY <1>15 DEF SwapStarts
  <1>16. CASE SwapHalts
    BY <1>16 DEF SwapHalts
  <1>17. CASE SwapFails
    BY <1>17 DEF SwapFails
  <1>18. CASE TimerFires
    BY <1>18 DEF TimerFires, SyncInBackground, SyncNow
  <1>19. CASE Edit
    BY <1>19 DEF Edit
  <1>20. CASE UserSync
    BY <1>20 DEF UserSync, SyncNow
  <1>21. CASE Pause
    BY <1>21 DEF Pause
  <1>22. CASE Unpause
    BY <1>22 DEF Unpause, StartLogin
  <1>23. CASE Restart
    BY <1>23 DEF Restart
  <1>24. CASE ServerFlips
    BY <1>24 DEF ServerFlips
  <1>25. CASE UNCHANGED vars
    BY <1>25 DEF vars
  <1> QED BY <1>1, <1>2, <1>3, <1>4, <1>5, <1>6, <1>7, <1>8, <1>9, <1>10, <1>11, <1>12, <1>13, <1>14, <1>15, <1>16, <1>17, <1>18, <1>19, <1>20, <1>21, <1>22, <1>23, <1>24, <1>25 DEF Next, SyncStep, LoginStep, StreamStep, SwapStep, UserStep

\* A second sync is owed only while one is in flight: the finally of syncNow and haltSync take it back.
LEMMA StepOwedInFlight == (syncOwed => InFlight) /\ [Next]_vars => (syncOwed => InFlight)'
  <1> SUFFICES ASSUME (syncOwed => InFlight), [Next]_vars PROVE (syncOwed => InFlight)'
    OBVIOUS
  <1> USE DEF InFlight, run, login, owed, device, world
  <1>1. CASE RunPulls
    BY <1>1 DEF RunPulls, RunFails
  <1>2. CASE RunMerges
    BY <1>2 DEF RunMerges, RunFails, RunSucceeds
  <1>3. CASE RunExports
    BY <1>3 DEF RunExports, RunFails
  <1>4. CASE RunUploads
    BY <1>4 DEF RunUploads, RunFails, RunSucceeds
  <1>5. CASE HoldEnds
    BY <1>5 DEF HoldEnds, AwaitingServer
  <1>6. CASE LoginPulls
    BY <1>6 DEF LoginPulls, LoginFails
  <1>7. CASE LoginMerges
    BY <1>7 DEF LoginMerges, LoginFails
  <1>8. CASE LoginExports
    BY <1>8 DEF LoginExports, LoginFails
  <1>9. CASE LoginUploads
    BY <1>9 DEF LoginUploads, LoginFails
  <1>10. CASE StreamOpens
    BY <1>10 DEF StreamOpens, StartLogin, SyncInBackground, SyncNow
  <1>11. CASE StreamLost
    BY <1>11 DEF StreamLost
  <1>12. CASE StreamEnds
    BY <1>12 DEF StreamEnds
  <1>13. CASE Retry
    BY <1>13 DEF Retry
  <1>14. CASE RemotePush
    BY <1>14 DEF RemotePush, SyncNow
  <1>15. CASE SwapStarts
    BY <1>15 DEF SwapStarts
  <1>16. CASE SwapHalts
    BY <1>16 DEF SwapHalts
  <1>17. CASE SwapFails
    BY <1>17 DEF SwapFails
  <1>18. CASE TimerFires
    BY <1>18 DEF TimerFires, SyncInBackground, SyncNow
  <1>19. CASE Edit
    BY <1>19 DEF Edit
  <1>20. CASE UserSync
    BY <1>20 DEF UserSync, SyncNow
  <1>21. CASE Pause
    BY <1>21 DEF Pause
  <1>22. CASE Unpause
    BY <1>22 DEF Unpause, StartLogin
  <1>23. CASE Restart
    BY <1>23 DEF Restart
  <1>24. CASE ServerFlips
    BY <1>24 DEF ServerFlips
  <1>25. CASE UNCHANGED vars
    BY <1>25 DEF vars
  <1> QED BY <1>1, <1>2, <1>3, <1>4, <1>5, <1>6, <1>7, <1>8, <1>9, <1>10, <1>11, <1>12, <1>13, <1>14, <1>15, <1>16, <1>17, <1>18, <1>19, <1>20, <1>21, <1>22, <1>23, <1>24, <1>25 DEF Next, SyncStep, LoginStep, StreamStep, SwapStep, UserStep

\* A blob lands only after the older ones, so what is on its way stays at least as new as what landed.
LEMMA StepPutsNotOlder == ~OverlappingPuts /\ CountsOK /\ PutsNotOlder /\ [Next]_vars => PutsNotOlder'
  <1> SUFFICES ASSUME ~OverlappingPuts /\ CountsOK /\ PutsNotOlder, [Next]_vars PROVE PutsNotOlder'
    OBVIOUS
  <1> USE DEF CountsOK, PutsNotOlder, Puts, Lands, run, login, owed, device, world
  <1>1. CASE RunPulls
    BY <1>1 DEF RunPulls, RunFails
  <1>2. CASE RunMerges
    BY <1>2 DEF RunMerges, RunFails, RunSucceeds
  <1>3. CASE RunExports
    BY <1>3 DEF RunExports, RunFails
  <1>4. CASE RunUploads
    BY <1>4 DEF RunUploads, RunFails, RunSucceeds
  <1>5. CASE HoldEnds
    BY <1>5 DEF HoldEnds, AwaitingServer
  <1>6. CASE LoginPulls
    BY <1>6 DEF LoginPulls, LoginFails
  <1>7. CASE LoginMerges
    BY <1>7 DEF LoginMerges, LoginFails
  <1>8. CASE LoginExports
    BY <1>8 DEF LoginExports, LoginFails
  <1>9. CASE LoginUploads
    BY <1>9 DEF LoginUploads, LoginFails
  <1>10. CASE StreamOpens
    BY <1>10 DEF StreamOpens, StartLogin, SyncInBackground, SyncNow
  <1>11. CASE StreamLost
    BY <1>11 DEF StreamLost
  <1>12. CASE StreamEnds
    BY <1>12 DEF StreamEnds
  <1>13. CASE Retry
    BY <1>13 DEF Retry
  <1>14. CASE RemotePush
    BY <1>14 DEF RemotePush, SyncNow
  <1>15. CASE SwapStarts
    BY <1>15 DEF SwapStarts
  <1>16. CASE SwapHalts
    BY <1>16 DEF SwapHalts
  <1>17. CASE SwapFails
    BY <1>17 DEF SwapFails
  <1>18. CASE TimerFires
    BY <1>18 DEF TimerFires, SyncInBackground, SyncNow
  <1>19. CASE Edit
    BY <1>19 DEF Edit
  <1>20. CASE UserSync
    BY <1>20 DEF UserSync, SyncNow
  <1>21. CASE Pause
    BY <1>21 DEF Pause
  <1>22. CASE Unpause
    BY <1>22 DEF Unpause, StartLogin
  <1>23. CASE Restart
    BY <1>23 DEF Restart
  <1>24. CASE ServerFlips
    BY <1>24 DEF ServerFlips
  <1>25. CASE UNCHANGED vars
    BY <1>25 DEF vars
  <1> QED BY <1>1, <1>2, <1>3, <1>4, <1>5, <1>6, <1>7, <1>8, <1>9, <1>10, <1>11, <1>12, <1>13, <1>14, <1>15, <1>16, <1>17, <1>18, <1>19, <1>20, <1>21, <1>22, <1>23, <1>24, <1>25 DEF Next, SyncStep, LoginStep, StreamStep, SwapStep, UserStep

\* An edit passes from timer to owed push to running sync to server and is never dropped in between.
LEMMA StepEditAccounted == ~OverlappingPuts /\ TypeOK /\ PutsNotOlder /\ EditAccounted /\ [Next]_vars => EditAccounted'
  <1> SUFFICES ASSUME ~OverlappingPuts /\ TypeOK /\ PutsNotOlder /\ EditAccounted, [Next]_vars PROVE EditAccounted'
    OBVIOUS
  <1> USE DEF CountsOK, TypeOK, StagesOK, FlagsOK, InFlight, halted, EditAccounted, PutsNotOlder, Puts, Lands, RunCarries, LoginCarries, run, login, owed, device, world
  <1>1. CASE RunPulls
    BY <1>1 DEF RunPulls, RunFails
  <1>2. CASE RunMerges
    BY <1>2 DEF RunMerges, RunFails, RunSucceeds
  <1>3. CASE RunExports
    BY <1>3 DEF RunExports, RunFails
  <1>4. CASE RunUploads
    BY <1>4 DEF RunUploads, RunFails, RunSucceeds
  <1>5. CASE HoldEnds
    BY <1>5 DEF HoldEnds, AwaitingServer
  <1>6. CASE LoginPulls
    BY <1>6 DEF LoginPulls, LoginFails
  <1>7. CASE LoginMerges
    BY <1>7 DEF LoginMerges, LoginFails
  <1>8. CASE LoginExports
    BY <1>8 DEF LoginExports, LoginFails
  <1>9. CASE LoginUploads
    <2>1. CASE server = "down" /\ LoginFails(TRUE)
      <3>1. loginOwed'
        BY <2>1 DEF LoginFails
      <3> QED BY <3>1
    <2>2. CASE LoginFails(FALSE)
      <3>1. gap'
        BY <2>2 DEF LoginFails
      <3> QED BY <3>1
    <2>3. CASE lpc = "upload" /\ uploaded' = lexp /\ UNCHANGED <<run, lexp, owed, device, sse, server, edits, news>>
      BY <2>3
    <2> QED BY <1>9, <2>1, <2>2, <2>3 DEF LoginUploads
  <1>10. CASE StreamOpens
    BY <1>10 DEF StreamOpens, StartLogin, SyncInBackground, SyncNow
  <1>11. CASE StreamLost
    BY <1>11 DEF StreamLost
  <1>12. CASE StreamEnds
    BY <1>12 DEF StreamEnds
  <1>13. CASE Retry
    BY <1>13 DEF Retry
  <1>14. CASE RemotePush
    BY <1>14 DEF RemotePush, SyncNow
  <1>15. CASE SwapStarts
    BY <1>15 DEF SwapStarts
  <1>16. CASE SwapHalts
    BY <1>16 DEF SwapHalts
  <1>17. CASE SwapFails
    BY <1>17 DEF SwapFails
  <1>18. CASE TimerFires
    BY <1>18 DEF TimerFires, SyncInBackground, SyncNow
  <1>19. CASE Edit
    BY <1>19 DEF Edit
  <1>20. CASE UserSync
    BY <1>20 DEF UserSync, SyncNow
  <1>21. CASE Pause
    BY <1>21 DEF Pause
  <1>22. CASE Unpause
    BY <1>22 DEF Unpause, StartLogin
  <1>23. CASE Restart
    BY <1>23 DEF Restart
  <1>24. CASE ServerFlips
    BY <1>24 DEF ServerFlips
  <1>25. CASE UNCHANGED vars
    BY <1>25 DEF vars
  <1> QED BY <1>1, <1>2, <1>3, <1>4, <1>5, <1>6, <1>7, <1>8, <1>9, <1>10, <1>11, <1>12, <1>13, <1>14, <1>15, <1>16, <1>17, <1>18, <1>19, <1>20, <1>21, <1>22, <1>23, <1>24, <1>25 DEF Next, SyncStep, LoginStep, StreamStep, SwapStep, UserStep

\* The flags and counters of sync.ts are what TypeOK says, and a second sync is
\* owed only to one in flight, whatever the answers of the server and the
\* order the blobs land in.
THEOREM TypeCorrect == Spec => []TypeOK
  <1>1. TypeOK /\ [Next]_vars => TypeOK'
    BY StepFlagsOK, StepStagesOK, StepCountsOK, StepOwedInFlight DEF TypeOK
  <1> QED BY InitTypeOK, <1>1, PTL DEF Spec

\* What OfflineMeansRetrying rests on: the loop is only off on a paused device or
\* during a switch, and no stream is open while the status says offline.
StreamIInv == /\ sse = "off" => paused \/ swap # "off"
              /\ status = "offline" => sse # "open"

\* Every handler that reports "offline" also takes the stream down (reportFailure, sync.ts:114-122).
LEMMA StepStream == StreamIInv /\ [Next]_vars => StreamIInv'
  <1> SUFFICES ASSUME StreamIInv, [Next]_vars PROVE StreamIInv'
    OBVIOUS
  <1> USE DEF StreamIInv, run, login, owed, device, world
  <1>1. CASE RunPulls
    BY <1>1 DEF RunPulls, RunFails
  <1>2. CASE RunMerges
    BY <1>2 DEF RunMerges, RunFails, RunSucceeds
  <1>3. CASE RunExports
    BY <1>3 DEF RunExports, RunFails
  <1>4. CASE RunUploads
    BY <1>4 DEF RunUploads, RunFails, RunSucceeds
  <1>5. CASE HoldEnds
    BY <1>5 DEF HoldEnds, AwaitingServer
  <1>6. CASE LoginPulls
    BY <1>6 DEF LoginPulls, LoginFails
  <1>7. CASE LoginMerges
    BY <1>7 DEF LoginMerges, LoginFails
  <1>8. CASE LoginExports
    BY <1>8 DEF LoginExports, LoginFails
  <1>9. CASE LoginUploads
    BY <1>9 DEF LoginUploads, LoginFails
  <1>10. CASE StreamOpens
    BY <1>10 DEF StreamOpens, StartLogin, SyncInBackground, SyncNow
  <1>11. CASE StreamLost
    BY <1>11 DEF StreamLost
  <1>12. CASE StreamEnds
    BY <1>12 DEF StreamEnds
  <1>13. CASE Retry
    BY <1>13 DEF Retry
  <1>14. CASE RemotePush
    BY <1>14 DEF RemotePush, SyncNow
  <1>15. CASE SwapStarts
    BY <1>15 DEF SwapStarts
  <1>16. CASE SwapHalts
    BY <1>16 DEF SwapHalts
  <1>17. CASE SwapFails
    BY <1>17 DEF SwapFails
  <1>18. CASE TimerFires
    BY <1>18 DEF TimerFires, SyncInBackground, SyncNow
  <1>19. CASE Edit
    BY <1>19 DEF Edit
  <1>20. CASE UserSync
    BY <1>20 DEF UserSync, SyncNow
  <1>21. CASE Pause
    BY <1>21 DEF Pause
  <1>22. CASE Unpause
    BY <1>22 DEF Unpause, StartLogin
  <1>23. CASE Restart
    BY <1>23 DEF Restart
  <1>24. CASE ServerFlips
    BY <1>24 DEF ServerFlips
  <1>25. CASE UNCHANGED vars
    BY <1>25 DEF vars
  <1> QED BY <1>1, <1>2, <1>3, <1>4, <1>5, <1>6, <1>7, <1>8, <1>9, <1>10, <1>11, <1>12, <1>13, <1>14, <1>15, <1>16, <1>17, <1>18, <1>19, <1>20, <1>21, <1>22, <1>23, <1>24, <1>25 DEF Next, SyncStep, LoginStep, StreamStep, SwapStep, UserStep

\* While "offline" is shown on a device that syncs, the stream is on its way to try
\* again, whatever the server answers: a deferred push does not wait for nothing.
THEOREM OfflineRetries == Spec => []OfflineMeansRetrying
  <1>1. Init => StreamIInv
    BY DEF Init, StreamIInv
  <1>2. TypeOK /\ StreamIInv => OfflineMeansRetrying
    BY DEF TypeOK, StagesOK, StreamIInv, OfflineMeansRetrying
  <1> QED BY <1>1, <1>2, StepStream, TypeCorrect, PTL DEF Spec

\* No blob is on its way when the app is launched, and the launch sync or the
\* pause answers for the edits made before.
LEMMA InitAccounted == Init => PutsNotOlder /\ EditAccounted
  BY Zenon DEF Init, PutsNotOlder, Puts, EditAccounted, LoginCarries

\* No upload on its way is older than the blob the server has, as long as uploads
\* land in the order they were exported; failed switches change nothing in that.
THEOREM PutsInOrder == ~OverlappingPuts /\ Spec => []PutsNotOlder
  <1>1. TypeOK => CountsOK
    BY DEF TypeOK
  <1>2. ~OverlappingPuts => []~OverlappingPuts
    <2>1. ~OverlappingPuts => (~OverlappingPuts)'
      OBVIOUS
    <2> QED BY <2>1, PTL
  <1> QED BY <1>1, <1>2, InitAccounted, StepPutsNotOlder, TypeCorrect, PTL DEF Spec

\* An edit the server lacks is on the timer, owed, or carried by a sync: it is
\* never forgotten while the session lives and blobs land in order (syncNow,
\* syncOnLogin, scheduleSync, sync.ts:728-1043).
THEOREM EditsAccounted == ~OverlappingPuts /\ Spec => []EditAccounted
  <1>1. ~OverlappingPuts => []~OverlappingPuts
    <2>1. ~OverlappingPuts => (~OverlappingPuts)'
      OBVIOUS
    <2> QED BY <2>1, PTL
  <1> QED BY <1>1, InitAccounted, StepEditAccounted, PutsInOrder, TypeCorrect, PTL DEF Spec
=============================================================================
