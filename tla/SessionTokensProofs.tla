------------------------ MODULE SessionTokensProofs ------------------------
(***************************************************************************)
(* Proofs about the token pair (SessionTokens), for any number of callers  *)
(* and sessions: variables stay well formed, the notice is up only while   *)
(* it is true, nothing is remembered against a session that is honoured,   *)
(* and an undisturbed request is not told that the session expired when it *)
(* has not.                                                                *)
(***************************************************************************)
EXTENDS SessionTokens, TLAPS

Busy == {"read", "posted", "answered", "checked", "storing"}

\* Only the unlock page's own question is under way while it is up.
LockedIsQuiet == locked => \A c \in Callers : At(c, "idle") \/ call[c].quiet

\* What a caller has read, and been told, of the session it asks about.
AsksOfIssued == \A c \in Callers : call[c].at \in Busy => call[c].tok \in 1..issued
NewIsIssued  == adopt.at # "off" => adopt.new \in 1..issued
Refused      == \A c \in Callers :
                  call[c].at \in {"answered", "checked"} /\ ~call[c].ok => call[c].tok \notin live

\* No adoption touches a call that is still calm, so what it read has not changed.
CalmIsAlone  == \A c \in Callers : call[c].calm => adopt.at = "off"
CalmReadsRt  == \A c \in Callers :
                  call[c].calm /\ call[c].at \in {"read", "posted", "answered", "checked"} =>
                    /\ call[c].tok = rt
                    /\ At(c, "checked") => call[c].same

\* A caller that found the pair unchanged acts before an adoption is complete.
SameIsRt     == \A c \in Callers :
                  At(c, "checked") /\ call[c].same => call[c].tok = rt \/ adopt.at = "clear"

\* What TypeOK says of the variables other than the calls.
Plain ==
  /\ issued \in Sessions /\ live \subseteq 1..issued
  /\ jwt \in 1..issued /\ rt \in 1..issued
  /\ revoked \in BOOLEAN /\ toast \in BOOLEAN /\ telling \subseteq Callers
  /\ locked \in BOOLEAN
  /\ adopt \in [at : {"off", "jwt", "rt", "clear"}, new : 0..MaxSessions]
  /\ locked => telling = {} /\ ~toast
  /\ NewIsIssued

TypeInv == TypeOK /\ LockedIsQuiet /\ AsksOfIssued /\ NewIsIssued
CallInv == Refused /\ CalmIsAlone /\ CalmReadsRt

\* The calls stay calls, whatever a step writes to one of them or to all.
LEMMA NoCallIsCall == NoCall \in Calls
  BY TokensAssumption DEF NoCall, Calls, Stages

LEMMA NoAdoptionIsTyped ==
  /\ NoAdoption \in [at : {"off", "jwt", "rt", "clear"}, new : 0..MaxSessions]
  /\ NoAdoption.at = "off"
  BY TokensAssumption DEF NoAdoption

LEMMA ReturnsCalls ==
  ASSUME NEW f \in [Callers -> Calls], NEW c \in Callers
  PROVE  [f EXCEPT ![c] = NoCall] \in [Callers -> Calls]
  BY NoCallIsCall

LEMMA GoesCalls ==
  ASSUME NEW f \in [Callers -> Calls], NEW c \in Callers, NEW w \in Stages
  PROVE  [f EXCEPT ![c].at = w] \in [Callers -> Calls]
  BY DEF Calls

LEMMA InitInv == Init => TypeInv /\ CallInv /\ SameIsRt /\ RevokedMeansEnded /\ ToastMeansRevoked
  <1> SUFFICES ASSUME Init PROVE TypeInv /\ CallInv /\ SameIsRt /\ RevokedMeansEnded /\ ToastMeansRevoked
    OBVIOUS
  <1> USE TokensAssumption DEF Init
  <1>2. TypeOK
    <2>1. call \in [Callers -> Calls]
      BY NoCallIsCall
    <2>2. adopt \in [at : {"off", "jwt", "rt", "clear"}, new : 0..MaxSessions]
      BY NoAdoptionIsTyped
    <2>3. issued \in Sessions /\ live \subseteq 1..issued /\ jwt \in 1..issued /\ rt \in 1..issued
      BY SMT DEF Sessions
    <2>4. /\ revoked \in BOOLEAN /\ toast \in BOOLEAN /\ telling \subseteq Callers
          /\ locked \in BOOLEAN /\ (locked => telling = {} /\ ~toast)
      BY Zenon
    <2> QED BY <2>1, <2>2, <2>3, <2>4 DEF TypeOK
  <1> QED BY <1>2 DEF TypeInv, NoCall, NoAdoption, LockedIsQuiet, At, AsksOfIssued, NewIsIssued, Busy,
     CallInv, Refused, CalmIsAlone, CalmReadsRt, SameIsRt, RevokedMeansEnded, ToastMeansRevoked

LEMMA StepCalls == TypeInv /\ [Next]_vars => call' \in [Callers -> Calls]
  <1> SUFFICES ASSUME TypeInv, [Next]_vars PROVE call' \in [Callers -> Calls]
    OBVIOUS
  <1>0. call \in [Callers -> Calls] /\ rt \in 0..MaxSessions
    BY TokensAssumption DEF TypeInv, TypeOK, Sessions
  <1>18. \A c \in Callers : Returns(c) => call' \in [Callers -> Calls]
    BY <1>0, ReturnsCalls DEF Returns
  <1>19. \A c \in Callers : \A w \in {"idle", "asks", "read", "posted", "answered", "checked", "storing"} :
           Goes(c, w) => call' \in [Callers -> Calls]
    <2> SUFFICES ASSUME NEW c \in Callers, NEW w \in Stages, Goes(c, w) PROVE call' \in [Callers -> Calls]
      BY DEF Stages
    <2>1. [call EXCEPT ![c].at = w] \in [Callers -> Calls]
      BY <1>0, GoesCalls
    <2> QED BY <2>1 DEF Goes
  <1>20. \A c \in Callers : \A q \in BOOLEAN : Starts(c, q) => call' \in [Callers -> Calls]
    <2> SUFFICES ASSUME NEW c \in Callers, NEW q \in BOOLEAN, Starts(c, q)
                 PROVE  call' \in [Callers -> Calls]
      OBVIOUS
    <2> DEFINE alone == adopt.at = "off"
    <2>1. alone \in BOOLEAN
      OBVIOUS
    <2>2. call' = [call EXCEPT ![c] = [NoCall EXCEPT !.at = "asks", !.quiet = q, !.calm = alone]]
      BY DEF Starts
    <2> HIDE DEF alone
    <2>3. [NoCall EXCEPT !.at = "asks", !.quiet = q, !.calm = alone] \in Calls
      <3>1. [NoCall EXCEPT !.at = "asks"] \in Calls
        <4>1. \A r \in Calls : [r EXCEPT !.at = "asks"] \in Calls
          BY DEF Calls, Stages
        <4> QED BY <4>1, NoCallIsCall
      <3>2. \A r \in Calls : [r EXCEPT !.quiet = q] \in Calls
        BY DEF Calls
      <3>3. \A r \in Calls : [r EXCEPT !.calm = alone] \in Calls
        BY <2>1 DEF Calls
      <3> QED BY <3>1, <3>2, <3>3
    <2> QED BY <1>0, <2>2, <2>3
  <1>1. ASSUME NEW c \in Callers, Fetch(c) PROVE call' \in [Callers -> Calls]
    BY <1>1, <1>20 DEF Fetch
  <1>2. ASSUME NEW c \in Callers, Unlock(c) PROVE call' \in [Callers -> Calls]
    BY <1>2, <1>20 DEF Unlock
  <1>3. ASSUME NEW c \in Callers, Reads(c) PROVE call' \in [Callers -> Calls]
    BY <1>0, <1>3 DEF Reads, Calls, Stages
  <1>4. ASSUME NEW c \in Callers, Posts(c) PROVE call' \in [Callers -> Calls]
    BY <1>4, <1>18, <1>19 DEF Posts
  <1>5. ASSUME NEW c \in Callers, ServerAnswers(c) PROVE call' \in [Callers -> Calls]
    <2> DEFINE honoured == call[c].tok \in live
    <2>1. honoured \in BOOLEAN
      OBVIOUS
    <2>2. \/ call' = [call EXCEPT ![c].at = "answered", ![c].ok = honoured]
          \/ Returns(c)
      BY <1>5 DEF ServerAnswers
    <2> HIDE DEF honoured
    <2> QED BY <1>0, <2>1, <2>2, <1>18 DEF Calls, Stages
  <1>6. ASSUME NEW c \in Callers, Rereads(c) PROVE call' \in [Callers -> Calls]
    <2> DEFINE kept == rt = call[c].tok
    <2>1. kept \in BOOLEAN
      OBVIOUS
    <2>2. call' = [call EXCEPT ![c].at = "checked", ![c].same = kept]
      BY <1>6 DEF Rereads
    <2> HIDE DEF kept
    <2> QED BY <1>0, <2>1, <2>2 DEF Calls, Stages
  <1>7. ASSUME NEW c \in Callers, Acts(c) PROVE call' \in [Callers -> Calls]
    <2>1. Returns(c) \/ Goes(c, "storing") \/ Goes(c, "asks")
      BY <1>7 DEF Acts
    <2> QED BY <2>1, <1>18, <1>19
  <1>8. ASSUME NEW c \in Callers, Stores(c) PROVE call' \in [Callers -> Calls]
    BY <1>8, <1>18 DEF Stores
  <1>9. ASSUME NEW c \in Callers, Tells(c) PROVE call' \in [Callers -> Calls]
    BY <1>0, <1>9 DEF Tells
  <1>10. CASE SignIn \/ Rotate
    <2>1. call' = [c \in Callers |-> [call[c] EXCEPT !.calm = FALSE]]
      BY <1>10 DEF SignIn, Rotate, Issues
    <2> QED BY <1>0, <2>1 DEF Calls
  <1>12. CASE AdoptsJwt
    BY <1>0, <1>12 DEF AdoptsJwt
  <1>13. CASE AdoptsRefreshToken
    BY <1>0, <1>13 DEF AdoptsRefreshToken
  <1>14. CASE Clears
    BY <1>0, <1>14 DEF Clears
  <1>15. CASE Restart
    BY <1>0, <1>15, NoCallIsCall DEF Restart
  <1>16. ASSUME NEW s \in Sessions, ServerEnds(s) PROVE call' \in [Callers -> Calls]
    BY <1>0, <1>16 DEF ServerEnds
  <1>17. CASE UNCHANGED vars
    BY <1>0, <1>17 DEF vars
  <1> QED BY <1>1, <1>2, <1>3, <1>4, <1>5, <1>6, <1>7, <1>8, <1>9, <1>10, <1>12, <1>13, <1>14, <1>15,
             <1>16, <1>17 DEF Next, CallStep, AdoptStep

LEMMA StepPlain == TypeInv /\ [Next]_vars => Plain'
  <1> SUFFICES ASSUME TypeInv, [Next]_vars PROVE Plain'
    OBVIOUS
  <1> USE TokensAssumption DEF TypeInv, TypeOK, Plain, Sessions, LockedIsQuiet, At,
        AsksOfIssued, NewIsIssued, Busy, server, keys, told
  <1>1. ASSUME NEW c \in Callers, Fetch(c) PROVE Plain'
    BY <1>1 DEF Fetch, Starts
  <1>2. ASSUME NEW c \in Callers, Unlock(c) PROVE Plain'
    BY <1>2 DEF Unlock, Starts
  <1>3. ASSUME NEW c \in Callers, Reads(c) PROVE Plain'
    BY <1>3 DEF Reads
  <1>4. ASSUME NEW c \in Callers, Posts(c) PROVE Plain'
    BY <1>4 DEF Posts
  <1>5. ASSUME NEW c \in Callers, ServerAnswers(c) PROVE Plain'
    BY <1>5 DEF ServerAnswers
  <1>6. ASSUME NEW c \in Callers, Rereads(c) PROVE Plain'
    BY <1>6 DEF Rereads
  <1>7. ASSUME NEW c \in Callers, Acts(c) PROVE Plain'
    BY <1>7 DEF Acts
  <1>8. ASSUME NEW c \in Callers, Stores(c) PROVE Plain'
    BY <1>8 DEF Stores
  <1>9. ASSUME NEW c \in Callers, Tells(c) PROVE Plain'
    BY <1>9 DEF Tells
  <1>10. CASE SignIn
    BY <1>10 DEF SignIn, Issues
  <1>11. CASE Rotate
    BY <1>11 DEF Rotate, Issues
  <1>12. CASE AdoptsJwt
    BY <1>12 DEF AdoptsJwt
  <1>13. CASE AdoptsRefreshToken
    BY <1>13 DEF AdoptsRefreshToken
  <1>14. CASE Clears
    BY <1>14, NoAdoptionIsTyped DEF Clears
  <1>15. CASE Restart
    BY <1>15, NoAdoptionIsTyped DEF Restart
  <1>16. ASSUME NEW s \in Sessions, ServerEnds(s) PROVE Plain'
    BY <1>16 DEF ServerEnds
  <1>17. CASE UNCHANGED vars
    BY <1>17 DEF vars
  <1> QED BY <1>1, <1>2, <1>3, <1>4, <1>5, <1>6, <1>7, <1>8, <1>9, <1>10, <1>11, <1>12, <1>13, <1>14, <1>15,
             <1>16, <1>17 DEF Next, CallStep, AdoptStep

LEMMA StepAsks == TypeInv /\ [Next]_vars => LockedIsQuiet' /\ AsksOfIssued'
  <1> SUFFICES ASSUME TypeInv, [Next]_vars PROVE LockedIsQuiet' /\ AsksOfIssued'
    OBVIOUS
  <1> USE TokensAssumption DEF TypeInv, TypeOK, Calls, Sessions, NoCall, LockedIsQuiet, At,
        Goes, Returns, AsksOfIssued, Busy, server, keys, told
  <1>1. ASSUME NEW c \in Callers, Fetch(c) PROVE LockedIsQuiet' /\ AsksOfIssued'
    BY <1>1 DEF Fetch, Starts
  <1>2. ASSUME NEW c \in Callers, Unlock(c) PROVE LockedIsQuiet' /\ AsksOfIssued'
    BY <1>2 DEF Unlock, Starts
  <1>3. ASSUME NEW c \in Callers, Reads(c) PROVE LockedIsQuiet' /\ AsksOfIssued'
    BY <1>3 DEF Reads
  <1>4. ASSUME NEW c \in Callers, Posts(c) PROVE LockedIsQuiet' /\ AsksOfIssued'
    BY <1>4 DEF Posts
  <1>5. ASSUME NEW c \in Callers, ServerAnswers(c) PROVE LockedIsQuiet' /\ AsksOfIssued'
    BY <1>5 DEF ServerAnswers
  <1>6. ASSUME NEW c \in Callers, Rereads(c) PROVE LockedIsQuiet' /\ AsksOfIssued'
    BY <1>6 DEF Rereads
  <1>7. ASSUME NEW c \in Callers, Acts(c) PROVE LockedIsQuiet' /\ AsksOfIssued'
    BY <1>7 DEF Acts
  <1>8. ASSUME NEW c \in Callers, Stores(c) PROVE LockedIsQuiet' /\ AsksOfIssued'
    BY <1>8 DEF Stores
  <1>9. ASSUME NEW c \in Callers, Tells(c) PROVE LockedIsQuiet' /\ AsksOfIssued'
    BY <1>9 DEF Tells
  <1>10. CASE SignIn
    BY <1>10 DEF SignIn, Issues
  <1>11. CASE Rotate
    BY <1>11 DEF Rotate, Issues
  <1>12. CASE AdoptsJwt
    BY <1>12 DEF AdoptsJwt
  <1>13. CASE AdoptsRefreshToken
    BY <1>13 DEF AdoptsRefreshToken
  <1>14. CASE Clears
    <2>1. ~locked' /\ call' = call /\ issued' = issued
      BY <1>14 DEF Clears
    <2> QED BY <2>1
  <1>15. CASE Restart
    <2>1. \A c \in Callers : call'[c].at = "idle"
      BY <1>15 DEF Restart
    <2> QED BY <2>1
  <1>16. ASSUME NEW s \in Sessions, ServerEnds(s) PROVE LockedIsQuiet' /\ AsksOfIssued'
    BY <1>16 DEF ServerEnds
  <1>17. CASE UNCHANGED vars
    BY <1>17 DEF vars
  <1> QED BY <1>1, <1>2, <1>3, <1>4, <1>5, <1>6, <1>7, <1>8, <1>9, <1>10, <1>11, <1>12, <1>13, <1>14, <1>15,
             <1>16, <1>17 DEF Next, CallStep, AdoptStep

LEMMA StepType == TypeInv /\ [Next]_vars => TypeInv'
  BY StepCalls, StepPlain, StepAsks DEF TypeInv, TypeOK, Plain

LEMMA StepCall == TypeInv /\ CallInv /\ [Next]_vars => CallInv'
  <1> SUFFICES ASSUME TypeInv, CallInv, [Next]_vars PROVE CallInv'
    OBVIOUS
  <1> USE TokensAssumption DEF CallInv, Refused, CalmIsAlone, CalmReadsRt, TypeInv, TypeOK, Calls, Sessions,
        NoCall, NoAdoption, At, Goes, Returns, AsksOfIssued, Busy, server, keys, told
  <1>1. ASSUME NEW c \in Callers, Fetch(c) PROVE CallInv'
    BY <1>1 DEF Fetch, Starts
  <1>2. ASSUME NEW c \in Callers, Unlock(c) PROVE CallInv'
    BY <1>2 DEF Unlock, Starts
  <1>3. ASSUME NEW c \in Callers, Reads(c) PROVE CallInv'
    BY <1>3 DEF Reads
  <1>4. ASSUME NEW c \in Callers, Posts(c) PROVE CallInv'
    BY <1>4 DEF Posts
  <1>5. ASSUME NEW c \in Callers, ServerAnswers(c) PROVE CallInv'
    BY <1>5 DEF ServerAnswers
  <1>6. ASSUME NEW c \in Callers, Rereads(c) PROVE CallInv'
    BY <1>6 DEF Rereads
  <1>7. ASSUME NEW c \in Callers, Acts(c) PROVE CallInv'
    BY <1>7 DEF Acts
  <1>8. ASSUME NEW c \in Callers, Stores(c) PROVE CallInv'
    BY <1>8 DEF Stores
  <1>9. ASSUME NEW c \in Callers, Tells(c) PROVE CallInv'
    BY <1>9 DEF Tells
  <1>10. CASE SignIn
    BY <1>10 DEF SignIn, Issues
  <1>11. CASE Rotate
    BY <1>11 DEF Rotate, Issues
  <1>12. CASE AdoptsJwt
    BY <1>12 DEF AdoptsJwt
  <1>13. CASE AdoptsRefreshToken
    BY <1>13 DEF AdoptsRefreshToken
  <1>14. CASE Clears
    BY <1>14 DEF Clears
  <1>15. CASE Restart
    BY <1>15 DEF Restart
  <1>16. ASSUME NEW s \in Sessions, ServerEnds(s) PROVE CallInv'
    BY <1>16 DEF ServerEnds
  <1>17. CASE UNCHANGED vars
    BY <1>17 DEF vars
  <1> QED BY <1>1, <1>2, <1>3, <1>4, <1>5, <1>6, <1>7, <1>8, <1>9, <1>10, <1>11, <1>12, <1>13, <1>14, <1>15,
             <1>16, <1>17 DEF Next, CallStep, AdoptStep

\* A revocation is remembered by a caller whose session was refused and still is the
\* stored one; only a complete adoption makes another one the stored one, and clears it.
LEMMA StepRevoked ==
  KeysInOrder /\ TypeInv /\ CallInv /\ SameIsRt /\ RevokedMeansEnded /\ [Next]_vars =>
    SameIsRt' /\ RevokedMeansEnded'
  <1> SUFFICES ASSUME KeysInOrder, TypeInv, CallInv, SameIsRt, RevokedMeansEnded, [Next]_vars
               PROVE SameIsRt' /\ RevokedMeansEnded'
    OBVIOUS
  <1> USE TokensAssumption DEF SameIsRt, RevokedMeansEnded, CallInv, Refused, TypeInv, TypeOK, Calls, Sessions,
        NoCall, NoAdoption, At, Goes, Returns, server, keys, told
  <1>1. ASSUME NEW c \in Callers, Fetch(c) PROVE SameIsRt' /\ RevokedMeansEnded'
    BY <1>1 DEF Fetch, Starts
  <1>2. ASSUME NEW c \in Callers, Unlock(c) PROVE SameIsRt' /\ RevokedMeansEnded'
    BY <1>2 DEF Unlock, Starts
  <1>3. ASSUME NEW c \in Callers, Reads(c) PROVE SameIsRt' /\ RevokedMeansEnded'
    BY <1>3 DEF Reads
  <1>4. ASSUME NEW c \in Callers, Posts(c) PROVE SameIsRt' /\ RevokedMeansEnded'
    BY <1>4 DEF Posts
  <1>5. ASSUME NEW c \in Callers, ServerAnswers(c) PROVE SameIsRt' /\ RevokedMeansEnded'
    BY <1>5 DEF ServerAnswers
  <1>6. ASSUME NEW c \in Callers, Rereads(c) PROVE SameIsRt' /\ RevokedMeansEnded'
    BY <1>6 DEF Rereads
  <1>7. ASSUME NEW c \in Callers, Acts(c) PROVE SameIsRt' /\ RevokedMeansEnded'
    BY <1>7 DEF Acts
  <1>8. ASSUME NEW c \in Callers, Stores(c) PROVE SameIsRt' /\ RevokedMeansEnded'
    BY <1>8 DEF Stores
  <1>9. ASSUME NEW c \in Callers, Tells(c) PROVE SameIsRt' /\ RevokedMeansEnded'
    BY <1>9 DEF Tells
  <1>10. CASE SignIn
    BY <1>10 DEF SignIn, Issues
  <1>11. CASE Rotate
    BY <1>11 DEF Rotate, Issues
  <1>12. CASE AdoptsJwt
    BY <1>12 DEF AdoptsJwt
  <1>13. CASE AdoptsRefreshToken
    BY <1>13 DEF AdoptsRefreshToken
  <1>14. CASE Clears
    BY <1>14 DEF Clears
  <1>15. CASE Restart
    BY <1>15 DEF Restart
  <1>16. ASSUME NEW s \in Sessions, ServerEnds(s) PROVE SameIsRt' /\ RevokedMeansEnded'
    BY <1>16 DEF ServerEnds
  <1>17. CASE UNCHANGED vars
    BY <1>17 DEF vars
  <1> QED BY <1>1, <1>2, <1>3, <1>4, <1>5, <1>6, <1>7, <1>8, <1>9, <1>10, <1>11, <1>12, <1>13, <1>14, <1>15,
             <1>16, <1>17 DEF Next, CallStep, AdoptStep

LEMMA StepToast == TypeInv /\ ToastMeansRevoked /\ [Next]_vars => ToastMeansRevoked'
  BY DEF ToastMeansRevoked, TypeInv, TypeOK, Next, vars, CallStep, AdoptStep, Fetch, Unlock, Starts, Reads,
     Posts, ServerAnswers, Rereads, Acts, Stores, Tells, SignIn, Rotate, Issues, AdoptsJwt,
     AdoptsRefreshToken, Clears, Restart, ServerEnds, server, keys, told

\* The keychain, the flags and the calls are well formed, and the unlock page shows no
\* notice (authTokens.ts, account.ts sessionStillHonoured).
THEOREM TypeCorrect == Spec => []TypeOK
  <1>1. TypeInv => TypeOK
    BY DEF TypeInv
  <1> QED BY <1>1, InitInv, StepType, PTL DEF Spec

\* The notice "sign in again" is up only while the session is known to be revoked.
THEOREM ToastIsTrue == Spec => []ToastMeansRevoked
  <1>1. Spec => []TypeInv
    BY InitInv, StepType, PTL DEF Spec
  <1> QED BY <1>1, InitInv, StepToast, PTL DEF Spec

LEMMA Invariant == KeysInOrder /\ Spec => [](TypeInv /\ CallInv /\ RevokedMeansEnded)
  <1>1. KeysInOrder => []KeysInOrder
    <2>1. KeysInOrder => KeysInOrder'
      OBVIOUS
    <2> QED BY <2>1, PTL
  <1>2. Spec => [](TypeInv /\ CallInv)
    BY InitInv, StepType, StepCall, PTL DEF Spec
  <1> QED BY <1>1, <1>2, InitInv, StepRevoked, PTL DEF Spec

\* refreshAccessToken remembers a revocation only of the session in the keychain, and
\* an adoption ends with it forgotten, if keychain answers come in order.
THEOREM RevokedOnlyIfEnded == KeysInOrder /\ Spec => []RevokedMeansEnded
  BY Invariant, PTL

\* A request that no adoption disturbed is told that the session expired only if it
\* has, if keychain answers come in order.
THEOREM ExpiredOnlyIfEnded == KeysInOrder /\ Spec => ExpiredMeansEnded
  <1> DEFINE Told(c) == /\ call[c].at \in {"read", "checked"}
                        /\ call'[c].at = "idle" /\ call[c].calm
                        => rt \notin live \/ Restart
  <1>1. TypeInv /\ CallInv /\ RevokedMeansEnded /\ [Next]_vars => \A c \in Callers : Told(c)
    <2> SUFFICES ASSUME TypeInv, CallInv, RevokedMeansEnded, [Next]_vars,
                        NEW c \in Callers, call[c].at \in {"read", "checked"},
                        call'[c].at = "idle", call[c].calm, ~Restart
                 PROVE  rt \notin live
      OBVIOUS
    <2> USE DEF TypeInv, TypeOK, Calls, CallInv, Refused, CalmIsAlone, CalmReadsRt, RevokedMeansEnded, At, Goes,
          Returns, NoCall, Sessions
    <2>1. adopt.at = "off" /\ call[c].tok = rt /\ (At(c, "checked") => call[c].same)
      OBVIOUS
    <2>2. ASSUME NEW d \in Callers, d # c, CallStep(d) \/ Tells(d) \/ Fetch(d) \/ Unlock(d)
          PROVE  FALSE
      BY <2>2 DEF CallStep, Reads, Posts, ServerAnswers, Rereads, Acts, Stores, Tells, Fetch, Unlock, Starts
    <2>3. CASE Posts(c)
      BY <2>1, <2>3 DEF Posts
    <2>4. CASE Acts(c)
      BY <2>1, <2>4 DEF Acts
    <2>5. ASSUME Reads(c) \/ ServerAnswers(c) \/ Rereads(c) \/ Stores(c) \/ Tells(c) \/ Fetch(c) \/ Unlock(c)
          PROVE  FALSE
      BY <2>5 DEF Reads, ServerAnswers, Rereads, Stores, Tells, Fetch, Unlock, Starts
    <2>6. ASSUME AdoptStep \/ SignIn \/ Rotate \/ (\E s \in Sessions : ServerEnds(s)) \/ UNCHANGED vars
          PROVE  FALSE
      BY <2>6 DEF AdoptStep, AdoptsJwt, AdoptsRefreshToken, Clears, SignIn, Rotate, Issues, ServerEnds, vars
    <2> QED BY <2>2, <2>3, <2>4, <2>5, <2>6 DEF Next, CallStep
  <1>2. (\A c \in Callers : Told(c)) <=>
          (\A c \in Callers :
             /\ call[c].at \in {"read", "checked"}
             /\ call'[c].at = "idle" /\ call[c].calm
             => rt \notin live \/ Restart)
    OBVIOUS
  <1> QED BY <1>1, <1>2, Invariant, PTL DEF Spec, ExpiredMeansEnded
=============================================================================
