--------------------------- MODULE SessionTokens ---------------------------
(***************************************************************************)
(* The token pair of a cloud session: src/services/authTokens.ts refreshes *)
(* the access token, authFetch.ts sends requests with it, and              *)
(* adoptSessionTokens of account.ts replaces the pair while either is      *)
(* under way.  Every keychain read and write is an await of its own.       *)
(*                                                                         *)
(* A token is known by the session it belongs to; the server is external.  *)
(***************************************************************************)
EXTENDS Naturals

CONSTANTS Callers,       \* requests and refreshes that may be under way
          MaxSessions,   \* sessions the server issues (bound)
          KeysInOrder    \* a keychain read is answered before a later write is

ASSUME TokensAssumption == MaxSessions \in Nat \ {0} /\ KeysInOrder \in BOOLEAN

VARIABLES
  live,      \* the sessions the server honours
  issued,    \* how many it has issued
  jwt,       \* keychain: the session of the access token
  rt,        \* keychain: the session of the refresh token
  revoked,   \* authTokens.ts revoked
  toast,     \* revokedToast is up
  telling,   \* announceSessionRevoked waiting for its imports, by caller
  locked,    \* the unlock page is up
  call,      \* what each caller is doing
  adopt      \* adoptSessionTokens: its stage and the new session

server == <<live, issued>>
keys   == <<jwt, rt>>
told   == <<revoked, toast, telling>>
vars   == <<server, keys, told, locked, call, adopt>>

Sessions == 1..MaxSessions
NoCall   == [at |-> "idle", quiet |-> FALSE, tok |-> 0,
             ok |-> FALSE, same |-> FALSE, calm |-> FALSE]
NoAdoption == [at |-> "off", new |-> 0]

\* A device signed in to one session, at the unlock page or past it.
Init ==
  /\ live = {1} /\ issued = 1
  /\ jwt = 1 /\ rt = 1
  /\ revoked = FALSE /\ toast = FALSE /\ telling = {}
  /\ locked \in BOOLEAN
  /\ call = [c \in Callers |-> NoCall]   \* calm: no adoption has touched the call
  /\ adopt = NoAdoption

At(c, where) == call[c].at = where
Goes(c, where) == call' = [call EXCEPT ![c].at = where]
Returns(c) == call' = [call EXCEPT ![c] = NoCall]

(***************************************************************************)
(* fetchAuth                                                               *)
(***************************************************************************)
Starts(c, quiet) ==
  /\ At(c, "idle")
  /\ call' = [call EXCEPT ![c] = [NoCall EXCEPT !.at = "asks", !.quiet = quiet,
                                               !.calm = (adopt.at = "off")]]
  /\ UNCHANGED <<server, keys, told, locked, adopt>>

\* A request that is answered with the stored token changes nothing.  It asks for a
\* refresh when that token has run out or the answer is a 401, and so do
\* token_invalidated, a seat change and the settings page.
Fetch(c) == ~locked /\ Starts(c, FALSE)

(***************************************************************************)
(* refreshAccessToken                                                      *)
(***************************************************************************)

\* The refresh token is read,
Reads(c) ==
  /\ At(c, "asks")
  /\ call' = [call EXCEPT ![c].at = "read", ![c].tok = rt]
  /\ UNCHANGED <<server, keys, told, locked, adopt>>

\* and posted, unless the session is known to be revoked.
Posts(c) ==
  /\ At(c, "read")
  /\ \/ ~revoked /\ Goes(c, "posted")
     \/ revoked /\ Returns(c)
  /\ UNCHANGED <<server, keys, told, locked, adopt>>

\* The server answers by the session, or not at all, or with an error of its own.
ServerAnswers(c) ==
  /\ At(c, "posted")
  /\ \/ call' = [call EXCEPT ![c].at = "answered", ![c].ok = (call[c].tok \in live)]
     \/ Returns(c)
  /\ UNCHANGED <<server, keys, told, locked, adopt>>

\* superseded(): the refresh token is read again;
Rereads(c) ==
  /\ At(c, "answered")
  /\ call' = [call EXCEPT ![c].at = "checked", ![c].same = (rt = call[c].tok)]
  /\ UNCHANGED <<server, keys, told, locked, adopt>>

ActsUnchecked(c) == \* mutant: a 401 is not compared with the pair adopted meanwhile
  /\ At(c, "checked")
  /\ \/ /\ call[c].ok
        /\ Goes(c, "storing")
        /\ UNCHANGED <<revoked, telling>>
     \/ /\ ~call[c].ok
        /\ revoked' = TRUE
        /\ telling' = (IF call[c].quiet THEN telling ELSE telling \union {c})
        /\ Returns(c)
  /\ UNCHANGED <<server, keys, toast, locked, adopt>>

ActsAloud(c) == \* mutant: quiet is forgotten
  /\ At(c, "checked") /\ ~call[c].ok
  /\ revoked' = TRUE /\ telling' = telling \union {c}
  /\ Returns(c)
  /\ UNCHANGED <<server, keys, toast, locked, adopt>>

ActsQuietly(c) == \* mutant: every caller is quiet
  /\ At(c, "checked") /\ ~call[c].ok
  /\ revoked' = TRUE
  /\ Returns(c)
  /\ UNCHANGED <<server, keys, toast, telling, locked, adopt>>

\* a pair adopted meanwhile supersedes the answer: a 401 starts over and a new
\* access token is dropped.  Else the token is stored, or the session is revoked.
Acts(c) ==
  /\ At(c, "checked")
  /\ \/ call[c].ok /\ ~call[c].same /\ Returns(c) /\ UNCHANGED <<revoked, telling>>
     \/ call[c].ok /\ call[c].same /\ Goes(c, "storing") /\ UNCHANGED <<revoked, telling>>
     \/ ~call[c].ok /\ ~call[c].same /\ Goes(c, "asks") /\ UNCHANGED <<revoked, telling>>
     \/ /\ ~call[c].ok /\ call[c].same
        /\ revoked' = TRUE
        /\ telling' = (IF call[c].quiet THEN telling ELSE telling \union {c})
        /\ Returns(c)
  /\ UNCHANGED <<server, keys, toast, locked, adopt>>

\* The write of the access token.  A request then goes out once more, and its answer is
\* returned whatever it is.
Stores(c) ==
  /\ At(c, "storing")
  /\ jwt' = call[c].tok
  /\ Returns(c)
  /\ locked' = (locked /\ ~call[c].quiet)
  /\ UNCHANGED <<server, rt, told, adopt>>

TellsAnyway(c) == \* mutant: the state is not looked at after the imports
  /\ c \in telling
  /\ telling' = telling \ {c}
  /\ toast' = TRUE
  /\ UNCHANGED <<server, keys, revoked, locked, call, adopt>>

\* announceSessionRevoked, once its imports are there.
Tells(c) ==
  /\ c \in telling
  /\ telling' = telling \ {c}
  /\ toast' = (toast \/ revoked)
  /\ UNCHANGED <<server, keys, revoked, locked, call, adopt>>

(***************************************************************************)
(* New pairs                                                               *)
(***************************************************************************)

\* The server has issued a session and answered; the adoption begins.
Issues ==
  /\ adopt.at = "off" /\ issued < MaxSessions
  /\ issued' = issued + 1
  /\ adopt' = [at |-> "jwt", new |-> issued']
  /\ call' = [c \in Callers |-> [call[c] EXCEPT !.calm = FALSE]]
  /\ UNCHANGED <<keys, told, locked>>

\* Signing in leaves other sessions alone.
SignIn ==
  /\ locked => \A c \in Callers : At(c, "idle")
  /\ Issues /\ live' = live \union {issued'}

\* A changed password or second factor ends every other session, this device's
\* old one included.  It is asked for with the stored access token.
Rotate == ~locked /\ jwt \in live /\ Issues /\ live' = {issued'}

AdoptsJwt ==
  /\ adopt.at = "jwt"
  /\ jwt' = adopt.new
  /\ adopt' = [adopt EXCEPT !.at = "rt"]
  /\ UNCHANGED <<server, rt, told, locked, call>>

AdoptsRefreshToken ==
  /\ adopt.at = "rt"
  /\ rt' = adopt.new
  /\ adopt' = [adopt EXCEPT !.at = "clear"]
  /\ UNCHANGED <<server, jwt, told, locked, call>>

ClearsNothing == \* mutant: the adoption does not clear the revocation
  /\ adopt.at = "clear"
  /\ KeysInOrder => \A c \in Callers : ~At(c, "checked")
  /\ locked' = FALSE
  /\ adopt' = NoAdoption
  /\ UNCHANGED <<server, keys, told, call>>

\* clearSessionRevoked, when the last write is answered.
Clears ==
  /\ adopt.at = "clear"
  /\ KeysInOrder => \A c \in Callers : ~At(c, "checked")
  /\ revoked' = FALSE /\ toast' = FALSE
  /\ locked' = FALSE
  /\ adopt' = NoAdoption
  /\ UNCHANGED <<server, keys, telling, call>>

\* The unlock page asks quietly whether the session is still honoured; a sign-in
\* follows if it is not.
Unlock(c) ==
  /\ locked /\ adopt.at = "off"
  /\ \A d \in Callers : At(d, "idle")
  /\ Starts(c, TRUE)

(***************************************************************************)
(* The world                                                               *)
(***************************************************************************)
\* The session is ended elsewhere.
ServerEnds(s) ==
  /\ s \in live
  /\ live' = live \ {s}
  /\ UNCHANGED <<issued, keys, told, locked, call, adopt>>

\* The window reloads, possibly between two writes of an adoption.
Restart ==
  /\ revoked' = FALSE /\ toast' = FALSE /\ telling' = {}
  /\ locked' \in BOOLEAN
  /\ call' = [c \in Callers |-> NoCall]
  /\ adopt' = NoAdoption
  /\ UNCHANGED <<server, keys>>

CallStep(c) ==
  \/ Reads(c) \/ Posts(c) \/ ServerAnswers(c)
  \/ Rereads(c) \/ Acts(c) \/ Stores(c)
AdoptStep == AdoptsJwt \/ AdoptsRefreshToken \/ Clears

Next ==
  \/ \E c \in Callers :
       CallStep(c) \/ Tells(c) \/ Fetch(c) \/ Unlock(c)
  \/ AdoptStep \/ SignIn \/ Rotate
  \/ Restart
  \/ \E s \in Sessions : ServerEnds(s)

Spec == Init /\ [][Next]_vars

\* Awaits settle; users, the server and reloads are free.
Fairness == /\ \A c \in Callers : WF_vars(CallStep(c)) /\ WF_vars(Tells(c))
            /\ WF_vars(AdoptStep)
FairSpec == Spec /\ Fairness

(***************************************************************************)
(* Properties                                                              *)
(***************************************************************************)
Stages == {"idle", "asks", "read", "posted", "answered", "checked", "storing"}
Calls  == [at : Stages, quiet : BOOLEAN, tok : 0..MaxSessions,
           ok : BOOLEAN, same : BOOLEAN, calm : BOOLEAN]

\* Variables are well formed, and the unlock page shows no notice of a revocation: a
\* caller about to sign in by itself asks quietly.
TypeOK ==
  /\ issued \in Sessions /\ live \subseteq 1..issued
  /\ jwt \in 1..issued /\ rt \in 1..issued
  /\ revoked \in BOOLEAN /\ toast \in BOOLEAN /\ telling \subseteq Callers
  /\ locked \in BOOLEAN
  /\ call \in [Callers -> Calls]
  /\ adopt \in [at : {"off", "jwt", "rt", "clear"}, new : 0..MaxSessions]
  /\ locked => telling = {} /\ ~toast

\* "A 401 means the server ended this session; it is remembered": nothing is
\* remembered against a session that is honoured, once its adoption is complete.
RevokedMeansEnded == revoked /\ adopt.at # "clear" => rt \notin live

\* The notice that asks the user to sign in again is up only while it is true.
ToastMeansRevoked == toast => revoked

\* A request that neither an adoption nor the network disturbed is told that the session
\* expired only if it has: no earlier race, lost answer or reload is still felt.
ExpiredMeansEnded ==
  [][\A c \in Callers :
       /\ call[c].at \in {"read", "checked"}
       /\ call'[c].at = "idle" /\ call[c].calm
       => rt \notin live \/ Restart]_vars

\* "The user is told once": a revocation met past the unlock page is shown, or is over.
RevokedIsTold == revoked /\ ~locked ~> toast \/ ~revoked \/ locked
=============================================================================
