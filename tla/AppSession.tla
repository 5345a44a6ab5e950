----------------------------- MODULE AppSession -----------------------------
(***************************************************************************)
(* The app's side of a session, over the server's (Sessions): the stored   *)
(* tokens (secure_token_store.dart), calls that meet an expired access     *)
(* token, the refresh they share (auth_interceptor.dart) and sign-out      *)
(* (auth_controller.dart).                                                 *)
(*                                                                         *)
(* Dart runs one event at a time, so a step is what runs between two       *)
(* awaits.  A token whose holder is not the app is presented too: Stolen.  *)
(***************************************************************************)
EXTENDS Sessions, Sequences

CONSTANTS
  Call,            \* requests that the app has under way
  AccessTokenTTL,  \* 15 minutes and the skew that Verify allows, here in ticks
  \* Whether Dio throws on a 401: it does in the client that the interceptor's
  \* test builds, and not in createApiClient ("validateStatus: (_) => true").
  ThrowsOn401

ASSUME AppAssumption == AccessTokenTTL \in Nat /\ ThrowsOn401 \in BOOLEAN

VARIABLES
  store,    \* the StoredSession: its refresh token, when its access token ends
  flight,   \* _inFlight, or the sign-in: the request whose answer is awaited
  call,
  mishap    \* history: what the app could not help, each hiding those before it

appVars == <<store, flight, call, mishap>>

SignedOut == [token |-> 0, expires |-> 0]
NoCall == [pc |-> "none", what |-> "api", expires |-> 0, replayed |-> FALSE]
Ended == {"none", "expired"}
Mishap == <<"none", "lost", "retried", "stolen">>
Rank(m) == CHOOSE i \in DOMAIN Mishap : Mishap[i] = m
Worse(m) == IF Rank(m) > Rank(mishap) THEN m ELSE mishap

AppInit ==
  /\ Init
  /\ store = SignedOut /\ flight = {} /\ mishap = "none"
  /\ call = [c \in Call |-> NoCall]

SignIn(r) ==
  /\ BeginLogin(r)
  /\ flight' = {r}
  /\ UNCHANGED <<store, call, mishap>>

-----------------------------------------------------------------------------
(* A call: the interceptor's onRequest, the server's RequireAuth, onError. *)

Send(c, what) ==
  /\ call[c].pc \in Ended
  /\ store # SignedOut
  /\ call' = [call EXCEPT ![c] =
       [pc |-> "sent", what |-> what, expires |-> store.expires, replayed |-> FALSE]]
  /\ UNCHANGED <<sessionVars, store, flight, mishap>>

\* signOut clears the store however its call ends.
AfterCalls(cs) == IF \E c \in cs : call[c].what = "logout" THEN SignedOut ELSE store
Ends(c, end) == call' = [call EXCEPT ![c] = end] /\ store' = AfterCalls({c})

\* Verify and the session check pass; a logout goes on to its own query.
Accepted(c) ==
  /\ call[c].pc = "sent"
  /\ now <= call[c].expires /\ sessionRevoked = Never
  /\ IF call[c].what = "api"
     THEN UNCHANGED sessionVars
     ELSE \E r \in Request : BeginLogout(r)
  /\ Ends(c, NoCall)
  /\ UNCHANGED <<flight, mishap>>

\* The network fails; or SESSION_REVOKED, which nothing refreshes.
Refused(c) ==
  /\ call[c].pc = "sent"
  /\ Ends(c, NoCall)
  /\ UNCHANGED <<sessionVars, flight, mishap>>

\* TOKEN_EXPIRED as the caller sees it: no error is thrown, or it was replayed.
SurfacesExpiry(c) ==
  /\ call[c].pc = "sent" /\ now > call[c].expires
  /\ ~ThrowsOn401 \/ call[c].replayed
  /\ Ends(c, [NoCall EXCEPT !.pc = "expired", !.replayed = call[c].replayed])
  /\ UNCHANGED <<sessionVars, flight, mishap>>

MeetsExpiry(c) ==
  /\ ThrowsOn401
  /\ call[c].pc = "sent" /\ now > call[c].expires /\ ~call[c].replayed

GoesOn(c, pc) == call' = [call EXCEPT ![c].pc = pc, ![c].expires = 0]

\* Mutant: every 401 refreshes for itself.
StartsRefresh_Each(c) ==
  /\ MeetsExpiry(c) /\ store # SignedOut
  /\ \E r \in Request : BeginRefresh(r, store.token) /\ flight' = flight \cup {r}
  /\ GoesOn(c, "waiting")
  /\ UNCHANGED <<store, mishap>>

\* _refreshOnce, with nothing in flight: refresh() posts the stored token.
StartsRefresh(c) ==
  /\ MeetsExpiry(c) /\ flight = {} /\ store # SignedOut
  /\ \E r \in Request : BeginRefresh(r, store.token) /\ flight' = {r}
  /\ GoesOn(c, "waiting")
  /\ UNCHANGED <<store, mishap>>

\* With a refresh in flight the call awaits its future; signed out, refresh()
\* is false at once.
JoinsRefresh(c) ==
  /\ MeetsExpiry(c)
  /\ \/ flight # {} /\ GoesOn(c, "waiting")
     \/ flight = {} /\ store = SignedOut /\ GoesOn(c, "rejected")
  /\ UNCHANGED <<sessionVars, store, flight, mishap>>

\* Replays with whatever is stored by then; with nothing, with the old header.
Replays(c) ==
  /\ call[c].pc = "refreshed"
  /\ call' = [call EXCEPT ![c].pc = "sent", ![c].replayed = TRUE,
       ![c].expires = IF store = SignedOut THEN @ ELSE store.expires]
  /\ UNCHANGED <<sessionVars, store, flight, mishap>>

\* onSessionRevoked clears the store.
GivesUpSession(c) ==
  /\ call[c].pc = "rejected"
  /\ call' = [call EXCEPT ![c] = NoCall]
  /\ store' = SignedOut
  /\ UNCHANGED <<sessionVars, flight, mishap>>

-----------------------------------------------------------------------------
(* The end of the refresh in flight.                                       *)

Waiting == { c \in Call : call[c].pc = "waiting" }
Wakes(pc) == call' = [c \in Call |-> IF c \in Waiting THEN [call[c] EXCEPT !.pc = pc] ELSE call[c]]

\* A 200 is saved over whatever is stored; without a refresh token in it, with
\* the token that was presented.
Receives(r) ==
  /\ r \in flight
  /\ Respond(r)
  /\ flight' = flight \ {r}
  /\ LET fresh == req[r].fresh IN
       \/ /\ req[r].reply = "pair"
          /\ store' = [token |-> IF fresh # 0 THEN fresh ELSE req[r].token,
                       expires |-> req[r].at + AccessTokenTTL]
          /\ mishap' = IF fresh # 0 THEN mishap ELSE Worse("retried")
          /\ Wakes("refreshed")
       \/ /\ req[r].reply # "pair"
          /\ mishap' = IF req[r].reply = "error" THEN Worse("lost") ELSE mishap
          /\ Wakes("rejected")
          /\ UNCHANGED store

\* A transport failure: the answer, or the app before it saved it, is lost; or
\* the app has waited long enough, while the server goes on.
Misses(r) ==
  /\ r \in flight
  /\ Lose(r) \/ UNCHANGED sessionVars
  /\ flight' = flight \ {r}
  /\ mishap' = Worse("lost")
  /\ call' = [c \in Call |-> IF c \in Waiting THEN NoCall ELSE call[c]]
  /\ store' = AfterCalls(Waiting)

\* A token that has left the server is presented by something else.
\* Bound: once in a behaviour (Sessions alone has no such bound).
Stolen(r, t) ==
  /\ mishap # "stolen"
  /\ BeginRefresh(r, t)
  /\ mishap' = "stolen"
  /\ UNCHANGED <<store, flight, call>>

\* The server's own steps, and the ends of requests that the app does not await.
Server(r) ==
  /\ Query(r) \/ (r \notin flight /\ (Respond(r) \/ Lose(r)))
  /\ UNCHANGED appVars

App(c) ==
  \/ Send(c, "api") \/ Send(c, "logout")
  \/ Accepted(c) \/ Refused(c) \/ SurfacesExpiry(c)
  \/ StartsRefresh(c) \/ JoinsRefresh(c) \/ Replays(c) \/ GivesUpSession(c)

AppNext ==
  \/ Tick /\ UNCHANGED appVars
  \/ \E c \in Call : App(c)
  \/ \E r \in Request :
       SignIn(r) \/ Receives(r) \/ Misses(r) \/ Server(r) \/ \E t \in handed : Stolen(r, t)

AppSpec == AppInit /\ [][AppNext]_<<sessionVars, appVars>>

-----------------------------------------------------------------------------
\* ADR-011 and auth_interceptor.dart ("VYBE randomly logs me out"): the app's
\* own calls, however many meet the expiry of one access token and in whatever
\* order, are not taken for a thief's.  If no answer was lost or failed and
\* nobody else presents a token, the family is never revoked for reuse, and
\* between two refreshes the app holds the token that the server would rotate.
KeepsItsSession ==
  mishap = "none" =>
    /\ reason # "reuse_detected"
    /\ flight = {} /\ store # SignedOut /\ sessionRevoked = Never => store.token \in Current

\* refresh.go, OverlapWindow, and service.go ("it is served rather than
\* punished. Without this, every flaky network logs the user out"): an app
\* whose refresh was lost and whose retry has been served is not punished.
RetryIsForgiven ==
  mishap = "retried" => reason # "reuse_detected"

\* spec.md EC-7 ("Silent refresh ... no visible interruption") and handler.go,
\* authProblem ("expiry means \"refresh and retry silently\""): the expiry of an
\* access token reaches no caller whose call has not been refreshed and replayed.
ExpiryIsSilent == \A c \in Call : call[c].pc = "expired" => call[c].replayed
=============================================================================
