------------------------------ MODULE Sessions ------------------------------
(***************************************************************************)
(* identity.Service over its Postgres tables (service.go, refresh.go,      *)
(* postgres.go), for one session: login opens a session and a family of    *)
(* refresh tokens, refresh rotates the family's token, logout and reuse    *)
(* revoke.                                                                 *)
(*                                                                         *)
(* A request reads the clock once, when it begins, and then runs one query *)
(* or transaction per step; requests interleave between them, and each may *)
(* end early, with an error or without an answer.  Tokens are numbered in  *)
(* the order they are stored.                                              *)
(***************************************************************************)
EXTENDS Naturals, FiniteSets

CONSTANTS
  Request,          \* handler goroutines
  OverlapWindow,    \* 10 s in the code, here in ticks
  RefreshTokenTTL,  \* 60 days in the code
  MaxToken,         \* bound: refresh tokens ever stored
  MaxTime,          \* bound: ticks
  Never             \* NULL in a timestamp column

ASSUME SessionsAssumption ==
  /\ OverlapWindow \in Nat /\ RefreshTokenTTL \in Nat
  /\ MaxToken \in Nat /\ MaxTime \in Nat
  /\ Never \notin Nat

VARIABLES
  now,             \* the clock
  session,         \* how much of the session is stored: its row, its family
  sessionRevoked,  \* sessions.revoked_at
  familyRevoked,   \* refresh_token_families.revoked_at
  reason,          \* refresh_token_families.revoked_reason
  generation,      \* the refresh tokens stored so far: 1..generation
  issuedAt,        \* refresh_tokens.issued_at; expires_at is a TTL later
  overlapUntil,    \* valid_until_overlap, set together with rotated_at
  handed,          \* tokens that have left the server in an answer
  req              \* the local variables of each request

rowVars == <<session, sessionRevoked, familyRevoked, reason>>
tokenVars == <<generation, issuedAt, overlapUntil>>
sessionVars == <<now, rowVars, tokenVars, handed, req>>

Token == 1..MaxToken
Instant == Nat \cup {Never}

\* `after` is history: the family had been revoked when the request began.
NoRequest == [pc |-> "idle", op |-> "none", token |-> 0, at |-> 0, fresh |-> 0,
              reply |-> "none", after |-> FALSE]

Init ==
  /\ now = 0
  /\ session = "none" /\ sessionRevoked = Never
  /\ familyRevoked = Never /\ reason = "none"
  /\ generation = 0
  /\ issuedAt = [t \in Token |-> 0]
  /\ overlapUntil = [t \in Token |-> Never]
  /\ handed = {}
  /\ req = [r \in Request |-> NoRequest]

-----------------------------------------------------------------------------
(* EvaluateRefresh, over the row of a stored token and its family.         *)

Revoked(at) == familyRevoked # Never /\ at >= familyRevoked
Expired(t, at) == at > issuedAt[t] + RefreshTokenTTL

\* Mutant: a token is looked at before its family.
Evaluate_RotationFirst(t, at) ==
  CASE overlapUntil[t] = Never -> "rotate"
    [] overlapUntil[t] # Never /\ (Revoked(at) \/ Expired(t, at)) -> "rejected"
    [] OTHER -> IF at <= overlapUntil[t] THEN "replay" ELSE "reuse"

Evaluate(t, at) ==
  IF Revoked(at) \/ Expired(t, at) THEN "rejected"
  ELSE IF overlapUntil[t] = Never THEN "rotate"
  ELSE IF at <= overlapUntil[t] THEN "replay" ELSE "reuse"

-----------------------------------------------------------------------------
(* A request begins.                                                       *)

Begin(r, op, pc, t) ==
  /\ req[r].pc = "idle"
  /\ req' = [req EXCEPT ![r] = [NoRequest EXCEPT
       !.pc = pc, !.op = op, !.token = t, !.at = now, !.after = familyRevoked # Never]]

\* Login, once the password has been verified; also the end of Register.
BeginLogin(r) ==
  /\ session = "none"
  /\ session' = "begun"
  /\ Begin(r, "login", "create_session", 0)
  /\ UNCHANGED <<now, sessionRevoked, familyRevoked, reason, tokenVars, handed>>

BeginRefresh(r, t) ==
  /\ Begin(r, "refresh", "load", t)
  /\ UNCHANGED <<now, rowVars, tokenVars, handed>>

\* RequireAuth has let the request through: its session is live.
BeginLogout(r) ==
  /\ handed # {} /\ sessionRevoked = Never
  /\ Begin(r, "logout", "revoke_session", 0)
  /\ UNCHANGED <<now, rowVars, tokenVars, handed>>

-----------------------------------------------------------------------------
(* Its queries, in order.                                                  *)

At(r, pc) == req[r].pc = pc
Goes(r, pc) == req' = [req EXCEPT ![r].pc = pc]
Replies(r, reply) == req' = [req EXCEPT ![r].pc = "answer", ![r].reply = reply]

CreateSession(r) ==
  /\ At(r, "create_session")
  /\ session' = "row"
  /\ Goes(r, "create_family")
  /\ UNCHANGED <<now, sessionRevoked, familyRevoked, reason, tokenVars, handed>>

CreateFamily(r) ==
  /\ At(r, "create_family")
  /\ session' = "family"
  /\ Goes(r, "insert")
  /\ UNCHANGED <<now, sessionRevoked, familyRevoked, reason, tokenVars, handed>>

\* RefreshTokenByHash reads the token and its family together.
Load(r) ==
  /\ At(r, "load")
  /\ LET outcome == Evaluate(req[r].token, req[r].at) IN
       \/ outcome = "rotate" /\ Goes(r, "mark")
       \/ outcome = "replay" /\ Goes(r, "check")
       \/ outcome = "reuse" /\ Goes(r, "revoke_family")
       \/ outcome = "rejected" /\ Replies(r, "rejected")
  /\ UNCHANGED <<now, rowVars, tokenVars, handed>>

\* Mutant: without "rotated_at IS NULL" both of two racing requests win.
MarkRotated_Unconditional(r) ==
  /\ At(r, "mark")
  /\ overlapUntil' = [overlapUntil EXCEPT ![req[r].token] = req[r].at + OverlapWindow]
  /\ Goes(r, "insert")
  /\ UNCHANGED <<now, rowVars, generation, issuedAt, handed>>

\* One UPDATE decides which of two racing requests rotates the token; the
\* other is served as a replay.
MarkRotated(r) ==
  /\ At(r, "mark")
  /\ \/ /\ overlapUntil[req[r].token] = Never
        /\ overlapUntil' = [overlapUntil EXCEPT ![req[r].token] = req[r].at + OverlapWindow]
        /\ Goes(r, "insert")
     \/ /\ overlapUntil[req[r].token] # Never
        /\ Goes(r, "check")
        /\ UNCHANGED overlapUntil
  /\ UNCHANGED <<now, rowVars, generation, issuedAt, handed>>

\* The successor, or the first token of a login, which is then answered.
InsertRefreshToken(r) ==
  /\ At(r, "insert")
  /\ generation < MaxToken
  /\ generation' = generation + 1
  /\ issuedAt' = [issuedAt EXCEPT ![generation + 1] = req[r].at]
  /\ req' = [req EXCEPT
       ![r].fresh = generation + 1,
       ![r].pc = IF req[r].op = "login" THEN "answer" ELSE "check",
       ![r].reply = IF req[r].op = "login" THEN "pair" ELSE @]
  /\ UNCHANGED <<now, rowVars, overlapUntil, handed>>

\* issueForExistingFamily: a revoked session is refused, whatever the token.
CheckSession(r) ==
  /\ At(r, "check")
  /\ Replies(r, IF sessionRevoked = Never THEN "pair" ELSE "rejected")
  /\ UNCHANGED <<now, rowVars, tokenVars, handed>>

First(old, new) == IF old = Never THEN new ELSE old

RevokeFamily(r) ==
  /\ At(r, "revoke_family")
  /\ familyRevoked' = First(familyRevoked, req[r].at)
  /\ reason' = IF reason = "none" THEN "reuse_detected" ELSE reason
  /\ Goes(r, "revoke_session")
  /\ UNCHANGED <<now, session, sessionRevoked, tokenVars, handed>>

\* Mutant: the families are left to expire.
RevokeSession_KeepsFamilies(r) ==
  /\ At(r, "revoke_session")
  /\ sessionRevoked' = First(sessionRevoked, req[r].at)
  /\ Replies(r, IF req[r].op = "logout" THEN "done" ELSE "rejected")
  /\ UNCHANGED <<now, session, familyRevoked, reason, tokenVars, handed>>

\* One transaction over the session and its family.
RevokeSession(r) ==
  /\ At(r, "revoke_session")
  /\ sessionRevoked' = First(sessionRevoked, req[r].at)
  /\ familyRevoked' = First(familyRevoked, req[r].at)
  /\ reason' = IF familyRevoked # Never THEN reason
               ELSE IF req[r].op = "logout" THEN "logout" ELSE "reuse_detected"
  /\ Replies(r, IF req[r].op = "logout" THEN "done" ELSE "rejected")
  /\ UNCHANGED <<now, session, tokenVars, handed>>

\* A query fails, or the request is cancelled: 500.
Fails(r) ==
  /\ req[r].pc \notin {"idle", "answer"}
  /\ req' = [req EXCEPT ![r].pc = "answer", ![r].reply = "error", ![r].fresh = 0]
  /\ UNCHANGED <<now, rowVars, tokenVars, handed>>

\* The answer arrives, with the new refresh token if there is one.
Respond(r) ==
  /\ At(r, "answer")
  /\ handed' = IF req[r].reply = "pair" /\ req[r].fresh # 0
               THEN handed \cup {req[r].fresh} ELSE handed
  /\ req' = [req EXCEPT ![r] = NoRequest]
  /\ UNCHANGED <<now, rowVars, tokenVars>>

\* It does not: the process, the connection or the client is gone.
Lose(r) ==
  /\ ~At(r, "idle")
  /\ req' = [req EXCEPT ![r] = NoRequest]
  /\ UNCHANGED <<now, rowVars, tokenVars, handed>>

Tick ==
  /\ now < MaxTime
  /\ now' = now + 1
  /\ UNCHANGED <<rowVars, tokenVars, handed, req>>

Start(r) == BeginLogin(r) \/ (\E t \in handed : BeginRefresh(r, t)) \/ BeginLogout(r)

Query(r) ==
  \/ CreateSession(r) \/ CreateFamily(r) \/ Load(r) \/ MarkRotated(r)
  \/ InsertRefreshToken(r) \/ CheckSession(r) \/ RevokeFamily(r) \/ RevokeSession(r)
  \/ Fails(r)

Next == Tick \/ \E r \in Request : Start(r) \/ Query(r) \/ Respond(r) \/ Lose(r)

Spec == Init /\ [][Next]_sessionVars

-----------------------------------------------------------------------------
RequestOK ==
  [pc : {"idle", "create_session", "create_family", "load", "mark", "insert", "check",
         "revoke_family", "revoke_session", "answer"},
   op : {"none", "login", "refresh", "logout"},
   token : 0..MaxToken, at : Nat, fresh : 0..MaxToken,
   reply : {"none", "pair", "rejected", "done", "error"}, after : BOOLEAN]

TypeOK ==
  /\ now \in Nat
  /\ session \in {"none", "begun", "row", "family"}
  /\ sessionRevoked \in Instant /\ familyRevoked \in Instant
  /\ reason \in {"none", "logout", "reuse_detected"}
  /\ generation \in 0..MaxToken
  /\ issuedAt \in [Token -> Nat]
  /\ overlapUntil \in [Token -> Instant]
  /\ handed \subseteq 1..generation
  /\ req \in [Request -> RequestOK]

\* The tokens that would be rotated if presented.
Current == { t \in 1..generation : overlapUntil[t] = Never }

\* The requests that are about to store a token.
Minting == { r \in Request : req[r].pc \in {"create_session", "create_family", "insert"} }

\* postgres.go, MarkRotated: a family is never forked.  At most one of its
\* tokens can be rotated, however many requests race to rotate one.
OneCurrent == \A t, u \in Current : t = u

\* refresh.go, EvaluateRefresh ("a revoked family wins over everything") and
\* FR-4: a refresh that begins once the family is revoked gets nowhere: it
\* rotates nothing, stores no token and receives none, although the time of the
\* revocation is a clock that another request read at another moment.
LateIsRefused ==
  \A r \in Request : req[r].after /\ req[r].op = "refresh" =>
    /\ req[r].pc \in {"load", "answer"}
    /\ req[r].reply \in {"none", "rejected", "error"}

\* postgres.go, RevokeSession: no refresh token outlives the logout that was to
\* end it.
FamilyFollowsSession == sessionRevoked # Never => familyRevoked # Never

\* What a fork needs: two requests that mint, or one that mints beside a token.
OneBranch ==
  /\ OneCurrent
  /\ \A r, s \in Minting : r = s
  /\ Minting # {} => Current = {}
  /\ session = "none" => Minting = {} /\ generation = 0

\* Clocks read earlier are not ahead of the clock.
ClocksBehind ==
  /\ \A r \in Request : req[r].at <= now
  /\ sessionRevoked # Never => sessionRevoked <= now
  /\ familyRevoked # Never => familyRevoked <= now

\* A late request reads a clock that is not behind the family's revocation.
LateComesLater ==
  \A r \in Request : req[r].after => familyRevoked # Never /\ familyRevoked <= req[r].at

\* What a request goes by has been stored; only a refresh looks at tokens, and a
\* logout stores none.
HoldsItsOwn ==
  \A r \in Request :
    /\ req[r].pc \in {"load", "mark", "check", "revoke_family"} => req[r].op = "refresh"
    /\ req[r].pc \in {"create_session", "create_family"} => req[r].op = "login"
    /\ req[r].pc = "insert" => req[r].op \in {"login", "refresh"}
    /\ req[r].op = "refresh" => req[r].token \in 1..generation
    /\ req[r].fresh <= generation

IInv ==
  /\ TypeOK
  /\ OneBranch
  /\ LateIsRefused
  /\ FamilyFollowsSession
  /\ ClocksBehind
  /\ LateComesLater
  /\ HoldsItsOwn
=============================================================================
