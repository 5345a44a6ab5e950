--------------------------- MODULE SessionsDouble ---------------------------
(***************************************************************************)
(* identitytest.Store, the in-memory repository that the unit tests of the *)
(* service run on, beside the Postgres repository: each write of a request *)
(* reaches both.                                                           *)
(*                                                                         *)
(* A token of the double carries a copy of its family's revocation, where  *)
(* Postgres joins the family's row to it.                                  *)
(***************************************************************************)
EXTENDS AppSession

VARIABLES
  dSession,  \* s.sessions: whether the session is there, and its RevokedAt
  dFamily,   \* s.families
  dToken     \* s.tokens, as RefreshTokenByHash returns them

double == <<dSession, dFamily, dToken>>

Unstored == [stored |-> FALSE, expires |-> 0, overlapUntil |-> Never,
             familyRevoked |-> Never, why |-> "none"]

DoubleInit ==
  /\ AppInit
  /\ dSession = [there |-> FALSE, revoked |-> Never]
  /\ dFamily = [there |-> FALSE, revoked |-> Never, why |-> "none"]
  /\ dToken = [t \in Token |-> Unstored]

-----------------------------------------------------------------------------
dCreateSession ==
  /\ dSession' = [dSession EXCEPT !.there = TRUE]
  /\ UNCHANGED <<dFamily, dToken>>

dCreateFamily ==
  /\ dFamily' = [dFamily EXCEPT !.there = TRUE]
  /\ UNCHANGED <<dSession, dToken>>

\* Mutant: a token of a revoked family is stored as if the family were in force.
dInsertRefreshToken_WithoutFamily(t, at) ==
  /\ dToken' = IF dFamily.there
               THEN [dToken EXCEPT ![t] =
                       [Unstored EXCEPT !.stored = TRUE, !.expires = at + RefreshTokenTTL]]
               ELSE dToken
  /\ UNCHANGED <<dSession, dFamily>>

\* A token of a family that is not there is dropped, and nobody told.
dInsertRefreshToken(t, at) ==
  /\ dToken' = IF dFamily.there
               THEN [dToken EXCEPT ![t] =
                       [stored |-> TRUE, expires |-> at + RefreshTokenTTL, overlapUntil |-> Never,
                        familyRevoked |-> dFamily.revoked, why |-> dFamily.why]]
               ELSE dToken
  /\ UNCHANGED <<dSession, dFamily>>

dRotates(t) == dToken[t].stored /\ dToken[t].overlapUntil = Never

dMarkRotated(t, at) ==
  /\ dToken' = IF dRotates(t) THEN [dToken EXCEPT ![t].overlapUntil = at + OverlapWindow]
               ELSE dToken
  /\ UNCHANGED <<dSession, dFamily>>

propagateRevocationLocked(family) ==
  dToken' = [t \in Token |->
    IF dToken[t].stored
    THEN [dToken[t] EXCEPT !.familyRevoked = family.revoked, !.why = family.why]
    ELSE dToken[t]]

RevokedFor(why, at) ==
  IF dFamily.revoked = Never THEN [dFamily EXCEPT !.revoked = at, !.why = why] ELSE dFamily

Revokes(family) == dFamily' = family /\ propagateRevocationLocked(family)

dRevokeFamily(why, at) ==
  /\ Revokes(RevokedFor(why, at))
  /\ UNCHANGED dSession

\* A family that is revoked already keeps its copies as they are.
dRevokeSession(why, at) ==
  /\ dSession' = [dSession EXCEPT !.revoked = First(@, at)]
  /\ IF dFamily.revoked = Never THEN Revokes(RevokedFor(why, at))
     ELSE UNCHANGED <<dFamily, dToken>>

-----------------------------------------------------------------------------
(* Both stores under one service: whenever a request writes, it writes to  *)
(* both, with the same arguments.                                          *)

Reason(r) == IF req[r].op = "logout" THEN "logout" ELSE "reuse_detected"

Writes(r) ==
  \/ CreateSession(r) /\ dCreateSession
  \/ CreateFamily(r) /\ dCreateFamily
  \/ InsertRefreshToken(r) /\ dInsertRefreshToken(generation', req[r].at)
  \/ MarkRotated(r) /\ dMarkRotated(req[r].token, req[r].at)
  \/ RevokeFamily(r) /\ dRevokeFamily("reuse_detected", req[r].at)
  \/ RevokeSession(r) /\ dRevokeSession(Reason(r), req[r].at)

Writing ==
  \E r \in Request :
    \/ CreateSession(r) \/ CreateFamily(r) \/ InsertRefreshToken(r)
    \/ MarkRotated(r) \/ RevokeFamily(r) \/ RevokeSession(r)

DoubleNext ==
  /\ AppNext
  /\ \/ \E r \in Request : Writes(r)
     \/ ~Writing /\ UNCHANGED double

DoubleSpec == DoubleInit /\ [][DoubleNext]_<<sessionVars, appVars, double>>

-----------------------------------------------------------------------------
(* What the service is answered, by either.                                *)

\* The token's row and its family's, joined.
RefreshTokenByHash(t) ==
  [Unstored EXCEPT !.stored = TRUE, !.expires = issuedAt[t] + RefreshTokenTTL,
     !.overlapUntil = overlapUntil[t], !.familyRevoked = familyRevoked, !.why = reason]

dRefreshTokenByHash(t) == dToken[t]

SessionByID == [there |-> session \in {"row", "family"}, revoked |-> sessionRevoked]

dSessionByID == dSession

\* identitytest ("the denormalised copy has to be kept in step, or
\* EvaluateRefresh would never see RefreshFamilyRevoked"): at every moment of
\* racing refreshes, logouts and failures the double would answer
\* RefreshTokenByHash, SessionByID and MarkRotated as Postgres would.
DoubleAnswersAlike ==
  /\ dSessionByID = SessionByID
  /\ \A t \in Token :
       /\ dRefreshTokenByHash(t).stored <=> t \in 1..generation
       /\ t \in 1..generation => dRefreshTokenByHash(t) = RefreshTokenByHash(t)
       /\ dRotates(t) <=> t \in Current
=============================================================================
