--------------------------- MODULE SessionsProofs ---------------------------
(***************************************************************************)
(* Theorems about Sessions, for any number of requests and tokens and any  *)
(* windows, and about the app on top of it.                                *)
(***************************************************************************)
EXTENDS SessionsDouble, TLAPS

-----------------------------------------------------------------------------
(* The invariant, split into what it says of one request and of the rest.  *)

\* What a request may hold, given what is stored (g), the clock (n) and the
\* family's revocation (f).
InOrder(q, g, n, f) ==
  /\ q \in RequestOK
  /\ q.at <= n
  /\ q.after => f # Never /\ f <= q.at
  /\ q.after /\ q.op = "refresh" =>
       q.pc \in {"load", "answer"} /\ q.reply \in {"none", "rejected", "error"}
  /\ q.pc \in {"load", "mark", "check", "revoke_family"} => q.op = "refresh"
  /\ q.pc \in {"create_session", "create_family"} => q.op = "login"
  /\ q.pc = "insert" => q.op \in {"login", "refresh"}
  /\ q.op = "refresh" => q.token \in 1..g
  /\ q.fresh <= g

RequestsInOrder ==
  /\ req \in [Request -> RequestOK]
  /\ \A r \in Request : InOrder(req[r], generation, now, familyRevoked)

RowsInOrder ==
  /\ now \in Nat
  /\ session \in {"none", "begun", "row", "family"}
  /\ sessionRevoked \in Instant /\ familyRevoked \in Instant
  /\ reason \in {"none", "logout", "reuse_detected"}
  /\ generation \in 0..MaxToken
  /\ issuedAt \in [Token -> Nat]
  /\ overlapUntil \in [Token -> Instant]
  /\ handed \subseteq 1..generation
  /\ FamilyFollowsSession
  /\ sessionRevoked # Never => sessionRevoked <= now
  /\ familyRevoked # Never => familyRevoked <= now

LEMMA Parts == IInv <=> RequestsInOrder /\ RowsInOrder /\ OneBranch
<1>1. IInv => RequestsInOrder
  <2>1. SUFFICES ASSUME IInv PROVE RequestsInOrder
    OBVIOUS
  <2>2. req \in [Request -> RequestOK]  BY <2>1 DEF IInv, TypeOK
  <2>3. ASSUME NEW r \in Request  PROVE InOrder(req[r], generation, now, familyRevoked)
    BY <2>1, <2>2 DEF IInv, InOrder, LateIsRefused, ClocksBehind, LateComesLater, HoldsItsOwn
  <2>4. QED  BY <2>2, <2>3 DEF RequestsInOrder
<1>2. IInv => RowsInOrder /\ OneBranch
  BY DEF IInv, RowsInOrder, TypeOK, ClocksBehind
<1>3. RequestsInOrder /\ RowsInOrder => TypeOK
  BY DEF RequestsInOrder, RowsInOrder, TypeOK
<1>4. RequestsInOrder /\ RowsInOrder =>
        LateIsRefused /\ ClocksBehind /\ LateComesLater /\ HoldsItsOwn
  BY DEF RequestsInOrder, RowsInOrder, InOrder, LateIsRefused, ClocksBehind, LateComesLater,
         HoldsItsOwn
<1>5. QED  BY <1>1, <1>2, <1>3, <1>4 DEF IInv, RowsInOrder

\* What is stored and the clock only grow, and a revocation is never moved.
Grows ==
  /\ generation <= generation' /\ now <= now'
  /\ familyRevoked # Never => familyRevoked' = familyRevoked

\* One entry is replaced by one that is in order; the others stay in order.
Replaced(r, q) ==
  /\ InOrder(q, generation', now', familyRevoked')
  /\ req' = [req EXCEPT ![r] = q]

LEMMA StaysInOrder ==
  ASSUME NEW q, NEW g \in Nat, NEW h \in Nat, NEW n \in Nat, NEW m \in Nat, NEW f, NEW e,
         InOrder(q, g, n, f), g <= h, n <= m, f # Never => e = f
  PROVE  InOrder(q, h, m, e)
<1>1. q \in RequestOK /\ q.at <= n /\ q.fresh <= g  BY DEF InOrder
<1>2. q.at \in Nat /\ q.fresh \in Nat  BY <1>1, SessionsAssumption DEF RequestOK
<1>3. q.at <= m /\ q.fresh <= h  BY <1>1, <1>2
<1>4. q.op = "refresh" => q.token \in 1..h  BY DEF InOrder
<1>5. QED  BY <1>1, <1>3, <1>4 DEF InOrder

LEMMA ReplaceEntry ==
  ASSUME RequestsInOrder, RowsInOrder, RowsInOrder', Grows,
         NEW r \in Request, NEW q, Replaced(r, q)
  PROVE  RequestsInOrder'
<1>1. q \in RequestOK  BY DEF Replaced, InOrder
<1>2. req' \in [Request -> RequestOK]  BY <1>1 DEF RequestsInOrder, Replaced
<1>3. /\ generation \in Nat /\ generation' \in Nat /\ now \in Nat /\ now' \in Nat
  BY SessionsAssumption DEF RowsInOrder
<1>4. ASSUME NEW p \in Request
      PROVE  InOrder(req'[p], generation', now', familyRevoked')
  <2>1. CASE p = r  BY <2>1 DEF Replaced, RequestsInOrder
  <2>2. CASE p # r
    <3>1. req'[p] = req[p]  BY <2>2 DEF Replaced, RequestsInOrder
    <3>2. InOrder(req[p], generation, now, familyRevoked)  BY DEF RequestsInOrder
    <3>3. QED  BY <1>3, <3>1, <3>2, StaysInOrder DEF Grows
  <2>3. QED  BY <2>1, <2>2
<1>5. QED  BY <1>2, <1>4 DEF RequestsInOrder

-----------------------------------------------------------------------------
(* Every step replaces one entry, and leaves the rows in order.            *)

LEMMA NoRequestType ==
  NoRequest \in RequestOK /\ NoRequest.at = 0 /\ NoRequest.after = FALSE
  /\ NoRequest.pc = "idle" /\ NoRequest.op = "none" /\ NoRequest.fresh = 0
<1>1. 0 \in 0..MaxToken  BY SessionsAssumption
<1>2. QED  BY <1>1 DEF NoRequest, RequestOK

LEMMA BeginStep ==
  ASSUME RowsInOrder, RequestsInOrder, NEW r \in Request, NEW op, NEW pc, NEW t,
         Begin(r, op, pc, t), now' = now, generation' = generation,
         familyRevoked' = familyRevoked,
         op \in {"login", "refresh", "logout"},
         pc \in {"create_session", "load", "revoke_session"},
         pc = "load" <=> op = "refresh", pc = "create_session" => op = "login",
         op = "refresh" => t \in 1..generation,
         t \in 0..MaxToken
  PROVE  \E q : Replaced(r, q) /\ q.pc = pc
<1> DEFINE b == familyRevoked # Never
           q == [NoRequest EXCEPT !.pc = pc, !.op = op, !.token = t, !.at = now, !.after = b]
<1>1. now \in Nat /\ generation \in Nat  BY SessionsAssumption DEF RowsInOrder
<1>2. req' = [req EXCEPT ![r] = q]  BY DEF Begin
<1>3. b \in BOOLEAN  OBVIOUS
<1>4. b => familyRevoked # Never /\ familyRevoked <= now  BY DEF RowsInOrder
<1> HIDE DEF b
<1>5. q \in RequestOK  BY <1>1, <1>3, NoRequestType DEF RequestOK
<1>6. q.at = now /\ q.after = b /\ q.op = op /\ q.token = t
      /\ q.pc = pc /\ q.fresh = 0 /\ q.reply = "none"
  BY DEF NoRequest
<1> HIDE DEF q
<1>7. InOrder(q, generation', now', familyRevoked')
  BY <1>1, <1>4, <1>5, <1>6 DEF InOrder
<1>8. QED  BY <1>2, <1>6, <1>7 DEF Replaced

\* The request of a step that has begun.
LEMMA Entry ==
  ASSUME RequestsInOrder, RowsInOrder, NEW r \in Request
  PROVE  /\ req[r] \in RequestOK
         /\ InOrder(req[r], generation, now, familyRevoked)
         /\ req[r].at \in Nat /\ req[r].at <= now /\ now \in Nat
         /\ req[r].fresh \in Nat /\ generation \in Nat
  BY SessionsAssumption DEF RequestsInOrder, RowsInOrder, InOrder, RequestOK

LEMMA GoesStep ==
  ASSUME RequestsInOrder, RowsInOrder, NEW r \in Request, NEW pc, Goes(r, pc),
         now' = now, generation' = generation,
         familyRevoked # Never => familyRevoked' = familyRevoked,
         pc \in {"create_family", "mark", "check", "insert", "revoke_family", "revoke_session"},
         pc \in {"mark", "check", "revoke_family"} => req[r].op = "refresh",
         pc = "create_family" => req[r].op = "login",
         pc = "insert" => req[r].op \in {"login", "refresh"},
         ~(req[r].after /\ req[r].op = "refresh")
  PROVE  \E q : Replaced(r, q) /\ q.pc = pc
<1> DEFINE q == [req[r] EXCEPT !.pc = pc]
<1>1. q \in RequestOK  BY Entry DEF RequestOK
<1>2. q = [req[r] EXCEPT !.pc = pc] /\ q.pc = pc /\ q.op = req[r].op /\ q.at = req[r].at
      /\ q.token = req[r].token /\ q.fresh = req[r].fresh /\ q.after = req[r].after
  BY Entry DEF RequestOK
<1>3. req' = [req EXCEPT ![r] = q]  BY DEF Goes
<1> HIDE DEF q
<1>4. InOrder(q, generation', now', familyRevoked')
  BY <1>1, <1>2, Entry DEF InOrder
<1>5. QED  BY <1>2, <1>3, <1>4 DEF Replaced

LEMMA RepliesStep ==
  ASSUME RequestsInOrder, RowsInOrder, NEW r \in Request, NEW reply, Replies(r, reply),
         now' = now, generation' = generation,
         familyRevoked # Never => familyRevoked' = familyRevoked,
         reply \in {"pair", "rejected", "done"},
         req[r].after /\ req[r].op = "refresh" => reply = "rejected"
  PROVE  \E q : Replaced(r, q) /\ q.pc = "answer"
<1> DEFINE q == [req[r] EXCEPT !.pc = "answer", !.reply = reply]
<1>1. q \in RequestOK  BY Entry DEF RequestOK
<1>2. q.pc = "answer" /\ q.op = req[r].op /\ q.at = req[r].at /\ q.reply = reply
      /\ q.token = req[r].token /\ q.fresh = req[r].fresh /\ q.after = req[r].after
  BY Entry DEF RequestOK
<1>3. req' = [req EXCEPT ![r] = q]  BY DEF Replies
<1> HIDE DEF q
<1>4. InOrder(q, generation', now', familyRevoked')
  BY <1>1, <1>2, Entry DEF InOrder
<1>5. QED  BY <1>2, <1>3, <1>4 DEF Replaced

LEMMA DropStep ==
  ASSUME RowsInOrder, NEW r \in Request, req' = [req EXCEPT ![r] = NoRequest],
         now' = now, generation' = generation
  PROVE  \E q : Replaced(r, q) /\ q.pc = "idle"
<1>1. now \in Nat /\ generation \in Nat  BY SessionsAssumption DEF RowsInOrder
<1>2. InOrder(NoRequest, generation', now', familyRevoked')  BY <1>1, NoRequestType DEF InOrder
<1>3. QED  BY <1>2, NoRequestType DEF Replaced

\* A late refresh finds its family revoked by its own clock.
LEMMA LateIsRejected ==
  ASSUME RequestsInOrder, RowsInOrder, NEW r \in Request, req[r].after
  PROVE  Evaluate(req[r].token, req[r].at) = "rejected"
<1>1. familyRevoked # Never /\ familyRevoked <= req[r].at /\ req[r].at \in Nat
  BY Entry DEF InOrder
<1>2. familyRevoked \in Nat  BY <1>1 DEF RowsInOrder, Instant
<1>3. Revoked(req[r].at)  BY <1>1, <1>2 DEF Revoked
<1>4. QED  BY <1>3 DEF Evaluate

-----------------------------------------------------------------------------
(* The family never forks.                                                 *)

MintingPc == {"create_session", "create_family", "insert"}

\* A step that starts no minting and leaves no further token to rotate.
LEMMA KeepsBranch ==
  ASSUME OneBranch, RequestsInOrder, NEW r \in Request, NEW q,
         req' = [req EXCEPT ![r] = q],
         q.pc \in MintingPc => req[r].pc \in MintingPc,
         generation' = generation,
         \A t \in 1..generation : overlapUntil'[t] = Never => overlapUntil[t] = Never,
         session' = "none" => session = "none"
  PROVE  OneBranch'
<1>1. Minting' \subseteq Minting
  BY DEF Minting, MintingPc, RequestsInOrder
<1>2. Current' \subseteq Current  BY DEF Current
<1>3. QED  BY <1>1, <1>2 DEF OneBranch, OneCurrent

\* The request that wins the token takes the family's only one.
LEMMA RotationKeepsBranch ==
  ASSUME OneBranch, RowsInOrder, RequestsInOrder, NEW r \in Request, NEW q, NEW u,
         req' = [req EXCEPT ![r] = q], req[r].pc = "mark",
         overlapUntil[req[r].token] = Never, u # Never,
         overlapUntil' = [overlapUntil EXCEPT ![req[r].token] = u],
         generation' = generation, session' = session
  PROVE  OneBranch'
<1> DEFINE t == req[r].token
<1>1. t \in 1..generation  BY DEF RequestsInOrder, InOrder
<1>2. t \in Token  BY <1>1, SessionsAssumption DEF RowsInOrder, Token
<1>3. Current = {t}  BY <1>1 DEF Current, OneBranch, OneCurrent
<1>4. overlapUntil'[t] = u /\ \A s \in Token \ {t} : overlapUntil'[s] = overlapUntil[s]
  BY <1>2 DEF RowsInOrder
<1>5. Current' = {}
  <2>1. ASSUME NEW s \in 1..generation  PROVE s \in Token
    BY <2>1, SessionsAssumption DEF RowsInOrder, Token
  <2>2. QED  BY <1>3, <1>4, <2>1 DEF Current
<1>6. Minting = {}  BY <1>3 DEF OneBranch
<1>7. Minting' \subseteq {r}  BY <1>6 DEF Minting, RequestsInOrder
<1>8. session # "none"  BY <1>1, SessionsAssumption DEF OneBranch
<1>9. QED  BY <1>5, <1>7, <1>8 DEF OneBranch, OneCurrent

\* The only request that mints stores the only token to rotate.
LEMMA InsertionKeepsBranch ==
  ASSUME OneBranch, RowsInOrder, RequestsInOrder, NEW r \in Request, NEW q,
         req' = [req EXCEPT ![r] = q], req[r].pc = "insert", q.pc \notin MintingPc,
         generation' = generation + 1, overlapUntil' = overlapUntil, session' = session
  PROVE  OneBranch'
<1>1. generation \in Nat  BY SessionsAssumption DEF RowsInOrder
<1>2. r \in Minting  BY DEF Minting
<1>3. Current = {} /\ Minting = {r} /\ session # "none"  BY <1>2 DEF OneBranch
<1>4. Minting' = {}  BY <1>3 DEF Minting, MintingPc, RequestsInOrder
<1>5. Current' \subseteq {generation + 1}
  <2>1. ASSUME NEW t \in 1..generation + 1, t # generation + 1  PROVE t \in 1..generation
    BY <1>1, <2>1
  <2>2. QED  BY <1>3, <2>1 DEF Current
<1>6. QED  BY <1>3, <1>4, <1>5 DEF OneBranch, OneCurrent

-----------------------------------------------------------------------------
(* The actions, one by one.                                                *)

StepOK(r) == RowsInOrder' /\ Grows /\ OneBranch' /\ \E q : Replaced(r, q)

InvParts == RequestsInOrder /\ RowsInOrder /\ OneBranch

LEMMA RowsKept ==
  ASSUME RowsInOrder, UNCHANGED <<now, rowVars, tokenVars, handed>>
  PROVE  RowsInOrder' /\ Grows
<1>1. now \in Nat /\ generation \in Nat  BY SessionsAssumption DEF RowsInOrder
<1>2. Grows  BY <1>1 DEF Grows, rowVars, tokenVars
<1>3. QED  BY <1>2 DEF RowsInOrder, FamilyFollowsSession, rowVars, tokenVars

\* A step that changes no row.
LEMMA QuietStep ==
  ASSUME InvParts, NEW r \in Request, NEW q, Replaced(r, q),
         q.pc \in MintingPc => req[r].pc \in MintingPc,
         UNCHANGED <<now, rowVars, tokenVars, handed>>
  PROVE  StepOK(r)
<1>1. OneBranch'
  BY KeepsBranch DEF InvParts, Replaced, rowVars, tokenVars
<1>2. QED  BY <1>1, RowsKept DEF StepOK, InvParts

LEMMA LoginStep ==
  ASSUME InvParts, NEW r \in Request, BeginLogin(r)
  PROVE  StepOK(r)
<1>1. /\ session = "none" /\ session' = "begun" /\ Begin(r, "login", "create_session", 0)
      /\ now' = now /\ sessionRevoked' = sessionRevoked /\ familyRevoked' = familyRevoked
      /\ reason' = reason /\ generation' = generation /\ issuedAt' = issuedAt
      /\ overlapUntil' = overlapUntil /\ handed' = handed
  BY DEF BeginLogin, tokenVars
<1>2. 0 \in 0..MaxToken /\ now \in Nat /\ generation \in Nat
  BY SessionsAssumption DEF InvParts, RowsInOrder
<1>3. PICK q : Replaced(r, q)  BY <1>1, <1>2, BeginStep DEF InvParts
<1>4. RowsInOrder' /\ Grows
  BY <1>1, <1>2 DEF InvParts, RowsInOrder, FamilyFollowsSession, Grows
<1>5. OneBranch'
  <2>1. Minting = {} /\ generation = 0  BY <1>1 DEF InvParts, OneBranch
  <2>2. Current' = {}  BY <1>1, <2>1 DEF Current
  <2>3. Minting' \subseteq {r}
    BY <1>3, <2>1 DEF Minting, Replaced, InvParts, RequestsInOrder
  <2>4. QED  BY <1>1, <2>2, <2>3 DEF OneBranch, OneCurrent
<1>6. QED  BY <1>3, <1>4, <1>5 DEF StepOK

LEMMA RefreshStep ==
  ASSUME InvParts, NEW r \in Request, NEW t \in handed, BeginRefresh(r, t)
  PROVE  StepOK(r)
<1>1. t \in 1..generation /\ t \in 0..MaxToken
  BY SessionsAssumption DEF InvParts, RowsInOrder
<1>2. PICK q : Replaced(r, q) /\ q.pc = "load"
  BY <1>1, BeginStep DEF BeginRefresh, InvParts, rowVars, tokenVars
<1>3. QED  BY <1>2, QuietStep DEF BeginRefresh, MintingPc

LEMMA LogoutStep ==
  ASSUME InvParts, NEW r \in Request, BeginLogout(r)
  PROVE  StepOK(r)
<1>1. 0 \in 0..MaxToken  BY SessionsAssumption
<1>2. PICK q : Replaced(r, q) /\ q.pc = "revoke_session"
  BY <1>1, BeginStep DEF BeginLogout, InvParts, rowVars, tokenVars
<1>3. QED  BY <1>2, QuietStep DEF BeginLogout, MintingPc

\* A request that is past its load is not a late refresh.
LEMMA NotLate ==
  ASSUME RequestsInOrder, NEW r \in Request, req[r].pc \notin {"load", "answer"}
  PROVE  ~(req[r].after /\ req[r].op = "refresh")
  BY DEF RequestsInOrder, InOrder

LEMMA CreateSessionStep ==
  ASSUME InvParts, NEW r \in Request, CreateSession(r)
  PROVE  StepOK(r)
<1>1. /\ req[r].pc = "create_session" /\ session' = "row" /\ Goes(r, "create_family")
      /\ UNCHANGED <<now, sessionRevoked, familyRevoked, reason, tokenVars, handed>>
  BY DEF CreateSession, At
<1>2. PICK q : Replaced(r, q) /\ q.pc = "create_family"
  BY <1>1, GoesStep, NotLate, Entry DEF InvParts, InOrder, tokenVars
<1>3. now \in Nat /\ generation \in Nat
  BY SessionsAssumption DEF InvParts, RowsInOrder
<1>4. RowsInOrder' /\ Grows
  BY <1>1, <1>3 DEF InvParts, RowsInOrder, FamilyFollowsSession, Grows, tokenVars
<1>5. OneBranch'
  BY <1>1, <1>2, KeepsBranch DEF InvParts, Replaced, MintingPc, tokenVars
<1>6. QED  BY <1>2, <1>4, <1>5 DEF StepOK

LEMMA CreateFamilyStep ==
  ASSUME InvParts, NEW r \in Request, CreateFamily(r)
  PROVE  StepOK(r)
<1>1. /\ req[r].pc = "create_family" /\ session' = "family" /\ Goes(r, "insert")
      /\ UNCHANGED <<now, sessionRevoked, familyRevoked, reason, tokenVars, handed>>
  BY DEF CreateFamily, At
<1>2. PICK q : Replaced(r, q) /\ q.pc = "insert"
  BY <1>1, GoesStep, NotLate, Entry DEF InvParts, InOrder, tokenVars
<1>3. now \in Nat /\ generation \in Nat
  BY SessionsAssumption DEF InvParts, RowsInOrder
<1>4. RowsInOrder' /\ Grows
  BY <1>1, <1>3 DEF InvParts, RowsInOrder, FamilyFollowsSession, Grows, tokenVars
<1>5. OneBranch'
  BY <1>1, <1>2, KeepsBranch DEF InvParts, Replaced, MintingPc, tokenVars
<1>6. QED  BY <1>2, <1>4, <1>5 DEF StepOK

LEMMA LoadStep ==
  ASSUME InvParts, NEW r \in Request, Load(r)
  PROVE  StepOK(r)
<1> DEFINE outcome == Evaluate(req[r].token, req[r].at)
<1>1. /\ req[r].pc = "load" /\ UNCHANGED <<now, rowVars, tokenVars, handed>>
      /\ \/ outcome = "rotate" /\ Goes(r, "mark")
         \/ outcome = "replay" /\ Goes(r, "check")
         \/ outcome = "reuse" /\ Goes(r, "revoke_family")
         \/ outcome = "rejected" /\ Replies(r, "rejected")
  BY DEF Load, At
<1>2. req[r].op = "refresh"  BY <1>1, Entry DEF InvParts, InOrder
<1>3. req[r].after => outcome = "rejected"  BY LateIsRejected DEF InvParts
<1> HIDE DEF outcome
<1>4. now' = now /\ generation' = generation /\ familyRevoked' = familyRevoked
  BY <1>1 DEF rowVars, tokenVars
<1>5. CASE outcome = "rejected" /\ Replies(r, "rejected")
  <2>1. PICK q : Replaced(r, q) /\ q.pc = "answer"
    BY <1>4, <1>5, RepliesStep DEF InvParts
  <2>2. QED  BY <1>1, <2>1, QuietStep DEF MintingPc
<1>6. ASSUME NEW pc \in {"mark", "check", "revoke_family"}, Goes(r, pc), outcome # "rejected"
      PROVE  StepOK(r)
  <2>1. PICK q : Replaced(r, q) /\ q.pc = pc
    BY <1>2, <1>3, <1>4, <1>6, GoesStep DEF InvParts
  <2>2. QED  BY <1>1, <2>1, QuietStep DEF MintingPc
<1>7. QED  BY <1>1, <1>5, <1>6

LEMMA MarkRotatedStep ==
  ASSUME InvParts, NEW r \in Request, MarkRotated(r)
  PROVE  StepOK(r)
<1> DEFINE t == req[r].token
           u == req[r].at + OverlapWindow
<1>1. /\ req[r].pc = "mark" /\ now' = now /\ handed' = handed /\ generation' = generation
      /\ issuedAt' = issuedAt /\ session' = session /\ sessionRevoked' = sessionRevoked
      /\ familyRevoked' = familyRevoked /\ reason' = reason
  BY DEF MarkRotated, At, rowVars
<1>2. req[r].op = "refresh"  BY <1>1, Entry DEF InvParts, InOrder
<1>3. u \in Nat /\ u # Never  BY SessionsAssumption, Entry DEF InvParts
<1>4. CASE overlapUntil[t] = Never /\ overlapUntil' = [overlapUntil EXCEPT ![t] = u]
           /\ Goes(r, "insert")
  <2>1. PICK q : Replaced(r, q) /\ q.pc = "insert"
    BY <1>1, <1>2, <1>4, GoesStep, NotLate DEF InvParts
  <2>2. now \in Nat /\ generation \in Nat
    BY SessionsAssumption DEF InvParts, RowsInOrder
  <2>3. overlapUntil' \in [Token -> Instant]
    BY <1>3, <1>4 DEF InvParts, RowsInOrder, Instant
  <2>4. RowsInOrder' /\ Grows
    BY <1>1, <2>2, <2>3 DEF InvParts, RowsInOrder, FamilyFollowsSession, Grows
  <2>5. req' = [req EXCEPT ![r] = q]  BY <2>1 DEF Replaced
  <2>6. OneBranch'
    <3> HIDE DEF u
    <3>1. QED  BY <1>1, <1>3, <1>4, <2>5, RotationKeepsBranch DEF InvParts
  <2>7. QED  BY <2>1, <2>4, <2>6 DEF StepOK
<1>5. CASE Goes(r, "check") /\ UNCHANGED overlapUntil
  <2>1. PICK q : Replaced(r, q) /\ q.pc = "check"
    BY <1>1, <1>2, <1>5, GoesStep, NotLate DEF InvParts
  <2>2. QED  BY <1>1, <1>5, <2>1, QuietStep DEF MintingPc, rowVars, tokenVars
<1>6. QED  BY <1>4, <1>5 DEF MarkRotated

LEMMA InsertRefreshTokenStep ==
  ASSUME InvParts, NEW r \in Request, InsertRefreshToken(r)
  PROVE  StepOK(r)
<1> DEFINE login == req[r].op = "login"
           pc == IF login THEN "answer" ELSE "check"
           reply == IF login THEN "pair" ELSE req[r].reply
           q == [req[r] EXCEPT !.fresh = generation + 1, !.pc = pc, !.reply = reply]
<1>1. /\ req[r].pc = "insert" /\ now' = now /\ handed' = handed
      /\ generation < MaxToken /\ generation' = generation + 1
      /\ issuedAt' = [issuedAt EXCEPT ![generation + 1] = req[r].at]
      /\ session' = session /\ sessionRevoked' = sessionRevoked
      /\ familyRevoked' = familyRevoked /\ reason' = reason /\ overlapUntil' = overlapUntil
  BY DEF InsertRefreshToken, At, rowVars
<1>2. generation \in Nat /\ now \in Nat /\ generation + 1 \in 0..MaxToken
  BY <1>1, SessionsAssumption DEF InvParts, RowsInOrder
<1>3. pc \in {"answer", "check"} /\ (pc = "check" => req[r].op = "refresh")
      /\ reply \in {"none", "pair", "rejected", "done", "error"}
  BY <1>1, Entry DEF InvParts, InOrder, RequestOK
<1>4. req' = [req EXCEPT ![r] = q]
  BY Entry DEF InsertRefreshToken, InvParts, RequestsInOrder, RequestOK
<1> HIDE DEF login, pc, reply
<1>5. q \in RequestOK  BY <1>2, <1>3, Entry DEF InvParts, RequestOK
<1>6. q.pc = pc /\ q.op = req[r].op /\ q.at = req[r].at /\ q.fresh = generation + 1
      /\ q.token = req[r].token /\ q.after = req[r].after
  BY Entry DEF InvParts, RequestOK
<1> HIDE DEF q
<1>7. ~(req[r].after /\ req[r].op = "refresh")  BY <1>1, NotLate DEF InvParts
<1>8. Replaced(r, q)
  BY <1>1, <1>2, <1>3, <1>4, <1>5, <1>6, <1>7, Entry DEF InvParts, InOrder, Replaced
<1>9. RowsInOrder' /\ Grows
  <2>1. issuedAt' \in [Token -> Nat]  BY <1>1, Entry DEF InvParts, RowsInOrder
  <2>2. handed' \subseteq 1..generation'  BY <1>1, <1>2 DEF InvParts, RowsInOrder
  <2>3. QED
    BY <1>1, <1>2, <2>1, <2>2 DEF InvParts, RowsInOrder, FamilyFollowsSession, Grows
<1>10. OneBranch'
  BY <1>1, <1>3, <1>4, <1>6, InsertionKeepsBranch DEF InvParts, MintingPc
<1>11. QED  BY <1>8, <1>9, <1>10 DEF StepOK

LEMMA CheckSessionStep ==
  ASSUME InvParts, NEW r \in Request, CheckSession(r)
  PROVE  StepOK(r)
<1> DEFINE reply == IF sessionRevoked = Never THEN "pair" ELSE "rejected"
<1>1. /\ req[r].pc = "check" /\ Replies(r, reply)
      /\ UNCHANGED <<now, rowVars, tokenVars, handed>>
  BY DEF CheckSession, At
<1>2. reply \in {"pair", "rejected", "done"}  OBVIOUS
<1>3. ~(req[r].after /\ req[r].op = "refresh")  BY <1>1, NotLate DEF InvParts
<1> HIDE DEF reply
<1>4. PICK q : Replaced(r, q) /\ q.pc = "answer"
  BY <1>1, <1>2, <1>3, RepliesStep DEF InvParts, rowVars, tokenVars
<1>5. QED  BY <1>1, <1>4, QuietStep DEF MintingPc

\* A revocation that is written at a request's clock is in the past.
LEMMA FirstIsPast ==
  ASSUME InvParts, NEW r \in Request, NEW old \in Instant, old # Never => old <= now
  PROVE  /\ First(old, req[r].at) \in Instant /\ First(old, req[r].at) # Never
         /\ First(old, req[r].at) <= now
         /\ old # Never => First(old, req[r].at) = old
  BY Entry, SessionsAssumption DEF InvParts, First, Instant

LEMMA RevokeFamilyStep ==
  ASSUME InvParts, NEW r \in Request, RevokeFamily(r)
  PROVE  StepOK(r)
<1>1. /\ req[r].pc = "revoke_family" /\ Goes(r, "revoke_session")
      /\ familyRevoked' = First(familyRevoked, req[r].at)
      /\ reason' = IF reason = "none" THEN "reuse_detected" ELSE reason
      /\ UNCHANGED <<now, session, sessionRevoked, tokenVars, handed>>
  BY DEF RevokeFamily, At
<1>2. /\ familyRevoked' \in Instant /\ familyRevoked' # Never /\ familyRevoked' <= now
      /\ familyRevoked # Never => familyRevoked' = familyRevoked
  BY <1>1, FirstIsPast DEF InvParts, RowsInOrder
<1>3. PICK q : Replaced(r, q) /\ q.pc = "revoke_session"
  BY <1>1, <1>2, GoesStep, NotLate DEF InvParts, tokenVars
<1>4. now \in Nat /\ generation \in Nat
  BY SessionsAssumption DEF InvParts, RowsInOrder
<1>5. RowsInOrder' /\ Grows
  BY <1>1, <1>2, <1>4 DEF InvParts, RowsInOrder, FamilyFollowsSession, Grows, tokenVars
<1>6. OneBranch'
  BY <1>1, <1>3, KeepsBranch DEF InvParts, Replaced, MintingPc, tokenVars
<1>7. QED  BY <1>3, <1>5, <1>6 DEF StepOK

LEMMA RevokeSessionStep ==
  ASSUME InvParts, NEW r \in Request, RevokeSession(r)
  PROVE  StepOK(r)
<1> DEFINE reply == IF req[r].op = "logout" THEN "done" ELSE "rejected"
<1>1. /\ req[r].pc = "revoke_session" /\ Replies(r, reply)
      /\ sessionRevoked' = First(sessionRevoked, req[r].at)
      /\ familyRevoked' = First(familyRevoked, req[r].at)
      /\ reason' \in {reason, "logout", "reuse_detected"}
      /\ UNCHANGED <<now, session, tokenVars, handed>>
  BY DEF RevokeSession, At
<1>2. /\ familyRevoked' \in Instant /\ familyRevoked' # Never /\ familyRevoked' <= now
      /\ familyRevoked # Never => familyRevoked' = familyRevoked
      /\ sessionRevoked' \in Instant /\ sessionRevoked' <= now
  BY <1>1, FirstIsPast DEF InvParts, RowsInOrder
<1>3. reply \in {"pair", "rejected", "done"}  OBVIOUS
<1>4. ~(req[r].after /\ req[r].op = "refresh")  BY <1>1, NotLate DEF InvParts
<1> HIDE DEF reply
<1>5. PICK q : Replaced(r, q) /\ q.pc = "answer"
  BY <1>1, <1>2, <1>3, <1>4, RepliesStep DEF InvParts, tokenVars
<1>6. now \in Nat /\ generation \in Nat
  BY SessionsAssumption DEF InvParts, RowsInOrder
<1>7. RowsInOrder' /\ Grows
  BY <1>1, <1>2, <1>6 DEF InvParts, RowsInOrder, FamilyFollowsSession, Grows, tokenVars
<1>8. OneBranch'
  BY <1>1, <1>5, KeepsBranch DEF InvParts, Replaced, MintingPc, tokenVars
<1>9. QED  BY <1>5, <1>7, <1>8 DEF StepOK

LEMMA FailsStep ==
  ASSUME InvParts, NEW r \in Request, Fails(r)
  PROVE  StepOK(r)
<1> DEFINE q == [req[r] EXCEPT !.pc = "answer", !.reply = "error", !.fresh = 0]
<1>1. req' = [req EXCEPT ![r] = q] /\ UNCHANGED <<now, rowVars, tokenVars, handed>>
  BY Entry DEF Fails, InvParts, RequestsInOrder, RequestOK
<1>2. 0 \in 0..MaxToken  BY SessionsAssumption
<1>3. q \in RequestOK  BY <1>2, Entry DEF InvParts, RequestOK
<1>4. q.pc = "answer" /\ q.op = req[r].op /\ q.at = req[r].at /\ q.reply = "error"
      /\ q.token = req[r].token /\ q.fresh = 0 /\ q.after = req[r].after
  BY Entry DEF InvParts, RequestOK
<1> HIDE DEF q
<1>5. InOrder(q, generation', now', familyRevoked')
  BY <1>1, <1>3, <1>4, Entry DEF InvParts, InOrder, rowVars, tokenVars
<1>6. Replaced(r, q)  BY <1>1, <1>5 DEF Replaced
<1>7. QED  BY <1>1, <1>4, <1>6, QuietStep DEF MintingPc

LEMMA RespondStep ==
  ASSUME InvParts, NEW r \in Request, Respond(r)
  PROVE  StepOK(r)
<1>1. /\ req' = [req EXCEPT ![r] = NoRequest] /\ UNCHANGED <<now, rowVars, tokenVars>>
      /\ handed' \subseteq handed \cup ({req[r].fresh} \ {0})
  BY DEF Respond
<1>2. PICK q : Replaced(r, q) /\ q.pc = "idle"
  BY <1>1, DropStep DEF InvParts, tokenVars
<1>3. now \in Nat /\ generation \in Nat
  BY SessionsAssumption DEF InvParts, RowsInOrder
<1>4. req[r].fresh \in Nat /\ req[r].fresh <= generation  BY Entry DEF InvParts, InOrder
<1>5. handed' \subseteq 1..generation  BY <1>1, <1>3, <1>4 DEF InvParts, RowsInOrder
<1>6. RowsInOrder' /\ Grows
  BY <1>1, <1>3, <1>5 DEF InvParts, RowsInOrder, FamilyFollowsSession, Grows, rowVars, tokenVars
<1>7. OneBranch'
  BY <1>1, <1>2, KeepsBranch DEF InvParts, Replaced, MintingPc, rowVars, tokenVars
<1>8. QED  BY <1>2, <1>6, <1>7 DEF StepOK

LEMMA LoseStep ==
  ASSUME InvParts, NEW r \in Request, Lose(r)
  PROVE  StepOK(r)
<1>1. req' = [req EXCEPT ![r] = NoRequest] /\ UNCHANGED <<now, rowVars, tokenVars, handed>>
  BY DEF Lose
<1>2. PICK q : Replaced(r, q) /\ q.pc = "idle"
  BY <1>1, DropStep DEF InvParts, tokenVars
<1>3. QED  BY <1>1, <1>2, QuietStep DEF MintingPc

\* A step of the clock, or of nothing, leaves every request in order.
LEMMA ClockStep ==
  ASSUME InvParts, now <= now', now' \in Nat, UNCHANGED <<rowVars, tokenVars, handed, req>>
  PROVE  InvParts'
<1>1. now \in Nat /\ generation \in Nat
  BY SessionsAssumption DEF InvParts, RowsInOrder
<1>2. /\ generation' = generation /\ familyRevoked' = familyRevoked /\ req' = req
      /\ session' = session /\ sessionRevoked' = sessionRevoked /\ reason' = reason
      /\ issuedAt' = issuedAt /\ overlapUntil' = overlapUntil /\ handed' = handed
  BY DEF rowVars, tokenVars
<1>3. RequestsInOrder'
  <2>1. ASSUME NEW r \in Request
        PROVE  InOrder(req[r], generation, now', familyRevoked)
    BY <1>1, StaysInOrder DEF InvParts, RequestsInOrder
  <2>2. QED  BY <1>2, <2>1 DEF InvParts, RequestsInOrder
<1>4. RowsInOrder'
  <2>1. sessionRevoked # Never => sessionRevoked \in Nat /\ sessionRevoked <= now'
    BY <1>1 DEF InvParts, RowsInOrder, Instant
  <2>2. familyRevoked # Never => familyRevoked \in Nat /\ familyRevoked <= now'
    BY <1>1 DEF InvParts, RowsInOrder, Instant
  <2>3. QED  BY <1>2, <2>1, <2>2 DEF InvParts, RowsInOrder, FamilyFollowsSession
<1>5. OneBranch'
  BY <1>2 DEF InvParts, OneBranch, OneCurrent, Current, Minting
<1>6. QED  BY <1>3, <1>4, <1>5 DEF InvParts

LEMMA RequestStep ==
  ASSUME InvParts, NEW r \in Request, Start(r) \/ Query(r) \/ Respond(r) \/ Lose(r)
  PROVE  InvParts'
<1>1. StepOK(r)
  <2>1. CASE Start(r)
    BY <2>1, LoginStep, RefreshStep, LogoutStep DEF Start
  <2>2. CASE Query(r)
    BY <2>2, CreateSessionStep, CreateFamilyStep, LoadStep, MarkRotatedStep,
       InsertRefreshTokenStep, CheckSessionStep, RevokeFamilyStep, RevokeSessionStep, FailsStep
    DEF Query
  <2>3. QED  BY <2>1, <2>2, RespondStep, LoseStep
<1>2. QED  BY <1>1, ReplaceEntry DEF StepOK, InvParts

LEMMA InvariantInit == Init => IInv
<1> SUFFICES ASSUME Init PROVE RequestsInOrder /\ RowsInOrder /\ OneBranch
  BY Parts
<1>1. RowsInOrder
  BY SessionsAssumption DEF Init, RowsInOrder, FamilyFollowsSession, Instant
<1>2. \A r \in Request : req[r] = NoRequest  BY DEF Init
<1>3. RequestsInOrder
  <2>1. InOrder(NoRequest, generation, now, familyRevoked)
    BY NoRequestType DEF Init, InOrder
  <2>2. req \in [Request -> RequestOK]  BY NoRequestType DEF Init
  <2>3. QED  BY <1>2, <2>1, <2>2 DEF RequestsInOrder
<1>4. OneBranch
  <2>1. Minting = {}  BY <1>2, NoRequestType DEF Minting
  <2>2. Current = {}  BY DEF Current, Init
  <2>3. QED  BY <2>1, <2>2 DEF OneBranch, OneCurrent, Init
<1>5. QED  BY <1>1, <1>3, <1>4

LEMMA InvariantStep == IInv /\ [Next]_sessionVars => IInv'
<1>1. IInv <=> InvParts  BY Parts DEF InvParts
<1>2. IInv' <=> InvParts'  BY <1>1, PTL
<1> SUFFICES ASSUME InvParts, [Next]_sessionVars PROVE InvParts'
  BY <1>1, <1>2
<1>3. now \in Nat  BY DEF InvParts, RowsInOrder
<1>4. CASE Tick  BY <1>3, <1>4, ClockStep DEF Tick
<1>5. ASSUME NEW r \in Request, Start(r) \/ Query(r) \/ Respond(r) \/ Lose(r)
      PROVE  InvParts'
  BY <1>5, RequestStep
<1>6. CASE UNCHANGED sessionVars  BY <1>3, <1>6, ClockStep DEF sessionVars
<1>7. QED  BY <1>4, <1>5, <1>6 DEF Next

-----------------------------------------------------------------------------
(* The theorems about the service.                                         *)

\* The inductive invariant holds in every state of the service (service.go).
THEOREM SessionsInvariant == Spec => []IInv
  BY InvariantInit, InvariantStep, PTL DEF Spec

\* The rows and the requests of the service keep their types (postgres.go).
THEOREM TypeCorrect == Spec => []TypeOK
<1>1. IInv => TypeOK  BY DEF IInv
<1>2. QED  BY SessionsInvariant, <1>1, PTL

\* postgres.go, MarkRotated: however many requests race, and wherever each one
\* stops, a family never has two tokens that could be rotated.
THEOREM FamilyNeverForks == Spec => []OneCurrent
<1>1. IInv => OneCurrent  BY DEF IInv, OneBranch
<1>2. QED  BY SessionsInvariant, <1>1, PTL

\* refresh.go, EvaluateRefresh: a refresh that begins after the revocation of
\* its family is refused, whichever token it presents and whoever revoked it.
THEOREM LateRefreshGetsNowhere == Spec => []LateIsRefused
<1>1. IInv => LateIsRefused  BY DEF IInv
<1>2. QED  BY SessionsInvariant, <1>1, PTL

\* postgres.go, RevokeSession: a revoked session leaves no family in force.
THEOREM FamilyEndsWithSession == Spec => []FamilyFollowsSession
<1>1. IInv => FamilyFollowsSession  BY DEF IInv
<1>2. QED  BY SessionsInvariant, <1>1, PTL

-----------------------------------------------------------------------------
(* The app is one way of using the service: it presents no token but one   *)
(* that it, or somebody, has been handed.                                  *)

\* A refresh presents a token that left the server, and one that is answered
\* with a pair and no new token is a refresh.
Presents(q, h) ==
  /\ q.op = "refresh" => q.token \in h
  /\ q.reply = "pair" => q.op = "refresh" \/ q.fresh # 0

Presented == \A r \in Request : Presents(req[r], handed)

StoredIsHanded == store # SignedOut => store.token \in handed

AppInv == IInv /\ Presented /\ StoredIsHanded

LEMMA ReplacePresented ==
  ASSUME Presented, RequestsInOrder, NEW r \in Request, NEW q, handed \subseteq handed',
         req' = [req EXCEPT ![r] = q], Presents(q, handed')
  PROVE  Presented'
  BY DEF Presented, Presents, RequestsInOrder

LEMMA HandedGrows ==
  ASSUME NEW r \in Request, Start(r) \/ Query(r) \/ Respond(r) \/ Lose(r)
  PROVE  handed \subseteq handed'
  BY DEF Start, BeginLogin, BeginRefresh, BeginLogout, Query, CreateSession, CreateFamily, Load,
         MarkRotated, InsertRefreshToken, CheckSession, RevokeFamily, RevokeSession, Fails,
         Respond, Lose

LEMMA StartPresents ==
  ASSUME IInv, Presented, NEW r \in Request, Start(r)
  PROVE  Presented'
<1>1. RequestsInOrder  BY Parts
<1>2. ASSUME NEW op, NEW pc, NEW t, Begin(r, op, pc, t), op = "refresh" => t \in handed,
             handed' = handed
      PROVE  Presented'
  <2> DEFINE b == familyRevoked # Never
             q == [NoRequest EXCEPT !.pc = pc, !.op = op, !.token = t, !.at = now, !.after = b]
  <2>1. req' = [req EXCEPT ![r] = q]  BY <1>2 DEF Begin
  <2> HIDE DEF b
  <2>2. q.op = op /\ q.token = t /\ q.reply = "none"  BY DEF NoRequest
  <2> HIDE DEF q
  <2>3. QED  BY <1>1, <1>2, <2>1, <2>2, ReplacePresented DEF Presents
<1>3. QED  BY <1>2 DEF Start, BeginLogin, BeginRefresh, BeginLogout

LEMMA QueryPresents ==
  ASSUME IInv, Presented, NEW r \in Request, Query(r)
  PROVE  Presented'
<1>1. InvParts  BY Parts DEF InvParts
<1>2. Presents(req[r], handed)  BY DEF Presented
<1>3. handed' = handed
  BY DEF Query, CreateSession, CreateFamily, Load, MarkRotated, InsertRefreshToken,
         CheckSession, RevokeFamily, RevokeSession, Fails
<1>4. ASSUME NEW pc, Goes(r, pc)  PROVE Presented'
  <2> DEFINE q == [req[r] EXCEPT !.pc = pc]
  <2>1. q.op = req[r].op /\ q.token = req[r].token /\ q.reply = req[r].reply
        /\ q.fresh = req[r].fresh
    BY <1>1, Entry DEF InvParts, RequestOK
  <2>2. req' = [req EXCEPT ![r] = q]  BY <1>4 DEF Goes
  <2> HIDE DEF q
  <2>3. QED  BY <1>1, <1>2, <1>3, <2>1, <2>2, ReplacePresented DEF Presents, InvParts
<1>5. ASSUME NEW reply, Replies(r, reply), reply = "pair" => req[r].op = "refresh"
      PROVE  Presented'
  <2> DEFINE q == [req[r] EXCEPT !.pc = "answer", !.reply = reply]
  <2>1. q.op = req[r].op /\ q.token = req[r].token /\ q.reply = reply
        /\ q.fresh = req[r].fresh
    BY <1>1, Entry DEF InvParts, RequestOK
  <2>2. req' = [req EXCEPT ![r] = q]  BY <1>5 DEF Replies
  <2> HIDE DEF q
  <2>3. QED  BY <1>1, <1>2, <1>3, <1>5, <2>1, <2>2, ReplacePresented DEF Presents, InvParts
<1>6. CASE InsertRefreshToken(r)
  <2> DEFINE login == req[r].op = "login"
             pc == IF login THEN "answer" ELSE "check"
             reply == IF login THEN "pair" ELSE req[r].reply
             q == [req[r] EXCEPT !.fresh = generation + 1, !.pc = pc, !.reply = reply]
  <2>1. req' = [req EXCEPT ![r] = q]
    BY <1>1, <1>6, Entry DEF InsertRefreshToken, InvParts, RequestsInOrder, RequestOK
  <2>2. generation \in Nat  BY <1>1, Entry DEF InvParts
  <2>3. generation + 1 # 0  BY <2>2
  <2> HIDE DEF login, pc, reply
  <2>4. q.op = req[r].op /\ q.token = req[r].token /\ q.fresh = generation + 1
    BY <1>1, Entry DEF InvParts, RequestOK
  <2> HIDE DEF q
  <2>5. QED  BY <1>1, <1>2, <1>3, <2>1, <2>3, <2>4, ReplacePresented DEF Presents, InvParts
<1>7. CASE Fails(r)
  <2> DEFINE q == [req[r] EXCEPT !.pc = "answer", !.reply = "error", !.fresh = 0]
  <2>1. q.op = req[r].op /\ q.token = req[r].token /\ q.reply = "error"
    BY <1>1, Entry DEF InvParts, RequestOK
  <2>2. req' = [req EXCEPT ![r] = q]
    BY <1>1, <1>7, Entry DEF Fails, InvParts, RequestsInOrder, RequestOK
  <2> HIDE DEF q
  <2>3. QED  BY <1>1, <1>2, <1>3, <2>1, <2>2, ReplacePresented DEF Presents, InvParts
<1>8. CASE CheckSession(r)
  <2>1. req[r].op = "refresh"  BY <1>1, <1>8, Entry DEF CheckSession, At, InvParts, InOrder
  <2>2. QED  BY <1>5, <1>8, <2>1 DEF CheckSession
<1>9. CASE CreateSession(r) \/ CreateFamily(r) \/ MarkRotated(r) \/ RevokeFamily(r)
  BY <1>4, <1>9 DEF CreateSession, CreateFamily, MarkRotated, RevokeFamily
<1>10. CASE Load(r) \/ RevokeSession(r)
  BY <1>4, <1>5, <1>10 DEF Load, RevokeSession
<1>11. QED  BY <1>6, <1>7, <1>8, <1>9, <1>10 DEF Query

LEMMA EndPresents ==
  ASSUME IInv, Presented, NEW r \in Request, Respond(r) \/ Lose(r)
  PROVE  Presented'
<1>1. RequestsInOrder /\ handed \subseteq handed'  BY Parts, HandedGrows
<1>2. NoRequest.op = "none" /\ NoRequest.reply = "none"  BY DEF NoRequest
<1>3. req' = [req EXCEPT ![r] = NoRequest]  BY DEF Respond, Lose
<1>4. QED  BY <1>1, <1>2, <1>3, ReplacePresented DEF Presents

LEMMA ServerPresents ==
  ASSUME IInv, Presented, [Next]_sessionVars
  PROVE  Presented' /\ handed \subseteq handed'
<1>1. CASE Tick \/ UNCHANGED sessionVars  BY <1>1 DEF Tick, sessionVars, Presented
<1>2. ASSUME NEW r \in Request, Start(r) \/ Query(r) \/ Respond(r) \/ Lose(r)
      PROVE  Presented' /\ handed \subseteq handed'
  BY <1>2, HandedGrows, StartPresents, QueryPresents, EndPresents
<1>3. QED  BY <1>1, <1>2 DEF Next

\* What a step of the app and the service is to the service.
LEMMA AppStep ==
  ASSUME AppInv, [AppNext]_<<sessionVars, appVars>>
  PROVE  [Next]_sessionVars
<1>1. CASE Tick \/ UNCHANGED <<sessionVars, appVars>>  BY <1>1 DEF Next
<1>2. ASSUME NEW c \in Call, App(c)  PROVE [Next]_sessionVars
  <2>1. CASE Accepted(c)
    BY <2>1 DEF Accepted, Next, Start
  <2>2. CASE StartsRefresh(c)
    <3>1. store.token \in handed  BY <2>2 DEF StartsRefresh, AppInv, StoredIsHanded
    <3>2. QED  BY <2>2, <3>1 DEF StartsRefresh, Next, Start
  <2>3. CASE Send(c, "api") \/ Send(c, "logout") \/ Refused(c) \/ SurfacesExpiry(c)
             \/ JoinsRefresh(c) \/ Replays(c) \/ GivesUpSession(c)
    BY <2>3 DEF Send, Refused, SurfacesExpiry, JoinsRefresh, Replays, GivesUpSession
  <2>4. QED  BY <1>2, <2>1, <2>2, <2>3 DEF App
<1>3. ASSUME NEW r \in Request,
             SignIn(r) \/ Receives(r) \/ Misses(r) \/ Server(r) \/ \E t \in handed : Stolen(r, t)
      PROVE  [Next]_sessionVars
  BY <1>3 DEF SignIn, Receives, Misses, Server, Stolen, Next, Start
<1>4. QED  BY <1>1, <1>2, <1>3 DEF AppNext

\* The app stores only what has been handed out.
LEMMA StoreStep ==
  ASSUME AppInv, [AppNext]_<<sessionVars, appVars>>, handed \subseteq handed'
  PROVE  StoredIsHanded'
<1>1. CASE store' = store \/ store' = SignedOut
  BY <1>1 DEF AppInv, StoredIsHanded
<1>2. ASSUME NEW r \in Request, Receives(r), req[r].reply = "pair"
      PROVE  StoredIsHanded'
  <2>1. store'.token = IF req[r].fresh # 0 THEN req[r].fresh ELSE req[r].token
    BY <1>2 DEF Receives
  <2>2. CASE req[r].fresh # 0
    BY <1>2, <2>1, <2>2 DEF Receives, Respond, StoredIsHanded
  <2>3. CASE req[r].fresh = 0
    <3>1. req[r].token \in handed  BY <1>2, <2>3 DEF AppInv, Presented, Presents
    <3>2. QED  BY <2>1, <2>3, <3>1 DEF StoredIsHanded
  <2>4. QED  BY <2>2, <2>3
<1>3. ASSUME NEW c \in Call, App(c)  PROVE store' = store \/ store' = SignedOut
  BY <1>3 DEF App, Send, Accepted, Refused, SurfacesExpiry, StartsRefresh, JoinsRefresh,
              Replays, GivesUpSession, Ends, AfterCalls
<1>4. ASSUME NEW r \in Request,
             SignIn(r) \/ Misses(r) \/ Server(r) \/ (\E t \in handed : Stolen(r, t))
             \/ (Receives(r) /\ req[r].reply # "pair")
      PROVE  store' = store \/ store' = SignedOut
  BY <1>4 DEF SignIn, Receives, Misses, Server, Stolen, AfterCalls, appVars
<1>5. QED  BY <1>1, <1>2, <1>3, <1>4 DEF AppNext, appVars

LEMMA AppInvInit == AppInit => AppInv
<1>1. ASSUME AppInit  PROVE Presented /\ StoredIsHanded
  <2>1. \A r \in Request : req[r].op = "none" /\ req[r].reply = "none"
    BY <1>1 DEF AppInit, Init, NoRequest
  <2>2. QED  BY <1>1, <2>1 DEF AppInit, Presented, Presents, StoredIsHanded
<1>2. QED  BY <1>1, InvariantInit DEF AppInit, AppInv

LEMMA AppInvStep ==
  ASSUME AppInv, [AppNext]_<<sessionVars, appVars>>
  PROVE  AppInv'
<1>1. [Next]_sessionVars  BY AppStep
<1>2. IInv'  BY <1>1, InvariantStep DEF AppInv
<1>3. Presented' /\ handed \subseteq handed'  BY <1>1, ServerPresents DEF AppInv
<1>4. StoredIsHanded'  BY <1>3, StoreStep
<1>5. QED  BY <1>2, <1>3, <1>4 DEF AppInv

\* The invariant of the app over the service.
THEOREM AppInvariant == AppSpec => []AppInv
  BY AppInvInit, AppInvStep, PTL DEF AppSpec

\* What the app does is what a client of the service may do: whatever holds of
\* the service for every client holds of the service under this app.
THEOREM AppUsesService == AppSpec => Spec
<1>1. AppInit => Init  BY DEF AppInit
<1>2. AppInv /\ [AppNext]_<<sessionVars, appVars>> => [Next]_sessionVars  BY AppStep
<1>3. QED  BY <1>1, <1>2, AppInvariant, PTL DEF AppSpec, Spec

\* So under the app, too, a family never has two tokens that could be rotated.
THEOREM AppFamilyNeverForks == AppSpec => []OneCurrent
  BY AppUsesService, FamilyNeverForks, PTL

-----------------------------------------------------------------------------
(* The app keeps its session.  As long as nothing that it cannot help has  *)
(* happened, at most one request that mints or presents a token is under   *)
(* way, the app awaits it, and whatever token it goes by is one that the   *)
(* server would rotate; so no token is ever presented a second time.       *)

\* What the awaited request q has in hand, given the tokens that would be
\* rotated, whether the session is revoked, and what the app stores.
Carries(q, current, gone, stored) ==
  /\ q.op \in {"login", "refresh"}
  /\ q.pc \notin {"idle", "revoke_family", "revoke_session"}
  /\ q.pc = "load" => q.after \/ q.token \in current
  /\ q.pc = "mark" => q.token \in current
  /\ q.pc = "check" => q.fresh \in current
  /\ q.pc = "answer" =>
       /\ q.reply \in {"pair", "rejected", "error"}
       /\ q.reply = "pair" => q.fresh \in current
       /\ q.reply = "rejected" => gone \/ (q.op = "refresh" /\ q.token \in current)
  /\ stored # SignedOut => q.op = "refresh" /\ stored.token = q.token

\* Any other request is a logout, or over.
Rests(q) == q.pc = "idle" \/ (q.op = "logout" /\ q.pc \in {"revoke_session", "answer"})

Gone == sessionRevoked # Never

Requests ==
  \A r \in Request :
    IF r \in flight THEN Carries(req[r], Current, Gone, store) ELSE Rests(req[r])

Alone ==
  /\ flight \subseteq Request /\ \A r, s \in flight : r = s
  /\ Requests
  /\ reason # "reuse_detected"
  /\ familyRevoked # Never => Gone
  /\ flight = {} /\ store # SignedOut /\ ~Gone => store.token \in Current
  /\ session = "none" => store = SignedOut /\ flight = {}

\* A token that is not stored yet has not been rotated.
Unspent == \A t \in Token : t > generation => overlapUntil[t] = Never

Kept == Unspent /\ (mishap = "none" => Alone)

LEMMA WorseIsNotNone ==
  /\ Worse("lost") # "none" /\ Worse("retried") # "none"
  /\ \A m \in {"lost", "retried"} : mishap # "none" => Worse(m) # "none"
<1>1. DOMAIN Mishap = 1..4 /\ Mishap[1] = "none" /\ Mishap[2] = "lost"
      /\ Mishap[3] = "retried" /\ Mishap[4] = "stolen"
  BY DEF Mishap
<1>2. Rank("none") = 1
  <2>1. \E i \in DOMAIN Mishap : Mishap[i] = "none"  BY <1>1
  <2>2. Rank("none") \in 1..4 /\ Mishap[Rank("none")] = "none"  BY <1>1, <2>1 DEF Rank
  <2>3. QED  BY <1>1, <2>2
<1>3. Rank("lost") = 2
  <2>1. \E i \in DOMAIN Mishap : Mishap[i] = "lost"  BY <1>1
  <2>2. Rank("lost") \in 1..4 /\ Mishap[Rank("lost")] = "lost"  BY <1>1, <2>1 DEF Rank
  <2>3. QED  BY <1>1, <2>2
<1>4. Rank("retried") = 3
  <2>1. \E i \in DOMAIN Mishap : Mishap[i] = "retried"  BY <1>1
  <2>2. Rank("retried") \in 1..4 /\ Mishap[Rank("retried")] = "retried"
    BY <1>1, <2>1 DEF Rank
  <2>3. QED  BY <1>1, <2>2
<1>5. QED
  <2>1. CASE mishap = "none"  BY <1>2, <1>3, <1>4, <2>1 DEF Worse
  <2>2. CASE mishap # "none"  BY <2>2 DEF Worse
  <2>3. QED  BY <2>1, <2>2

\* Only a token that is stored is rotated, and the stored ones are 1..generation.
LEMMA UnspentStep ==
  ASSUME IInv, Unspent, [Next]_sessionVars
  PROVE  Unspent'
<1>0. RequestsInOrder /\ RowsInOrder  BY Parts
<1>1. generation \in Nat /\ overlapUntil \in [Token -> Instant]
  BY <1>0, SessionsAssumption DEF RowsInOrder
<1>2. CASE UNCHANGED overlapUntil /\ (generation' = generation \/ generation' = generation + 1)
  <2>1. \A t \in Token : t > generation' => t > generation  BY <1>1, <1>2 DEF Token
  <2>2. QED  BY <1>2, <2>1 DEF Unspent
<1>3. ASSUME NEW r \in Request, MarkRotated(r)  PROVE Unspent'
  <2>1. req[r].token \in 1..generation
    BY <1>0, <1>3, Entry DEF MarkRotated, At, InOrder
  <2>2. generation' = generation /\ \A t \in Token \ {req[r].token} : overlapUntil'[t] = overlapUntil[t]
    BY <1>1, <1>3 DEF MarkRotated
  <2>3. \A t \in Token : t > generation => t # req[r].token  BY <1>1, <2>1 DEF Token
  <2>4. QED  BY <2>2, <2>3 DEF Unspent
<1>4. CASE Tick \/ UNCHANGED sessionVars  BY <1>2, <1>4 DEF Tick, tokenVars, sessionVars
<1>5. ASSUME NEW r \in Request, Start(r) \/ Query(r) \/ Respond(r) \/ Lose(r)
      PROVE  MarkRotated(r) \/ (UNCHANGED overlapUntil
                                 /\ (generation' = generation \/ generation' = generation + 1))
  BY <1>5 DEF Start, BeginLogin, BeginRefresh, BeginLogout, Query, CreateSession, CreateFamily, Load,
              InsertRefreshToken, CheckSession, RevokeFamily, RevokeSession, Fails,
              Respond, Lose, tokenVars
<1>6. QED  BY <1>2, <1>3, <1>4, <1>5 DEF Next

LEMMA CarriesOn ==
  ASSUME NEW q, NEW current, NEW more, NEW gone, NEW ended, NEW s, NEW u,
         Carries(q, current, gone, s), current \subseteq more, gone => ended,
         u = s \/ u = SignedOut
  PROVE  Carries(q, more, ended, u)
  BY DEF Carries

-----------------------------------------------------------------------------
(* The steps of the awaited request.                                       *)

\* It is the only one that goes by tokens, so its entry is all there is to check.
LEMMA AwaitedStep ==
  ASSUME Alone, NEW r \in flight, NEW q, req \in [Request -> RequestOK],
         req' = [req EXCEPT ![r] = q],
         Carries(q, Current', Gone', store'),
         UNCHANGED <<flight, store, sessionRevoked, familyRevoked, reason>>,
         session' = "none" => session = "none"
  PROVE  Alone'
<1>1. r \in Request /\ req'[r] = q /\ \A p \in Request \ {r} : req'[p] = req[p]
  BY DEF Alone
<1>2. \A p \in Request \ {r} : p \notin flight /\ Rests(req[p])
  BY DEF Alone, Requests
<1>3. Requests'  BY <1>1, <1>2 DEF Requests
<1>4. flight # {}  OBVIOUS
<1>5. QED  BY <1>3, <1>4 DEF Alone, Gone

LEMMA AwaitedQuery ==
  ASSUME IInv, Unspent, Alone, NEW r \in flight, Query(r), UNCHANGED <<flight, store>>
  PROVE  Alone'
<1>0. /\ r \in Request /\ RequestsInOrder /\ RowsInOrder
      /\ req \in [Request -> RequestOK] /\ req[r] \in RequestOK
      /\ InOrder(req[r], generation, now, familyRevoked)
      /\ Carries(req[r], Current, Gone, store)
  BY Parts, Entry DEF Alone, Requests, RequestsInOrder
<1>1. ASSUME NEW pc, Goes(r, pc), pc \in {"create_family", "insert", "mark", "check"},
             pc = "mark" => req[r].token \in Current', pc = "check" => req[r].fresh \in Current',
             UNCHANGED <<sessionRevoked, familyRevoked, reason>>,
             session' = "none" => session = "none"
      PROVE  Alone'
  <2> DEFINE q == [req[r] EXCEPT !.pc = pc]
  <2>1. req' = [req EXCEPT ![r] = q]  BY <1>1 DEF Goes
  <2>2. q.op = req[r].op /\ q.token = req[r].token /\ q.fresh = req[r].fresh /\ q.pc = pc
    BY <1>0 DEF RequestOK
  <2> HIDE DEF q
  <2>3. Carries(q, Current', Gone', store')  BY <1>0, <1>1, <2>2 DEF Carries
  <2>4. QED  BY <1>0, <1>1, <2>1, <2>3, AwaitedStep
<1>2. ASSUME NEW reply, Replies(r, reply), reply \in {"pair", "rejected"},
             reply = "pair" => req[r].fresh \in Current',
             reply = "rejected" => Gone' \/ (req[r].op = "refresh" /\ req[r].token \in Current'),
             UNCHANGED <<sessionRevoked, familyRevoked, reason, session>>
      PROVE  Alone'
  <2> DEFINE q == [req[r] EXCEPT !.pc = "answer", !.reply = reply]
  <2>1. req' = [req EXCEPT ![r] = q]  BY <1>2 DEF Replies
  <2>2. q.op = req[r].op /\ q.token = req[r].token /\ q.fresh = req[r].fresh
        /\ q.pc = "answer" /\ q.reply = reply
    BY <1>0 DEF RequestOK
  <2> HIDE DEF q
  <2>3. Carries(q, Current', Gone', store')  BY <1>0, <1>2, <2>2 DEF Carries
  <2>4. QED  BY <1>0, <1>2, <2>1, <2>3, AwaitedStep
<1>3. CASE CreateSession(r)
  BY <1>1, <1>3 DEF CreateSession
<1>4. CASE CreateFamily(r)
  BY <1>1, <1>4 DEF CreateFamily
<1>5. CASE Load(r)
  <2> DEFINE outcome == Evaluate(req[r].token, req[r].at)
  <2>1. /\ At(r, "load") /\ UNCHANGED <<sessionRevoked, familyRevoked, reason, session>>
        /\ Current' = Current /\ Gone' = Gone
        /\ \/ outcome = "rotate" /\ Goes(r, "mark")
           \/ outcome = "replay" /\ Goes(r, "check")
           \/ outcome = "reuse" /\ Goes(r, "revoke_family")
           \/ outcome = "rejected" /\ Replies(r, "rejected")
    BY <1>5 DEF Load, rowVars, tokenVars, Current, Gone
  <2>2. CASE req[r].after
    <3>1. outcome = "rejected"  BY <1>0, <2>2, LateIsRejected
    <3>2. Replies(r, "rejected")  BY <2>1, <3>1
    <3>3. familyRevoked # Never  BY <1>0, <2>2 DEF InOrder
    <3>4. Gone'  BY <2>1, <3>3 DEF Alone
    <3>5. QED  BY <1>2, <2>1, <3>2, <3>4
  <2>3. CASE ~req[r].after
    <3>1. req[r].token \in Current  BY <1>0, <2>1, <2>3 DEF Carries, At
    <3>2. overlapUntil[req[r].token] = Never  BY <3>1 DEF Current
    <3>3. outcome \in {"rejected", "rotate"}  BY <3>2 DEF Evaluate
    <3>4. req[r].op = "refresh"  BY <1>0, <2>1 DEF InOrder, At
    <3>5. CASE outcome = "rotate"
      <4>1. Goes(r, "mark")  BY <2>1, <3>5
      <4>2. QED  BY <1>1, <2>1, <3>1, <4>1
    <3>6. CASE outcome = "rejected"
      <4>1. Replies(r, "rejected")  BY <2>1, <3>6
      <4>2. QED  BY <1>2, <2>1, <3>1, <3>4, <4>1
    <3>7. QED  BY <3>3, <3>5, <3>6
  <2>4. QED  BY <2>2, <2>3
<1>6. CASE MarkRotated(r)
  <2>1. req[r].token \in Current  BY <1>0, <1>6 DEF MarkRotated, Carries, At
  <2>2. overlapUntil[req[r].token] = Never  BY <2>1 DEF Current
  <2>3. Goes(r, "insert") /\ UNCHANGED <<sessionRevoked, familyRevoked, reason, session>>
    BY <1>6, <2>2 DEF MarkRotated, rowVars
  <2>4. QED  BY <1>1, <2>3
<1>7. CASE InsertRefreshToken(r)
  <2> DEFINE login == req[r].op = "login"
             g == generation + 1
             q == [req[r] EXCEPT !.fresh = g, !.pc = IF login THEN "answer" ELSE "check",
                                 !.reply = IF login THEN "pair" ELSE @]
  <2>1. /\ generation < MaxToken /\ generation' = generation + 1 /\ overlapUntil' = overlapUntil
        /\ req' = [req EXCEPT ![r] = q]
        /\ UNCHANGED <<sessionRevoked, familyRevoked, reason, session>>
    BY <1>7 DEF InsertRefreshToken, rowVars
  <2>2. generation \in Nat /\ MaxToken \in Nat
    BY <1>0, SessionsAssumption DEF RowsInOrder
  <2>3. g \in Token /\ g > generation /\ g \in 1..generation'  BY <2>1, <2>2 DEF Token
  <2>4. overlapUntil[g] = Never  BY <2>3 DEF Unspent
  <2>5. g \in Current'  BY <2>1, <2>3, <2>4 DEF Current
  <2>6. /\ q.op = req[r].op /\ q.token = req[r].token /\ q.fresh = g
        /\ q.pc = (IF login THEN "answer" ELSE "check") /\ (login => q.reply = "pair")
    BY <1>0 DEF RequestOK
  <2> HIDE DEF q, g, login
  <2>7. Carries(q, Current', Gone', store')  BY <1>0, <2>5, <2>6 DEF Carries, login
  <2>8. QED  BY <1>0, <2>1, <2>7, AwaitedStep
<1>8. CASE CheckSession(r)
  <2>1. /\ Replies(r, IF sessionRevoked = Never THEN "pair" ELSE "rejected")
        /\ UNCHANGED <<sessionRevoked, familyRevoked, reason, session>>
        /\ Current' = Current /\ Gone' = Gone
    BY <1>8 DEF CheckSession, rowVars, tokenVars, Current, Gone
  <2>2. req[r].fresh \in Current  BY <1>0, <1>8 DEF CheckSession, Carries, At
  <2>3. QED  BY <1>2, <2>1, <2>2 DEF Gone
<1>9. CASE RevokeFamily(r) \/ RevokeSession(r)
  BY <1>0, <1>9 DEF RevokeFamily, RevokeSession, Carries, At
<1>10. CASE Fails(r)
  <2> DEFINE q == [req[r] EXCEPT !.pc = "answer", !.reply = "error", !.fresh = 0]
  <2>1. req' = [req EXCEPT ![r] = q] /\ UNCHANGED <<sessionRevoked, familyRevoked, reason, session>>
    BY <1>10 DEF Fails, rowVars
  <2>2. q.op = req[r].op /\ q.token = req[r].token /\ q.pc = "answer" /\ q.reply = "error"
    BY <1>0 DEF RequestOK
  <2> HIDE DEF q
  <2>3. Carries(q, Current', Gone', store')  BY <1>0, <2>2 DEF Carries
  <2>4. QED  BY <1>0, <2>1, <2>3, AwaitedStep
<1>11. QED
  BY <1>3, <1>4, <1>5, <1>6, <1>7, <1>8, <1>9, <1>10 DEF Query

-----------------------------------------------------------------------------
(* The other steps.                                                        *)

\* A call that goes on, or ends and signs the app out: the service is not told.
LEMMA QuietCall ==
  ASSUME Alone, UNCHANGED <<sessionVars, flight>>, store' = store \/ store' = SignedOut
  PROVE  Alone'
<1>1. /\ req' = req /\ flight' = flight /\ Current' = Current /\ Gone' = Gone
      /\ UNCHANGED <<reason, familyRevoked, session>>
  BY DEF sessionVars, rowVars, tokenVars, Current, Gone
<1>2. Requests'
  <2>1. ASSUME NEW r \in Request
        PROVE  IF r \in flight THEN Carries(req[r], Current, Gone, store') ELSE Rests(req[r])
    BY CarriesOn DEF Alone, Requests
  <2>2. QED  BY <1>1, <2>1 DEF Requests
<1>3. QED  BY <1>1, <1>2 DEF Alone

\* The request that a logout begins, or that is over or lost, is not awaited.
LEMMA RestingStep ==
  ASSUME Alone, NEW r \in Request \ flight, NEW q, req \in [Request -> RequestOK],
         req' = [req EXCEPT ![r] = q], Rests(q),
         UNCHANGED <<flight, session, overlapUntil, generation>>,
         store' = store \/ store' = SignedOut,
         Gone => Gone', familyRevoked' # Never => Gone', reason' # "reuse_detected"
  PROVE  Alone'
<1>1. req'[r] = q /\ \A p \in Request \ {r} : req'[p] = req[p]  OBVIOUS
<1>2. Current' = Current  BY DEF Current
<1>3. ASSUME NEW p \in Request
      PROVE  IF p \in flight THEN Carries(req'[p], Current, Gone', store') ELSE Rests(req'[p])
  <2>1. CASE p = r  BY <1>1, <2>1
  <2>2. CASE p # r /\ p \in flight
    <3>1. Carries(req[p], Current, Gone, store)  BY <2>2 DEF Alone, Requests
    <3>2. Carries(req[p], Current, Gone', store')  BY <3>1, CarriesOn
    <3>3. QED  BY <1>1, <2>2, <3>2
  <2>3. CASE p # r /\ p \notin flight
    BY <1>1, <2>3 DEF Alone, Requests
  <2>4. QED  BY <2>1, <2>2, <2>3
<1>4. Requests'  BY <1>2, <1>3 DEF Requests
<1>5. flight' = {} /\ store' # SignedOut /\ ~Gone' => store'.token \in Current'
  BY <1>2 DEF Alone
<1>6. QED  BY <1>4, <1>5 DEF Alone

\* A logout reaches the service while the app may be awaiting a refresh.
LEMMA LogoutBegins ==
  ASSUME IInv, Alone, NEW r \in Request, BeginLogout(r), UNCHANGED flight,
         store' = store \/ store' = SignedOut
  PROVE  Alone'
<1>1. /\ req[r].pc = "idle"
      /\ req' = [req EXCEPT ![r] = [NoRequest EXCEPT !.pc = "revoke_session", !.op = "logout",
                   !.token = 0, !.at = now, !.after = familyRevoked # Never]]
      /\ UNCHANGED <<session, sessionRevoked, familyRevoked, reason, overlapUntil, generation>>
  BY DEF BeginLogout, Begin, rowVars, tokenVars
<1>2. r \notin flight  BY <1>1 DEF Alone, Requests, Carries
<1>3. Rests([NoRequest EXCEPT !.pc = "revoke_session", !.op = "logout",
                   !.token = 0, !.at = now, !.after = familyRevoked # Never])
  BY DEF Rests, NoRequest
<1>4. req \in [Request -> RequestOK]  BY DEF IInv, TypeOK
<1>5. Gone' = Gone /\ (familyRevoked' # Never => Gone') /\ reason' # "reuse_detected"
  BY <1>1 DEF Gone, Alone
<1>6. QED  BY <1>1, <1>2, <1>3, <1>4, <1>5, RestingStep

\* The service ends a request that the app does not await, or a logout revokes.
LEMMA RestingQuery ==
  ASSUME IInv, Alone, NEW r \in Request \ flight, Query(r) \/ Respond(r) \/ Lose(r),
         UNCHANGED <<flight, store>>
  PROVE  Alone'
<1>0. /\ req \in [Request -> RequestOK] /\ req[r] \in RequestOK
      /\ InOrder(req[r], generation, now, familyRevoked) /\ Rests(req[r])
      /\ req[r].at \in Nat
  BY Parts, Entry DEF Alone, Requests, RequestsInOrder
<1>1. CASE Respond(r) \/ Lose(r)
  <2>1. /\ req' = [req EXCEPT ![r] = NoRequest]
        /\ UNCHANGED <<session, sessionRevoked, familyRevoked, reason, overlapUntil, generation>>
    BY <1>1 DEF Respond, Lose, rowVars, tokenVars
  <2>2. Rests(NoRequest)  BY NoRequestType DEF Rests
  <2>3. Gone' = Gone /\ (familyRevoked' # Never => Gone') /\ reason' # "reuse_detected"
    BY <2>1 DEF Gone, Alone
  <2>4. QED  BY <1>0, <2>1, <2>2, <2>3, RestingStep
<1>2. CASE RevokeSession(r)
  <2>1. req[r].op = "logout"  BY <1>0, <1>2 DEF RevokeSession, At, Rests
  <2>2. /\ req' = [req EXCEPT ![r].pc = "answer", ![r].reply = "done"]
        /\ sessionRevoked' = First(sessionRevoked, req[r].at)
        /\ reason' = IF familyRevoked # Never THEN reason ELSE "logout"
        /\ UNCHANGED <<session, overlapUntil, generation>>
    BY <1>2, <2>1 DEF RevokeSession, Replies, tokenVars
  <2> DEFINE q == [req[r] EXCEPT !.pc = "answer", !.reply = "done"]
  <2>3. req' = [req EXCEPT ![r] = q] /\ Rests(q)
    BY <1>0, <2>1, <2>2 DEF RequestOK, Rests
  <2> HIDE DEF q
  <2>4. req[r].at # Never  BY <1>0, SessionsAssumption
  <2>5. Gone' /\ reason' # "reuse_detected"  BY <2>2, <2>4 DEF First, Gone, Alone
  <2>6. QED  BY <1>0, <2>2, <2>3, <2>5, RestingStep
<1>3. CASE Fails(r)
  <2> DEFINE q == [req[r] EXCEPT !.pc = "answer", !.reply = "error", !.fresh = 0]
  <2>1. /\ req' = [req EXCEPT ![r] = q] /\ req[r].pc \notin {"idle", "answer"}
        /\ UNCHANGED <<session, sessionRevoked, familyRevoked, reason, overlapUntil, generation>>
    BY <1>3 DEF Fails, rowVars, tokenVars
  <2>2. Rests(q)  BY <1>0, <2>1 DEF RequestOK, Rests
  <2>3. Gone' = Gone /\ (familyRevoked' # Never => Gone') /\ reason' # "reuse_detected"
    BY <2>1 DEF Gone, Alone
  <2> HIDE DEF q
  <2>4. QED  BY <1>0, <2>1, <2>2, <2>3, RestingStep
<1>4. ~(CreateSession(r) \/ CreateFamily(r) \/ Load(r) \/ MarkRotated(r)
        \/ InsertRefreshToken(r) \/ CheckSession(r) \/ RevokeFamily(r))
  BY <1>0 DEF Rests, CreateSession, CreateFamily, Load, MarkRotated, InsertRefreshToken,
              CheckSession, RevokeFamily, At
<1>5. QED  BY <1>1, <1>2, <1>3, <1>4 DEF Query

\* The app awaits a request that has just begun; nothing else was awaited.
LEMMA AwaitsNew ==
  ASSUME Alone, flight = {}, NEW r \in Request, NEW q, req \in [Request -> RequestOK],
         req' = [req EXCEPT ![r] = q], flight' = {r}, Carries(q, Current, Gone, store),
         UNCHANGED <<store, sessionRevoked, familyRevoked, reason, overlapUntil, generation>>,
         session' # "none"
  PROVE  Alone'
<1>1. req'[r] = q /\ \A p \in Request \ {r} : req'[p] = req[p]  OBVIOUS
<1>2. Current' = Current /\ Gone' = Gone  BY DEF Current, Gone
<1>3. \A p \in Request \ {r} : Rests(req[p])  BY DEF Alone, Requests
<1>4. Requests'  BY <1>1, <1>2, <1>3 DEF Requests
<1>5. QED  BY <1>2, <1>4 DEF Alone

LEMMA SignInStep ==
  ASSUME IInv, Alone, NEW r \in Request, SignIn(r)
  PROVE  Alone'
<1> DEFINE q == [NoRequest EXCEPT !.pc = "create_session", !.op = "login",
                   !.token = 0, !.at = now, !.after = familyRevoked # Never]
<1>1. /\ session = "none" /\ session' # "none" /\ req' = [req EXCEPT ![r] = q]
      /\ flight' = {r}
      /\ UNCHANGED <<store, sessionRevoked, familyRevoked, reason, overlapUntil, generation>>
  BY DEF SignIn, BeginLogin, Begin, tokenVars
<1>2. store = SignedOut /\ flight = {}  BY <1>1 DEF Alone
<1>3. Carries(q, Current, Gone, store)  BY <1>2 DEF Carries, NoRequest
<1>4. req \in [Request -> RequestOK]  BY DEF IInv, TypeOK
<1> HIDE DEF q
<1>5. QED  BY <1>1, <1>2, <1>3, <1>4, AwaitsNew

\* What is stored would be rotated, or the session is revoked and its refresh
\* comes late.
LEMMA StartsRefreshStep ==
  ASSUME IInv, Alone, NEW c \in Call, StartsRefresh(c)
  PROVE  Alone'
<1>1. PICK r \in Request : BeginRefresh(r, store.token) /\ flight' = {r}
  BY DEF StartsRefresh
<1> DEFINE late == familyRevoked # Never
           q == [NoRequest EXCEPT !.pc = "load", !.op = "refresh",
                   !.token = store.token, !.at = now, !.after = late]
<1>2. /\ flight = {} /\ store # SignedOut /\ store' = store
      /\ req' = [req EXCEPT ![r] = q]
      /\ UNCHANGED <<session, sessionRevoked, familyRevoked, reason, overlapUntil, generation>>
  BY <1>1 DEF StartsRefresh, BeginRefresh, Begin, rowVars, tokenVars
<1>3. late \/ store.token \in Current
  <2>1. Gone => late  BY DEF Gone, IInv, FamilyFollowsSession
  <2>2. QED  BY <1>2, <2>1 DEF Alone
<1>4. q.pc = "load" /\ q.op = "refresh" /\ q.token = store.token /\ q.after = late
  BY DEF NoRequest
<1>5. session' # "none"  BY <1>2 DEF Alone
<1>6. req \in [Request -> RequestOK]  BY DEF IInv, TypeOK
<1> HIDE DEF q, late
<1>7. Carries(q, Current, Gone, store)  BY <1>3, <1>4 DEF Carries
<1>8. QED  BY <1>1, <1>2, <1>5, <1>6, <1>7, AwaitsNew

\* The answer is a pair, and its token is stored; or the stored token still
\* would be rotated; or the session is revoked.
LEMMA ReceivesStep ==
  ASSUME IInv, Alone, mishap = "none", mishap' = "none", NEW r \in Request, Receives(r)
  PROVE  Alone'
<1>1. /\ r \in flight /\ flight' = flight \ {r} /\ req[r].pc = "answer"
      /\ req' = [req EXCEPT ![r] = NoRequest]
      /\ UNCHANGED <<session, sessionRevoked, familyRevoked, reason, overlapUntil, generation>>
  BY DEF Receives, Respond, At, rowVars, tokenVars
<1>2. flight' = {}  BY <1>1 DEF Alone
<1>3. /\ Carries(req[r], Current, Gone, store)
      /\ req \in [Request -> RequestOK]
      /\ generation \in Nat
  BY <1>1, Parts, SessionsAssumption DEF Alone, Requests, RequestsInOrder, RowsInOrder
<1>4. Requests'
  <2>1. \A p \in Request \ {r} : req'[p] = req[p] /\ Rests(req[p])
    BY <1>1, <1>3 DEF Alone, Requests
  <2>2. Rests(NoRequest) /\ req'[r] = NoRequest
    BY <1>1, <1>3, NoRequestType DEF Rests
  <2>3. QED  BY <1>2, <2>1, <2>2 DEF Requests
<1>5. store' # SignedOut /\ ~Gone => store'.token \in Current
  <2>1. CASE req[r].reply = "pair"
    <3>1. req[r].fresh \in Current  BY <1>1, <1>3, <2>1 DEF Carries
    <3>2. req[r].fresh # 0  BY <1>3, <3>1 DEF Current
    <3>3. store'.token = req[r].fresh  BY <2>1, <3>2 DEF Receives
    <3>4. QED  BY <3>1, <3>3
  <2>2. CASE req[r].reply = "error"
    <3>1. mishap' = Worse("lost")  BY <2>2 DEF Receives
    <3>2. QED  BY <3>1, WorseIsNotNone
  <2>3. CASE req[r].reply = "rejected"
    <3>1. store' = store  BY <2>3 DEF Receives
    <3>2. QED  BY <1>1, <1>3, <2>3, <3>1 DEF Carries
  <2>4. QED  BY <1>1, <1>3, <2>1, <2>2, <2>3 DEF Carries
<1>6. Current' = Current /\ Gone' = Gone  BY <1>1 DEF Current, Gone
<1>7. session' # "none"  BY <1>1 DEF Alone
<1>8. QED  BY <1>1, <1>2, <1>4, <1>5, <1>6, <1>7 DEF Alone

LEMMA KeptInit == AppInit => Kept
<1>1. SUFFICES ASSUME AppInit PROVE Kept  OBVIOUS
<1>2. Unspent  BY <1>1 DEF AppInit, Init, Unspent
<1>3. \A r \in Request : req[r].pc = "idle"  BY <1>1, NoRequestType DEF AppInit, Init
<1>4. Alone  BY <1>1, <1>3 DEF AppInit, Init, Alone, Requests, Rests
<1>5. QED  BY <1>2, <1>4 DEF Kept

LEMMA KeptStep ==
  ASSUME AppInv, Kept, [AppNext]_<<sessionVars, appVars>>
  PROVE  Kept'
<1>1. IInv /\ Unspent /\ [Next]_sessionVars  BY AppStep DEF AppInv, Kept
<1>2. Unspent'  BY <1>1, UnspentStep
<1>3. mishap' = "none" => mishap = "none"
  <2>1. mishap' = mishap \/ mishap' = Worse("lost") \/ mishap' = Worse("retried")
        \/ mishap' = "stolen"
    BY DEF AppNext, App, Send, Accepted, Refused, SurfacesExpiry, StartsRefresh, JoinsRefresh,
           Replays, GivesUpSession, SignIn, Receives, Misses, Server, Stolen, appVars
  <2>2. QED  BY <2>1, WorseIsNotNone
<1>4. SUFFICES ASSUME mishap' = "none", mishap = "none", Alone PROVE Alone'
  BY <1>2, <1>3 DEF Kept
<1>5. CASE Tick /\ UNCHANGED appVars
  <2>1. UNCHANGED <<req, flight, store, rowVars, tokenVars>>  BY <1>5 DEF Tick, appVars
  <2>2. QED
    BY <1>4, <2>1 DEF Alone, Requests, Current, Gone, rowVars, tokenVars
<1>6. CASE UNCHANGED <<sessionVars, appVars>>
  BY <1>4, <1>6, QuietCall DEF appVars
<1>7. ASSUME NEW c \in Call, App(c)  PROVE Alone'
  <2>1. CASE StartsRefresh(c)  BY <1>1, <1>4, <2>1, StartsRefreshStep
  <2>2. CASE Accepted(c)
    <3>1. (UNCHANGED sessionVars \/ \E r \in Request : BeginLogout(r)) /\ UNCHANGED flight
          /\ (store' = store \/ store' = SignedOut)
      BY <2>2 DEF Accepted, Ends, AfterCalls
    <3>2. QED  BY <1>1, <1>4, <3>1, QuietCall, LogoutBegins
  <2>3. CASE Send(c, "api") \/ Send(c, "logout") \/ Refused(c) \/ SurfacesExpiry(c)
             \/ JoinsRefresh(c) \/ Replays(c) \/ GivesUpSession(c)
    <3>1. UNCHANGED <<sessionVars, flight>> /\ (store' = store \/ store' = SignedOut)
      BY <2>3 DEF Send, Refused, SurfacesExpiry, JoinsRefresh, Replays, GivesUpSession,
                  Ends, AfterCalls
    <3>2. QED  BY <1>4, <3>1, QuietCall
  <2>4. QED  BY <1>7, <2>1, <2>2, <2>3 DEF App
<1>8. ASSUME NEW r \in Request, Server(r)  PROVE Alone'
  <2>1. UNCHANGED <<flight, store>> /\ (Query(r) \/ (r \notin flight /\ (Respond(r) \/ Lose(r))))
    BY <1>8 DEF Server, appVars
  <2>2. QED  BY <1>1, <1>4, <2>1, AwaitedQuery, RestingQuery
<1>9. ASSUME NEW r \in Request, Misses(r) \/ \E t \in handed : Stolen(r, t)  PROVE FALSE
  BY <1>4, <1>9, WorseIsNotNone DEF Misses, Stolen
<1>10. QED
  BY <1>1, <1>4, <1>5, <1>6, <1>7, <1>8, <1>9, SignInStep, ReceivesStep DEF AppNext

\* ADR-011, auth_interceptor.dart: however many calls meet the expiry of one
\* access token, and wherever a logout falls among them, the app's own refreshes
\* are not taken for a thief's, and between two of them it holds the token that
\* the service would rotate; unless an answer is lost or fails, or somebody else
\* presents a token.
THEOREM AppKeepsItsSession == AppSpec => []KeepsItsSession
<1>1. AppInit => Kept  BY KeptInit
<1>2. AppInv /\ Kept /\ [AppNext]_<<sessionVars, appVars>> => Kept'  BY KeptStep
<1>3. Kept => KeepsItsSession  BY DEF Kept, Alone, Gone, KeepsItsSession
<1>4. QED  BY <1>1, <1>2, <1>3, AppInvariant, PTL DEF AppSpec

-----------------------------------------------------------------------------
(* The test double answers as the Postgres store would.                    *)

\* How far a login has got, and that nothing is stored before its family; a
\* family is revoked and given its reason together.
StoredInOrder ==
  /\ \A r \in Request :
       /\ req[r].pc = "create_session" => session = "begun"
       /\ req[r].pc = "create_family" => session = "row"
       /\ req[r].pc = "insert" => session = "family"
  /\ session # "family" => generation = 0
  /\ familyRevoked = Never <=> reason = "none"

\* What the double holds, as a function of what Postgres holds.
Alike ==
  /\ dSession = [there |-> session \in {"row", "family"}, revoked |-> sessionRevoked]
  /\ dFamily = [there |-> session = "family", revoked |-> familyRevoked, why |-> reason]
  /\ dToken = [t \in Token |-> IF t \in 1..generation THEN RefreshTokenByHash(t) ELSE Unstored]

\* While one request is about to store something, no other is.
LEMMA OneGoesOn ==
  ASSUME IInv, NEW r \in Request, NEW q \in Request, q # r,
         req[r].pc \in {"create_session", "create_family", "insert"}
  PROVE  req[q].pc \notin {"create_session", "create_family", "insert"}
  BY DEF IInv, OneBranch, Minting

LEMMA StoredStays ==
  ASSUME StoredInOrder, req \in [Request -> RequestOK], NEW r \in Request, NEW q,
         req' = [req EXCEPT ![r] = q],
         q.pc \notin {"create_session", "create_family"},
         q.pc = "insert" => session = "family",
         UNCHANGED <<session, generation>>,
         familyRevoked' = Never <=> reason' = "none"
  PROVE  StoredInOrder'
<1>1. req'[r] = q /\ \A p \in Request \ {r} : req'[p] = req[p]  OBVIOUS
<1>2. QED  BY <1>1 DEF StoredInOrder

LEMMA StoredStep ==
  ASSUME IInv, StoredInOrder, [Next]_sessionVars
  PROVE  StoredInOrder'
<1>0. RequestsInOrder /\ RowsInOrder /\ req \in [Request -> RequestOK] /\ generation \in Nat
  BY Parts, SessionsAssumption DEF RequestsInOrder, RowsInOrder
<1>1. CASE Tick \/ UNCHANGED sessionVars
  BY <1>1 DEF Tick, sessionVars, rowVars, tokenVars, StoredInOrder
<1>2. ASSUME NEW r \in Request, Start(r) \/ Query(r) \/ Respond(r) \/ Lose(r)
      PROVE  StoredInOrder'
  <2>0. req[r] \in RequestOK /\ InOrder(req[r], generation, now, familyRevoked)
        /\ req[r].at # Never
    BY <1>0, Entry, SessionsAssumption
  <2>1. CASE BeginLogin(r)
    <3> DEFINE q == [NoRequest EXCEPT !.pc = "create_session", !.op = "login",
                       !.token = 0, !.at = now, !.after = familyRevoked # Never]
    <3>1. /\ session = "none" /\ session' = "begun" /\ req' = [req EXCEPT ![r] = q]
          /\ UNCHANGED <<familyRevoked, reason, generation>>
      BY <2>1 DEF BeginLogin, Begin, tokenVars
    <3>2. q.pc = "create_session"  BY DEF NoRequest
    <3> HIDE DEF q
    <3>3. req'[r] = q /\ \A p \in Request \ {r} : req'[p] = req[p]  BY <1>0, <3>1
    <3>4. \A p \in Request : req[p].pc \notin {"create_session", "create_family", "insert"}
      BY <3>1 DEF StoredInOrder
    <3>5. QED  BY <3>1, <3>2, <3>3, <3>4 DEF StoredInOrder
  <2>2. CASE (\E t \in handed : BeginRefresh(r, t)) \/ BeginLogout(r)
    <3>1. PICK op \in {"refresh", "logout"}, pc \in {"load", "revoke_session"},
               t \in handed \cup {0} :
            Begin(r, op, pc, t) /\ UNCHANGED <<session, generation, familyRevoked, reason>>
      BY <2>2 DEF BeginRefresh, BeginLogout, rowVars, tokenVars
    <3> DEFINE q == [NoRequest EXCEPT !.pc = pc, !.op = op, !.token = t, !.at = now,
                                      !.after = familyRevoked # Never]
    <3>2. req' = [req EXCEPT ![r] = q]  BY <3>1 DEF Begin
    <3>3. q.pc = pc  BY DEF NoRequest
    <3> HIDE DEF q
    <3>4. familyRevoked' = Never <=> reason' = "none"  BY <3>1 DEF StoredInOrder
    <3>5. QED  BY <1>0, <3>1, <3>2, <3>3, <3>4, StoredStays
  <2>3. ASSUME NEW from, NEW to, req[r].pc = from, Goes(r, to), session' = IF to = "insert" THEN "family" ELSE "row",
               from \in {"create_session", "create_family"}, to \in {"create_family", "insert"},
               to = "create_family" <=> from = "create_session",
               UNCHANGED <<generation, familyRevoked, reason>>
        PROVE  StoredInOrder'
    <3>1. req'[r].pc = to /\ \A p \in Request \ {r} : req'[p] = req[p]
      BY <1>0, <2>0, <2>3 DEF Goes, RequestOK
    <3>2. \A p \in Request \ {r} : req[p].pc \notin {"create_session", "create_family", "insert"}
      BY <2>3, OneGoesOn
    <3>3. session # "family"  BY <2>3 DEF StoredInOrder
    <3>4. generation' = 0  BY <2>3, <3>3 DEF StoredInOrder
    <3>5. QED  BY <2>3, <3>1, <3>2, <3>4 DEF StoredInOrder
  <2>4. CASE CreateSession(r)
    BY <2>3, <2>4 DEF CreateSession, At, tokenVars
  <2>5. CASE CreateFamily(r)
    BY <2>3, <2>5 DEF CreateFamily, At, tokenVars
  <2>6. ASSUME NEW pc, Goes(r, pc), pc \in {"mark", "check", "revoke_family", "revoke_session", "insert"},
               pc = "insert" => session = "family",
               UNCHANGED <<session, generation>>, familyRevoked' = Never <=> reason' = "none"
        PROVE  StoredInOrder'
    <3> DEFINE q == [req[r] EXCEPT !.pc = pc]
    <3>1. req' = [req EXCEPT ![r] = q]  BY <2>6 DEF Goes
    <3>2. q.pc = pc  BY <2>0 DEF RequestOK
    <3> HIDE DEF q
    <3>3. QED  BY <1>0, <2>6, <3>1, <3>2, StoredStays
  <2>7. ASSUME NEW reply, Replies(r, reply),
               UNCHANGED <<session, generation>>, familyRevoked' = Never <=> reason' = "none"
        PROVE  StoredInOrder'
    <3> DEFINE q == [req[r] EXCEPT !.pc = "answer", !.reply = reply]
    <3>1. req' = [req EXCEPT ![r] = q]  BY <2>7 DEF Replies
    <3>2. q.pc = "answer"  BY <2>0 DEF RequestOK
    <3> HIDE DEF q
    <3>3. QED  BY <1>0, <2>7, <3>1, <3>2, StoredStays
  <2>8. CASE Load(r)
    <3>1. UNCHANGED <<session, generation, familyRevoked, reason>>
          /\ (familyRevoked' = Never <=> reason' = "none")
      BY <2>8 DEF Load, rowVars, tokenVars, StoredInOrder
    <3>2. Goes(r, "mark") \/ Goes(r, "check") \/ Goes(r, "revoke_family") \/ Replies(r, "rejected")
      BY <2>8 DEF Load
    <3>3. QED  BY <2>6, <2>7, <3>1, <3>2
  <2>9. CASE MarkRotated(r)
    <3>1. UNCHANGED <<session, generation, familyRevoked, reason>>
          /\ (familyRevoked' = Never <=> reason' = "none")
      BY <2>9 DEF MarkRotated, rowVars, StoredInOrder
    <3>2. Goes(r, "insert") \/ Goes(r, "check")  BY <2>9 DEF MarkRotated
    <3>3. req[r].token \in 1..generation  BY <2>0, <2>9 DEF MarkRotated, At, InOrder
    <3>4. generation # 0  BY <1>0, <3>3
    <3>5. session = "family"  BY <3>4 DEF StoredInOrder
    <3>6. QED  BY <2>6, <3>1, <3>2, <3>5
  <2>10. CASE InsertRefreshToken(r)
    <3>1. /\ session' = session /\ UNCHANGED <<familyRevoked, reason>> /\ req[r].pc = "insert"
          /\ \A p \in Request \ {r} : req'[p] = req[p]
      BY <1>0, <2>10 DEF InsertRefreshToken, At, rowVars
    <3>2. req'[r].pc \in {"answer", "check"}
      BY <1>0, <2>0, <2>10 DEF InsertRefreshToken, RequestOK
    <3>3. session = "family"  BY <3>1 DEF StoredInOrder
    <3>4. QED  BY <3>1, <3>2, <3>3 DEF StoredInOrder
  <2>11. CASE CheckSession(r)
    <3>1. UNCHANGED <<session, generation, familyRevoked, reason>>
          /\ (familyRevoked' = Never <=> reason' = "none")
      BY <2>11 DEF CheckSession, rowVars, tokenVars, StoredInOrder
    <3>2. QED  BY <2>7, <2>11, <3>1 DEF CheckSession
  <2>12. CASE RevokeFamily(r)
    <3>1. UNCHANGED <<session, generation>> /\ Goes(r, "revoke_session")
          /\ familyRevoked' = First(familyRevoked, req[r].at)
          /\ reason' = IF reason = "none" THEN "reuse_detected" ELSE reason
      BY <2>12 DEF RevokeFamily, tokenVars
    <3>2. familyRevoked' # Never /\ reason' # "none"  BY <2>0, <3>1 DEF First
    <3>3. QED  BY <2>6, <3>1, <3>2
  <2>13. CASE RevokeSession(r)
    <3>1. /\ UNCHANGED <<session, generation>>
          /\ Replies(r, IF req[r].op = "logout" THEN "done" ELSE "rejected")
          /\ familyRevoked' = First(familyRevoked, req[r].at)
          /\ reason' = IF familyRevoked # Never THEN reason
                       ELSE IF req[r].op = "logout" THEN "logout" ELSE "reuse_detected"
      BY <2>13 DEF RevokeSession, tokenVars
    <3>2. familyRevoked' # Never /\ reason' # "none"
      BY <2>0, <3>1 DEF First, StoredInOrder
    <3>3. QED  BY <2>7, <3>1, <3>2
  <2>14. CASE Fails(r)
    <3> DEFINE q == [req[r] EXCEPT !.pc = "answer", !.reply = "error", !.fresh = 0]
    <3>1. /\ req' = [req EXCEPT ![r] = q]
          /\ UNCHANGED <<session, generation, familyRevoked, reason>>
          /\ familyRevoked' = Never <=> reason' = "none"
      BY <2>14 DEF Fails, rowVars, tokenVars, StoredInOrder
    <3>2. q.pc = "answer"  BY <2>0 DEF RequestOK
    <3> HIDE DEF q
    <3>3. QED  BY <1>0, <3>1, <3>2, StoredStays
  <2>15. CASE Respond(r) \/ Lose(r)
    <3>1. /\ req' = [req EXCEPT ![r] = NoRequest]
          /\ UNCHANGED <<session, generation, familyRevoked, reason>>
          /\ familyRevoked' = Never <=> reason' = "none"
      BY <2>15 DEF Respond, Lose, rowVars, tokenVars, StoredInOrder
    <3>2. QED  BY <1>0, <3>1, NoRequestType, StoredStays
  <2>16. QED
    BY <1>2, <2>1, <2>2, <2>4, <2>5, <2>8, <2>9, <2>10, <2>11, <2>12, <2>13, <2>14, <2>15
       DEF Start, Query
<1>3. QED  BY <1>1, <1>2 DEF Next

Copy(a, b, c, d) ==
  [stored |-> TRUE, expires |-> a, overlapUntil |-> b, familyRevoked |-> c, why |-> d]

WithOverlap(f, b) == [f EXCEPT !.overlapUntil = b]
WithFamily(f, c, d) == [f EXCEPT !.familyRevoked = c, !.why = d]
Filled(a, b, c, d) ==
  [Unstored EXCEPT !.stored = TRUE, !.expires = a, !.overlapUntil = b,
                   !.familyRevoked = c, !.why = d]

CopySet(a, b, c, d) ==
  [stored : {TRUE}, expires : {a}, overlapUntil : {b}, familyRevoked : {c}, why : {d}]

\* A record is known by its fields.
LEMMA IsCopy ==
  ASSUME NEW a, NEW b, NEW c, NEW d, NEW f \in CopySet(a, b, c, d)
  PROVE  f = Copy(a, b, c, d)
  BY DEF Copy, CopySet

LEMMA FilledIsCopy ==
  ASSUME NEW a, NEW b, NEW c, NEW d
  PROVE  Filled(a, b, c, d) = Copy(a, b, c, d)
<1>1. Filled(a, b, c, d) \in CopySet(a, b, c, d)  BY DEF Filled, Unstored, CopySet
<1>2. QED  BY <1>1, IsCopy

LEMMA CopyFields ==
  ASSUME NEW a, NEW b, NEW c, NEW d
  PROVE  /\ Copy(a, b, c, d).stored
         /\ Copy(a, b, c, d).overlapUntil = b
         /\ \A v : WithOverlap(Copy(a, b, c, d), v) = Copy(a, v, c, d)
         /\ \A v, w : WithFamily(Copy(a, b, c, d), v, w) = Copy(a, b, v, w)
<1>1. Copy(a, b, c, d).stored /\ Copy(a, b, c, d).overlapUntil = b
  BY DEF Copy
<1>2. ASSUME NEW v  PROVE WithOverlap(Copy(a, b, c, d), v) = Copy(a, v, c, d)
  <2>1. WithOverlap(Copy(a, b, c, d), v) \in CopySet(a, v, c, d)
    BY DEF Copy, WithOverlap, CopySet
  <2>2. QED  BY <2>1, IsCopy
<1>3. ASSUME NEW v, NEW w  PROVE WithFamily(Copy(a, b, c, d), v, w) = Copy(a, b, v, w)
  <2>1. WithFamily(Copy(a, b, c, d), v, w) \in CopySet(a, b, v, w)
    BY DEF Copy, WithFamily, CopySet
  <2>2. QED  BY <2>1, IsCopy
<1>4. QED  BY <1>1, <1>2, <1>3

LEMMA UnstoredFields == ~Unstored.stored
  BY DEF Unstored

LEMMA Row ==
  ASSUME NEW t
  PROVE  RefreshTokenByHash(t) =
           Copy(issuedAt[t] + RefreshTokenTTL, overlapUntil[t], familyRevoked, reason)
<1>1. RefreshTokenByHash(t) =
        Filled(issuedAt[t] + RefreshTokenTTL, overlapUntil[t], familyRevoked, reason)
  BY DEF RefreshTokenByHash, Filled
<1>2. QED  BY <1>1, FilledIsCopy

\* A step of a request that writes to both.
LEMMA WritesStep ==
  ASSUME IInv, Unspent, StoredInOrder, Alike, NEW r \in Request, Writes(r)
  PROVE  Alike'
<1> DEFINE D(t) ==
             Copy(issuedAt[t] + RefreshTokenTTL, overlapUntil[t], familyRevoked, reason)
           E(t) ==
             Copy(issuedAt'[t] + RefreshTokenTTL, overlapUntil'[t], familyRevoked', reason')
<1>0. /\ RequestsInOrder /\ RowsInOrder /\ generation \in Nat /\ MaxToken \in Nat
      /\ overlapUntil \in [Token -> Instant] /\ issuedAt \in [Token -> Nat]
      /\ InOrder(req[r], generation, now, familyRevoked)
      /\ req[r].at # Never
      /\ 1..generation \subseteq Token
  BY Parts, Entry, SessionsAssumption DEF RowsInOrder, Token
<1>1. dToken = [t \in Token |-> IF t \in 1..generation THEN D(t) ELSE Unstored]
  BY Row DEF Alike
<1>2. ASSUME dToken' = [t \in Token |-> IF t \in 1..generation' THEN E(t) ELSE Unstored],
             dSession' = [there |-> session' \in {"row", "family"}, revoked |-> sessionRevoked'],
             dFamily' = [there |-> session' = "family", revoked |-> familyRevoked', why |-> reason']
      PROVE  Alike'
  <2>1. ASSUME NEW t  PROVE RefreshTokenByHash(t)' = E(t)
    <3>1. RefreshTokenByHash(t)' =
            Filled(issuedAt'[t] + RefreshTokenTTL, overlapUntil'[t], familyRevoked', reason')
      BY DEF RefreshTokenByHash, Filled
    <3>2. QED  BY <3>1, FilledIsCopy
  <2>2. QED  BY <1>2, <2>1 DEF Alike
<1>3. CASE CreateSession(r) /\ dCreateSession
  <2>1. /\ session = "begun" /\ session' = "row"
        /\ UNCHANGED <<sessionRevoked, familyRevoked, reason, generation, issuedAt, overlapUntil>>
        /\ dSession' = [dSession EXCEPT !.there = TRUE] /\ UNCHANGED <<dFamily, dToken>>
    BY <1>3 DEF CreateSession, dCreateSession, At, tokenVars, StoredInOrder
  <2>2. QED  BY <1>1, <1>2, <2>1 DEF Alike
<1>4. CASE CreateFamily(r) /\ dCreateFamily
  <2>1. /\ session = "row" /\ session' = "family"
        /\ UNCHANGED <<sessionRevoked, familyRevoked, reason, generation, issuedAt, overlapUntil>>
        /\ dFamily' = [dFamily EXCEPT !.there = TRUE] /\ UNCHANGED <<dSession, dToken>>
    BY <1>4 DEF CreateFamily, dCreateFamily, At, tokenVars, StoredInOrder
  <2>2. dToken' = [t \in Token |-> IF t \in 1..generation' THEN E(t) ELSE Unstored]
    BY <1>1, <2>1
  <2>3. dSession' = [there |-> session' \in {"row", "family"}, revoked |-> sessionRevoked']
    <3>1. (session \in {"row", "family"}) = (session' \in {"row", "family"})  BY <2>1
    <3>2. QED  BY <2>1, <3>1 DEF Alike
  <2>4. dFamily' = [there |-> session' = "family", revoked |-> familyRevoked', why |-> reason']
    <3>1. (session = "family") = FALSE /\ (session' = "family") = TRUE  BY <2>1
    <3>2. dFamily = [there |-> FALSE, revoked |-> familyRevoked, why |-> reason]
      BY <3>1 DEF Alike
    <3>3. dFamily' = [there |-> TRUE, revoked |-> familyRevoked', why |-> reason']
      BY <2>1, <3>2
    <3>4. QED  BY <3>1, <3>3
  <2>5. QED  BY <1>2, <2>2, <2>3, <2>4
<1>5. CASE InsertRefreshToken(r) /\ dInsertRefreshToken(generation', req[r].at)
  <2> DEFINE g == generation + 1
  <2>1. /\ session = "family" /\ generation < MaxToken /\ generation' = g
        /\ UNCHANGED <<session, sessionRevoked, familyRevoked, reason, overlapUntil>>
        /\ issuedAt' = [issuedAt EXCEPT ![g] = req[r].at]
    BY <1>5 DEF InsertRefreshToken, At, rowVars, StoredInOrder
  <2>2. dFamily = [there |-> TRUE, revoked |-> familyRevoked, why |-> reason]
    BY <2>1 DEF Alike
  <2>3. /\ dToken' = [dToken EXCEPT ![g] =
                       Copy(req[r].at + RefreshTokenTTL, Never, familyRevoked, reason)]
        /\ UNCHANGED <<dSession, dFamily>>
    BY <1>5, <2>1, <2>2 DEF dInsertRefreshToken, Copy
  <2>4. g \in Token /\ g > generation  BY <1>0, <2>1 DEF Token
  <2>5. overlapUntil[g] = Never  BY <2>4 DEF Unspent
  <2>6. \A t \in Token : t # g => (t \in 1..generation' <=> t \in 1..generation)
    BY <1>0, <2>1 DEF Token
  <2>7. g \in 1..generation'  BY <1>0, <2>1
  <2> HIDE DEF g
  <2>8. ASSUME NEW t \in Token
        PROVE  dToken'[t] = IF t \in 1..generation' THEN E(t) ELSE Unstored
    <3>1. CASE t = g
      BY <1>0, <1>1, <2>1, <2>3, <2>4, <2>5, <2>7, <3>1
    <3>2. CASE t # g
      <4>1. dToken'[t] = dToken[t] /\ issuedAt'[t] = issuedAt[t]  BY <1>0, <1>1, <2>1, <2>3, <3>2
      <4>2. dToken[t] = IF t \in 1..generation THEN D(t) ELSE Unstored  BY <1>1
      <4>3. E(t) = D(t)  BY <2>1, <4>1
      <4>4. QED  BY <2>6, <3>2, <4>1, <4>2, <4>3
    <3>3. QED  BY <3>1, <3>2
  <2>9. dToken' = [t \in Token |-> dToken'[t]]  BY <1>1, <2>3
  <2>10. dToken' = [t \in Token |-> IF t \in 1..generation' THEN E(t) ELSE Unstored]
    BY <2>8, <2>9
  <2>11. QED  BY <1>2, <2>1, <2>3, <2>10 DEF Alike
<1>6. CASE MarkRotated(r) /\ dMarkRotated(req[r].token, req[r].at)
  <2> DEFINE k == req[r].token
             until == req[r].at + OverlapWindow
  <2>1. /\ UNCHANGED <<session, sessionRevoked, familyRevoked, reason, generation, issuedAt>>
        /\ overlapUntil' = IF overlapUntil[k] = Never THEN [overlapUntil EXCEPT ![k] = until]
                           ELSE overlapUntil
    BY <1>6 DEF MarkRotated, rowVars
  <2>2. k \in 1..generation /\ k \in Token  BY <1>0, <1>6 DEF MarkRotated, At, InOrder
  <2>3. dToken[k] = D(k)  BY <1>1, <2>2
  <2>4. dRotates(k) <=> overlapUntil[k] = Never  BY <2>3, CopyFields DEF dRotates
  <2>5. /\ dToken' = IF overlapUntil[k] = Never
                     THEN [dToken EXCEPT ![k].overlapUntil = until] ELSE dToken
        /\ UNCHANGED <<dSession, dFamily>>
    BY <1>6, <2>4 DEF dMarkRotated
  <2> HIDE DEF k, until
  <2>6. ASSUME NEW t \in Token
        PROVE  dToken'[t] = IF t \in 1..generation THEN E(t) ELSE Unstored
    <3>1. CASE t = k
      <4>1. CASE overlapUntil[k] = Never
        <5>1. dToken'[k] = WithOverlap(dToken[k], until)
          BY <1>1, <2>2, <2>5, <4>1 DEF WithOverlap
        <5>2. overlapUntil'[k] = until  BY <1>0, <2>1, <2>2, <4>1
        <5>3. dToken'[k] = E(k)  BY <2>1, <2>3, <5>1, <5>2, CopyFields
        <5>4. QED  BY <2>2, <3>1, <5>3
      <4>2. CASE overlapUntil[k] # Never
        BY <2>1, <2>2, <2>3, <2>5, <3>1, <4>2
      <4>3. QED  BY <4>1, <4>2
    <3>2. CASE t # k
      BY <1>0, <1>1, <2>1, <2>5, <3>2
    <3>3. QED  BY <3>1, <3>2
  <2>7. dToken' = [t \in Token |-> dToken'[t]]  BY <1>1, <2>5
  <2>8. dToken' = [t \in Token |-> IF t \in 1..generation' THEN E(t) ELSE Unstored]
    BY <2>1, <2>6, <2>7
  <2>9. QED  BY <1>2, <2>1, <2>5, <2>8 DEF Alike
\* The copies follow the family's row.
<1>7. ASSUME UNCHANGED <<session, generation, issuedAt, overlapUntil>>,
             dFamily' = [dFamily EXCEPT !.revoked = familyRevoked', !.why = reason'],
             propagateRevocationLocked(dFamily'),
             dSession' = [there |-> session' \in {"row", "family"}, revoked |-> sessionRevoked']
      PROVE  Alike'
  <2>1. dFamily' = [there |-> session' = "family", revoked |-> familyRevoked', why |-> reason']
    BY <1>7 DEF Alike
  <2>2. dFamily'.revoked = familyRevoked' /\ dFamily'.why = reason'  BY <2>1
  <2>3. dToken' = [t \in Token |->
          IF dToken[t].stored
          THEN [dToken[t] EXCEPT !.familyRevoked = familyRevoked', !.why = reason']
          ELSE dToken[t]]
    BY <1>7, <2>2 DEF propagateRevocationLocked
  <2>4. ASSUME NEW t \in Token
        PROVE  (IF dToken[t].stored
                THEN [dToken[t] EXCEPT !.familyRevoked = familyRevoked', !.why = reason']
                ELSE dToken[t]) = IF t \in 1..generation' THEN E(t) ELSE Unstored
    <3>1. CASE t \in 1..generation
      <4>1. dToken[t] = D(t)  BY <1>1, <3>1
      <4>2. dToken[t].stored  BY <4>1, CopyFields
      <4>3. WithFamily(dToken[t], familyRevoked', reason') = E(t)
        BY <1>7, <4>1, CopyFields
      <4>4. QED  BY <1>7, <3>1, <4>2, <4>3 DEF WithFamily
    <3>2. CASE t \notin 1..generation
      <4>1. dToken[t] = Unstored  BY <1>1, <3>2
      <4>2. QED  BY <1>7, <3>2, <4>1, UnstoredFields
    <3>3. QED  BY <3>1, <3>2
  <2>5. QED  BY <1>2, <1>7, <2>1, <2>3, <2>4
<1>8. CASE RevokeFamily(r) /\ dRevokeFamily("reuse_detected", req[r].at)
  <2>1. /\ UNCHANGED <<session, sessionRevoked, generation, issuedAt, overlapUntil>>
        /\ familyRevoked' = First(familyRevoked, req[r].at)
        /\ reason' = IF reason = "none" THEN "reuse_detected" ELSE reason
        /\ dFamily' = RevokedFor("reuse_detected", req[r].at)
        /\ propagateRevocationLocked(RevokedFor("reuse_detected", req[r].at))
        /\ dSession' = dSession
    BY <1>8 DEF RevokeFamily, dRevokeFamily, Revokes, tokenVars
  <2>2. dFamily.revoked = familyRevoked /\ dFamily.why = reason  BY DEF Alike
  <2>3. dFamily' = [dFamily EXCEPT !.revoked = familyRevoked', !.why = reason']
    BY <2>1, <2>2 DEF RevokedFor, First, StoredInOrder, Alike
  <2>4. QED  BY <1>7, <2>1, <2>3 DEF Alike
<1>9. CASE RevokeSession(r) /\ dRevokeSession(Reason(r), req[r].at)
  <2>1. /\ UNCHANGED <<session, generation, issuedAt, overlapUntil>>
        /\ sessionRevoked' = First(sessionRevoked, req[r].at)
        /\ familyRevoked' = First(familyRevoked, req[r].at)
        /\ reason' = IF familyRevoked # Never THEN reason ELSE Reason(r)
        /\ dSession' = [dSession EXCEPT !.revoked = First(@, req[r].at)]
        /\ IF dFamily.revoked = Never THEN Revokes(RevokedFor(Reason(r), req[r].at))
           ELSE UNCHANGED <<dFamily, dToken>>
    BY <1>9 DEF RevokeSession, dRevokeSession, Reason, tokenVars
  <2>2. dFamily.revoked = familyRevoked /\ dFamily.why = reason  BY DEF Alike
  <2>3. dSession' = [there |-> session' \in {"row", "family"}, revoked |-> sessionRevoked']
    BY <2>1 DEF Alike
  <2>4. CASE familyRevoked = Never
    <3>1. /\ dFamily' = RevokedFor(Reason(r), req[r].at)
          /\ propagateRevocationLocked(RevokedFor(Reason(r), req[r].at))
      BY <2>1, <2>2, <2>4 DEF Revokes
    <3>2. dFamily' = [dFamily EXCEPT !.revoked = familyRevoked', !.why = reason']
      BY <2>1, <2>2, <2>4, <3>1 DEF RevokedFor, First
    <3>3. QED  BY <1>7, <2>1, <2>3, <3>1, <3>2
  <2>5. CASE familyRevoked # Never
    <3>1. familyRevoked' = familyRevoked /\ reason' = reason /\ UNCHANGED <<dFamily, dToken>>
      BY <2>1, <2>2, <2>5 DEF First
    <3>2. QED  BY <1>1, <1>2, <2>1, <2>3, <3>1 DEF Alike
  <2>6. QED  BY <2>4, <2>5
<1>10. QED  BY <1>3, <1>4, <1>5, <1>6, <1>8, <1>9 DEF Writes

\* A step that writes nothing.
LEMMA QuietDouble ==
  ASSUME Alike, [Next]_sessionVars, ~Writing, UNCHANGED double
  PROVE  Alike'
<1>1. /\ UNCHANGED <<sessionRevoked, familyRevoked, reason, generation, issuedAt, overlapUntil>>
      /\ \/ session' = session
         \/ session = "none" /\ session' = "begun"
  <2>1. CASE Tick \/ UNCHANGED sessionVars
    BY <2>1 DEF Tick, sessionVars, rowVars, tokenVars
  <2>2. ASSUME NEW r \in Request, Start(r)
        PROVE  /\ UNCHANGED <<sessionRevoked, familyRevoked, reason, generation, issuedAt, overlapUntil>>
               /\ \/ session' = session
                  \/ session = "none" /\ session' = "begun"
    BY <2>2 DEF Start, BeginLogin, BeginRefresh, BeginLogout, rowVars, tokenVars
  <2>3. ASSUME NEW r \in Request, Query(r) \/ Respond(r) \/ Lose(r)
        PROVE  UNCHANGED <<session, sessionRevoked, familyRevoked, reason, generation, issuedAt, overlapUntil>>
    <3>1. Load(r) \/ CheckSession(r) \/ Fails(r) \/ Respond(r) \/ Lose(r)
      BY <2>3 DEF Query, Writing
    <3>2. QED  BY <3>1 DEF Load, CheckSession, Fails, Respond, Lose, rowVars, tokenVars
  <2>4. QED  BY <2>1, <2>2, <2>3 DEF Next
<1>2. UNCHANGED <<dSession, dFamily, dToken>>  BY DEF double
<1>3. (session' \in {"row", "family"}) = (session \in {"row", "family"})
      /\ (session' = "family") = (session = "family")
  BY <1>1
<1>4. \A t : RefreshTokenByHash(t)' = RefreshTokenByHash(t)
  BY <1>1 DEF RefreshTokenByHash, Unstored
<1>5. QED  BY <1>1, <1>2, <1>3, <1>4 DEF Alike

\* identitytest: however requests race, fail or are lost, the test double would
\* answer every query of the service as the Postgres store would.
THEOREM DoubleAnswersAsPostgres == DoubleSpec => []DoubleAnswersAlike
<1> DEFINE DInv == AppInv /\ Kept /\ StoredInOrder /\ Alike
<1>1. DoubleInit => DInv
  <2>1. SUFFICES ASSUME DoubleInit PROVE DInv  OBVIOUS
  <2>2. AppInit /\ Init  BY <2>1 DEF DoubleInit, AppInit
  <2>3. AppInv /\ Kept  BY <2>2, AppInvInit, KeptInit
  <2>4. \A r \in Request : req[r].pc = "idle"  BY <2>2, NoRequestType DEF Init
  <2>5. StoredInOrder  BY <2>2, <2>4 DEF Init, StoredInOrder
  <2>6. Alike
    <3>1. /\ session = "none" /\ sessionRevoked = Never /\ familyRevoked = Never
          /\ reason = "none" /\ generation = 0
      BY <2>2 DEF Init
    <3>2. (session \in {"row", "family"}) = FALSE /\ (session = "family") = FALSE  BY <3>1
    <3>3. \A t \in Token : t \notin 1..generation  BY <3>1
    <3>4. dToken = [t \in Token |-> IF t \in 1..generation THEN RefreshTokenByHash(t) ELSE Unstored]
      BY <2>1, <3>3 DEF DoubleInit
    <3>5. QED  BY <2>1, <3>1, <3>2, <3>4 DEF DoubleInit, Alike
  <2>7. QED  BY <2>3, <2>5, <2>6
<1>2. DInv /\ [DoubleNext]_<<sessionVars, appVars, double>> => DInv'
  <2>1. SUFFICES ASSUME DInv, [DoubleNext]_<<sessionVars, appVars, double>> PROVE DInv'
    OBVIOUS
  <2>2. [AppNext]_<<sessionVars, appVars>>  BY <2>1 DEF DoubleNext
  <2>3. AppInv' /\ Kept' /\ [Next]_sessionVars  BY <2>1, <2>2, AppInvStep, KeptStep, AppStep
  <2>4. IInv /\ Unspent  BY <2>1 DEF AppInv, Kept
  <2>5. StoredInOrder'  BY <2>1, <2>3, <2>4, StoredStep
  <2>6. CASE \E r \in Request : Writes(r)
    <3>1. Alike'  BY <2>1, <2>4, <2>6, WritesStep
    <3>2. QED  BY <2>3, <2>5, <3>1
  <2>7. CASE ~Writing /\ UNCHANGED double
    <3>1. Alike'  BY <2>1, <2>3, <2>7, QuietDouble
    <3>2. QED  BY <2>3, <2>5, <3>1
  <2>8. CASE UNCHANGED <<sessionVars, appVars, double>>
    <3>1. Alike'
      <4>1. \A t : RefreshTokenByHash(t)' = RefreshTokenByHash(t)
        BY <2>8 DEF RefreshTokenByHash, Unstored, sessionVars, rowVars, tokenVars
      <4>2. QED  BY <2>1, <2>8, <4>1 DEF Alike, sessionVars, rowVars, tokenVars, double
    <3>2. QED  BY <2>3, <2>5, <3>1
  <2>9. QED  BY <2>1, <2>6, <2>7, <2>8 DEF DoubleNext
<1>3. DInv => DoubleAnswersAlike
  <2>1. SUFFICES ASSUME DInv PROVE DoubleAnswersAlike  OBVIOUS
  <2>2. dSessionByID = SessionByID  BY <2>1 DEF Alike, dSessionByID, SessionByID
  <2>3. ASSUME NEW t \in Token
        PROVE  /\ dRefreshTokenByHash(t).stored <=> t \in 1..generation
               /\ t \in 1..generation => dRefreshTokenByHash(t) = RefreshTokenByHash(t)
               /\ dRotates(t) <=> t \in Current
    <3>1. dToken[t] = IF t \in 1..generation THEN RefreshTokenByHash(t) ELSE Unstored
      BY <2>1 DEF Alike
    <3>2. CASE t \in 1..generation
      <4>1. dToken[t] = RefreshTokenByHash(t)  BY <3>1, <3>2
      <4>2. dToken[t].stored /\ dToken[t].overlapUntil = overlapUntil[t]
        BY <4>1, Row, CopyFields
      <4>3. QED  BY <3>2, <4>1, <4>2 DEF dRefreshTokenByHash, dRotates, Current
    <3>3. CASE t \notin 1..generation
      <4>1. ~dToken[t].stored  BY <3>1, <3>3, UnstoredFields
      <4>2. QED  BY <3>3, <4>1 DEF dRefreshTokenByHash, dRotates, Current
    <3>4. QED  BY <3>2, <3>3
  <2>4. QED  BY <2>2, <2>3 DEF DoubleAnswersAlike
<1> HIDE DEF DInv
<1>4. QED  BY <1>1, <1>2, <1>3, PTL DEF DoubleSpec

\* The service, the app and the double run as the app over the service does:
\* what is proved of AppSpec holds of the runs of DoubleSpec.
THEOREM DoubleUsesApp == DoubleSpec => AppSpec
<1>1. DoubleInit => AppInit  BY DEF DoubleInit
<1>2. [DoubleNext]_<<sessionVars, appVars, double>> => [AppNext]_<<sessionVars, appVars>>
  BY DEF DoubleNext
<1>3. QED  BY <1>1, <1>2, PTL DEF DoubleSpec, AppSpec
=============================================================================
