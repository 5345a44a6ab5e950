------------------------------ MODULE Tickets -------------------------------
(***************************************************************************)
(* WebSocket tickets: POST /ws-ticket mints one for the caller's session,  *)
(* and the upgrade of a socket redeems it (identity/ticket.go,             *)
(* redis_tickets.go, realtime/handler.go). `store` is Redis or the store   *)
(* of the unit tests; Redis expires entries when it likes, and may lose    *)
(* them all.                                                               *)
(***************************************************************************)
EXTENDS Accounts

CONSTANTS
  Ticket,    \* plaintexts, each drawn once
  Upgrade,   \* requests to GET /v1/ws
  TTL,       \* WSTicketTTL
  MaxClock   \* bound

ASSUME TicketsAssumption == TTL \in Nat /\ MaxClock \in Nat

VARIABLES
  clock,     \* of the API process
  store,     \* "redis" or "double"
  tickets,   \* entries: ticket, user, expiresAt
  minted,    \* history: the entry each ticket was put with
  upgrades   \* the local variables of ServeHTTP

ticketVars == <<clock, store, tickets, minted, upgrades>>

Waiting == [pc |-> "idle", ticket |-> Nothing, now |-> 0, user |-> Nothing]

TicketsInit ==
  /\ clock = 0
  /\ store \in {"redis", "double"}
  /\ tickets = {} /\ minted = {}
  /\ upgrades = [u \in Upgrade |-> Waiting]

Drawn == { e.ticket : e \in minted }
LoggedIn(r) == registering[r].answer = "CREATED"

NewWSTicket(t, r) == [ticket |-> t, user |-> r, expiresAt |-> clock + TTL]

\* The Put may fail after Redis took the entry, and the answer may get lost: then
\* nobody presents the ticket.
WsTicket(t, r) ==
  /\ LoggedIn(r) /\ t \notin Drawn
  /\ tickets' = tickets \cup {NewWSTicket(t, r)}
  /\ minted' = minted \cup {NewWSTicket(t, r)}
  /\ UNCHANGED <<clock, store, upgrades>>

\* ServeHTTP reads the clock and then redeems. A proxy or a phone may present a
\* ticket more than once.
BeginUpgrade(u, t) ==
  /\ upgrades[u].pc = "idle" /\ t \in Drawn
  /\ upgrades' = [upgrades EXCEPT ![u] = [Waiting EXCEPT !.pc = "redeem", !.ticket = t, !.now = clock]]
  /\ UNCHANGED <<clock, store, tickets, minted>>

TicketExpired(e, now) == now > e.expiresAt

Found(u) == { e \in tickets : e.ticket = upgrades[u].ticket }

Decides(u) ==
  upgrades' = [upgrades EXCEPT ![u] =
    IF \E e \in Found(u) : ~TicketExpired(e, upgrades[u].now)
    THEN [@ EXCEPT !.pc = "member", !.user = (CHOOSE e \in Found(u) : TRUE).user]
    ELSE [@ EXCEPT !.pc = "refused"]]

\* Mutant: GET, and the entry is left to Redis to expire.
Redeem_Get(u) ==
  /\ upgrades[u].pc = "redeem" /\ store = "redis"
  /\ Decides(u)
  /\ UNCHANGED <<clock, store, tickets, minted>>

\* GETDEL: the entry is gone, whether or not it had expired.
Redeem(u) ==
  /\ upgrades[u].pc = "redeem" /\ store = "redis"
  /\ tickets' = tickets \ Found(u)
  /\ Decides(u)
  /\ UNCHANGED <<clock, store, minted>>

\* The double's, under its one mutex.
dRedeem(u) ==
  /\ upgrades[u].pc = "redeem" /\ store = "double"
  /\ tickets' = tickets \ Found(u)
  /\ Decides(u)
  /\ UNCHANGED <<clock, store, minted>>

Refuse(u) == upgrades' = [upgrades EXCEPT ![u].pc = "refused"]

\* Redis does not answer; the entry may be gone all the same.
RedeemFails(u) ==
  /\ upgrades[u].pc = "redeem"
  /\ \/ UNCHANGED tickets
     \/ store = "redis" /\ tickets' = tickets \ Found(u)
  /\ Refuse(u)
  /\ UNCHANGED <<clock, store, minted>>

\* Membership and the upgrade: where they fail, the ticket is spent.
Joins(u) ==
  /\ upgrades[u].pc = "member"
  /\ Refuse(u) \/ upgrades' = [upgrades EXCEPT ![u].pc = "open"]
  /\ UNCHANGED <<clock, store, tickets, minted>>

\* An entry's TTL has run out, or Redis was restarted or full.
RedisForgets ==
  /\ store = "redis"
  /\ \/ tickets # {} /\ tickets' = {}
     \/ \E e \in tickets : clock >= e.expiresAt /\ tickets' = tickets \ {e}
  /\ UNCHANGED <<clock, store, minted, upgrades>>

ClockTicks ==
  /\ clock < MaxClock
  /\ clock' = clock + 1
  /\ UNCHANGED <<store, tickets, minted, upgrades>>

TicketsNext ==
  \/ \E t \in Ticket, r \in Request : WsTicket(t, r)
  \/ \E u \in Upgrade :
       \/ \E t \in Ticket : BeginUpgrade(u, t)
       \/ Redeem(u) \/ dRedeem(u) \/ RedeemFails(u) \/ Joins(u)
  \/ RedisForgets \/ ClockTicks

-----------------------------------------------------------------------------
(* Who has registered asks for tickets, while others still register.        *)

AdmissionInit == AccountsInit /\ TicketsInit

AdmissionNext ==
  \/ AccountsNext /\ UNCHANGED ticketVars
  \/ TicketsNext /\ UNCHANGED accountVars

AdmissionSpec == AdmissionInit /\ [][AdmissionNext]_<<accountVars, ticketVars>>

-----------------------------------------------------------------------------
\* FR-5 and ADR-011 ("single-use", "60 seconds"): a socket that is let in has a
\* ticket that was minted for its user, an account, no longer than its lifetime
\* before the upgrade began, and no other upgrade is let in by that ticket, in
\* whichever order duplicates, delays and Redis's own expiry come.
TicketAdmitsOne ==
  LET admitted == { u \in Upgrade : upgrades[u].pc \in {"member", "open"} } IN
    /\ \A u \in admitted : \E e \in minted :
         /\ e.ticket = upgrades[u].ticket /\ e.user = upgrades[u].user
         /\ upgrades[u].now <= e.expiresAt
         /\ \E c \in credentials : c.user = e.user
    /\ \A u, v \in admitted : upgrades[u].ticket = upgrades[v].ticket => u = v
=============================================================================
