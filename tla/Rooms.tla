------------------------------- MODULE Rooms -------------------------------
(***************************************************************************)
(* One room behind the HTTP API: rooms.Service over PostgresRepository.    *)
(*                                                                         *)
(* A request is a handler goroutine.  It reads the room without a lock,    *)
(* decides from what it read, and only then opens the transaction that     *)
(* takes the row lock; between any two of these steps other requests run,  *)
(* and the request itself may be cut short (client gone, 30 s timeout,     *)
(* process crash).  A transaction is one action: the UPDATE that allocates *)
(* the sequence number holds the room's row lock until commit, and nothing *)
(* is visible to others before it.                                         *)
(*                                                                         *)
(* A request that is refused changes nothing, so an early return taken on  *)
(* the first read is a disabled action; one taken later returns the slot   *)
(* to Idle.                                                                *)
(***************************************************************************)
EXTENDS RoomRules, Sequences

CONSTANTS
  User,      \* the accounts that use the room
  Request,   \* slots for requests in flight at the same time
  Tier,      \* identity's entitlement tier of each user
  NoUser,
  NoState,   \* the state of a room not yet created
  MaxSeq,    \* bound: no request starts that could need a larger seq
  MayAbort   \* may a request be cut short between two of its steps?

ASSUME RoomsAssumption ==
  /\ Tier \in [User -> {"free", "plus"}]
  /\ NoUser \notin User
  /\ NoState \notin RoomState
  /\ MaxSeq \in Nat
  /\ MayAbort \in BOOLEAN
  /\ IsFiniteSet(Request)
  /\ IsFiniteSet(User)

VARIABLES
  state,      \* rooms.state
  host,       \* rooms.host_user_id
  endedAt,    \* rooms.ended_at IS NOT NULL
  seq,        \* rooms.current_seq
  active,     \* users whose room_participants row has left_at NULL
  hostRole,   \* users whose room_participants row has role 'host'
  events,     \* the rows of room_events
  published,  \* sequence numbers handed to the hub, in that order
  req         \* what each request in flight holds in its local variables

room == <<state, host, endedAt, seq, active, hostRole, events>>
vars == <<state, host, endedAt, seq, active, hostRole, events, published, req>>

-----------------------------------------------------------------------------
(* Types                                                                   *)

StateOrNone == RoomState \cup {NoState}
UserOrNone == User \cup {NoUser}

EventType == {"ROOM_STATE_CHANGED", "PARTICIPANT_JOINED", "PARTICIPANT_LEFT",
              "HOST_CHANGED", "ROOM_ENDED"}

\* An envelope: `user` is the subject of the payload, from/to the states.
Envelope == [seq : Nat, type : EventType, user : UserOrNone,
             from : StateOrNone, to : StateOrNone]

Op == {"none", "join", "leave", "transfer", "end", "transition"}
Pc == {"idle", "participants", "next_seq", "commit", "publish"}

Local == [pc : Pc, op : Op, user : UserOrNone, room_host : UserOrNone,
          room_state : StateOrNone, to : StateOrNone, successor : UserOrNone,
          parts : SUBSET User, hosts : SUBSET User, hint : Nat, event : Nat]

Idle == [pc |-> "idle", op |-> "none", user |-> NoUser, room_host |-> NoUser,
         room_state |-> NoState, to |-> NoState, successor |-> NoUser,
         parts |-> {}, hosts |-> {}, hint |-> 0, event |-> 0]

TypeOK ==
  /\ state \in StateOrNone
  /\ host \in UserOrNone
  /\ endedAt \in BOOLEAN
  /\ seq \in Nat
  /\ active \in SUBSET User
  /\ hostRole \in SUBSET User
  /\ events \in SUBSET Envelope
  /\ published \in Seq(Nat)
  /\ req \in [Request -> Local]

-----------------------------------------------------------------------------
(* Storage: what every mutating repository method does.                    *)

\* Mutant: the schema without its CHECK constraints.
ChecksAccept_NoConstraints(newState, newEndedAt) == TRUE

\* The CHECK constraints of migration 0004.  No statement under src/ writes
\* anchor_server_time, so rooms_playing_requires_anchor rejects PLAYING.
ChecksAccept(newState, newEndedAt) ==
  /\ newState # "PLAYING"
  /\ (newState = "ENDED") <=> newEndedAt

\* allocSeqLocked and insertEventLocked: the number is allocated inside the
\* transaction and stamped over whatever the service put in the envelope.
InsertEvent(type, user, from, to) ==
  /\ seq' = seq + 1
  /\ events' = events \cup
       {[seq |-> seq + 1, type |-> type, user |-> user, from |-> from, to |-> to]}

\* A request that has loaded the room, and one that holds a committed event.
Loaded(pc, op, u, to) ==
  [Idle EXCEPT !.pc = pc, !.op = op, !.user = u, !.room_host = host,
               !.room_state = state, !.to = to]
Publishing(event, hint) ==
  [Idle EXCEPT !.pc = "publish", !.event = event, !.hint = hint]

Committed(r) == req' = [req EXCEPT ![r] = Publishing(seq + 1, req[r].hint)]

Busy == { r \in Request : req[r].pc # "idle" }

\* Bound: a request appends at most two events.
MayStart(r) == req[r].pc = "idle" /\ seq + 2 * (Cardinality(Busy) + 1) <= MaxSeq

-----------------------------------------------------------------------------
(* POST /v1/rooms                                                          *)

Create(r, u) ==
  /\ state = NoState
  /\ MayStart(r)
  /\ state' = "LOBBY"
  /\ host' = u
  /\ active' = {u}
  /\ hostRole' = {u}
  /\ InsertEvent("ROOM_STATE_CHANGED", u, NoState, "LOBBY")
  /\ req' = [req EXCEPT ![r] = Publishing(1, 1)]
  /\ UNCHANGED <<endedAt, published>>

(* The first, unlocked read of each request.                               *)

\* JoinByCode: RoomByJoinCode resolves live rooms only.
BeginJoin(r, u) ==
  /\ MayStart(r)
  /\ state \notin {NoState, "ENDED"}
  /\ req' = [req EXCEPT ![r] = Loaded("participants", "join", u, NoState)]
  /\ UNCHANGED <<room, published>>

BeginLeave(r, u) ==
  /\ MayStart(r)
  /\ state # NoState
  /\ req' = [req EXCEPT ![r] = Loaded("participants", "leave", u, NoState)]
  /\ UNCHANGED <<room, published>>

\* Mutant: End does not look whether the room has ended.
BeginEnd_AgainWhenEnded(r, u) ==
  /\ MayStart(r)
  /\ state # NoState
  /\ host = u
  /\ req' = [req EXCEPT ![r] = Loaded("next_seq", "end", u, NoState)]
  /\ UNCHANGED <<room, published>>

\* End on a room already ENDED succeeds without an event: no step.
BeginEnd(r, u) ==
  /\ MayStart(r)
  /\ state \notin {NoState, "ENDED"}
  /\ host = u
  /\ req' = [req EXCEPT ![r] = Loaded("next_seq", "end", u, NoState)]
  /\ UNCHANGED <<room, published>>

\* Mutant: the table is looked up by event alone.
BeginTransition_AnyFrom(r, u, ev) ==
  /\ MayStart(r)
  /\ state # NoState
  /\ host = u
  /\ \E t \in transitions :
       /\ t.event = ev
       /\ req' = [req EXCEPT ![r] = Loaded("next_seq", "transition", u, t.to)]
  /\ UNCHANGED <<room, published>>

BeginTransition(r, u, ev) ==
  /\ MayStart(r)
  /\ state # NoState
  /\ host = u
  /\ \E to \in NextStates(state, ev) :
       req' = [req EXCEPT ![r] = Loaded("next_seq", "transition", u, to)]
  /\ UNCHANGED <<room, published>>

-----------------------------------------------------------------------------
(* The second read, and the decision taken on both.                        *)

\* Mutants: no capacity check; no check for an existing membership.
JoinAllowed_NoCap(q) == q.user \notin active
JoinAllowed_Again(q) ==
  CanJoin(q.room_state, Tier[q.room_host], Cardinality(active))

JoinAllowed(q) ==
  /\ q.user \notin active
  /\ CanJoin(q.room_state, Tier[q.room_host], Cardinality(active))

Proceeds(q) ==
  \/ q.op = "join" /\ JoinAllowed(q)
  \/ q.op = "leave" /\ q.user \in active

ReadParticipants(r) ==
  /\ req[r].pc = "participants"
  /\ \/ /\ Proceeds(req[r])
        /\ req' = [req EXCEPT ![r].pc = "next_seq", ![r].parts = active,
                              ![r].hosts = hostRole \cap active]
     \/ /\ ~Proceeds(req[r])
        /\ req' = [req EXCEPT ![r] = Idle]
  /\ UNCHANGED <<room, published>>

\* Mutants: the number is allocated here, outside the transaction; the number
\* returned is the current one.
NextSeq_Allocates(r) ==
  /\ req[r].pc = "next_seq"
  /\ seq' = seq + 1
  /\ req' = [req EXCEPT ![r].pc = "commit", ![r].hint = seq + 1]
  /\ UNCHANGED <<state, host, endedAt, active, hostRole, events, published>>
NextSeq_Current(r) ==
  /\ req[r].pc = "next_seq"
  /\ req' = [req EXCEPT ![r].pc = "commit", ![r].hint = seq]
  /\ UNCHANGED <<room, published>>

\* NextSeq only reads; the number is a placeholder that the transaction
\* overwrites, but the HTTP response reports it as the room's currentSeq.
NextSeq(r) ==
  /\ req[r].pc = "next_seq"
  /\ req' = [req EXCEPT ![r].pc = "commit", ![r].hint = seq + 1]
  /\ UNCHANGED <<room, published>>

-----------------------------------------------------------------------------
(* The transactions.                                                       *)

AddParticipant(r) ==
  /\ req[r].pc = "commit" /\ req[r].op = "join"
  /\ active' = active \cup {req[r].user}
  /\ InsertEvent("PARTICIPANT_JOINED", req[r].user, NoState, NoState)
  /\ Committed(r)
  /\ UNCHANGED <<state, host, endedAt, hostRole, published>>

\* SuccessorFor over the participants read before the removal, all of them
\* reported connected.  Which one joined first is abstracted to "some one".
Candidates(q) ==
  Promotable({ [user |-> p, connected |-> TRUE, isHost |-> p \in q.hosts,
                disconnectedAt |-> Never] : p \in q.parts \ {q.user} }, 0)

\* Leave goes on to a second transaction.
Continue(q, op, successor) ==
  [q EXCEPT !.pc = "next_seq", !.op = op, !.successor = successor,
            !.parts = {}, !.hosts = {}, !.hint = 0]

\* Mutants: a host's departure is handled like anybody's; the successor is
\* used without asking whether there is one.
AfterRemoval_NoSuccession(q) ==
  { Publishing(seq + 1, q.hint) }
AfterRemoval_NoEmptyCheck(q) ==
  IF q.user # q.room_host
  THEN { Publishing(seq + 1, q.hint) }
  ELSE { Continue(q, "transfer", s) : s \in IF Candidates(q) = {} THEN {NoUser} ELSE { c.user : c \in Candidates(q) } }

\* What Leave does once its removal is durable.
AfterRemoval(q) ==
  IF q.user # q.room_host
  THEN { Publishing(seq + 1, q.hint) }
  ELSE IF Candidates(q) = {}
       THEN { Continue(q, "end", NoUser) }
       ELSE { Continue(q, "transfer", c.user) : c \in Candidates(q) }

RemoveParticipant(r) ==
  /\ req[r].pc = "commit" /\ req[r].op = "leave"
  /\ active' = active \ {req[r].user}
  /\ InsertEvent("PARTICIPANT_LEFT", req[r].user, NoState, NoState)
  /\ \E q \in AfterRemoval(req[r]) : req' = [req EXCEPT ![r] = q]
  /\ UNCHANGED <<state, host, endedAt, hostRole, published>>

\* Mutant: the previous host's row keeps its role.
TransferHost_NoDemotion(r) ==
  /\ req[r].pc = "commit" /\ req[r].op = "transfer"
  /\ host' = req[r].successor
  /\ hostRole' = hostRole \cup {req[r].successor}
  /\ InsertEvent("HOST_CHANGED", req[r].successor, NoState, NoState)
  /\ Committed(r)
  /\ UNCHANGED <<state, endedAt, active, published>>

TransferHost(r) ==
  /\ req[r].pc = "commit" /\ req[r].op = "transfer"
  /\ host' = req[r].successor
  /\ hostRole' = {req[r].successor}
  /\ InsertEvent("HOST_CHANGED", req[r].successor, NoState, NoState)
  /\ Committed(r)
  /\ UNCHANGED <<state, endedAt, active, published>>

\* Mutant: the participant rows stay active; the event is inserted only by the
\* first request to end the room, the number is taken by each.
EndRoom_KeepsParticipants(r) ==
  /\ req[r].pc = "commit" /\ req[r].op = "end"
  /\ state' = "ENDED"
  /\ endedAt' = TRUE
  /\ InsertEvent("ROOM_ENDED", NoUser, req[r].room_state, "ENDED")
  /\ Committed(r)
  /\ UNCHANGED <<host, active, hostRole, published>>
EndRoom_SilentSecond(r) ==
  /\ req[r].pc = "commit" /\ req[r].op = "end"
  /\ state' = "ENDED"
  /\ endedAt' = TRUE
  /\ active' = {}
  /\ seq' = seq + 1
  /\ events' = IF state = "ENDED" THEN events
               ELSE events \cup {[seq |-> seq + 1, type |-> "ROOM_ENDED", user |-> NoUser,
                                  from |-> req[r].room_state, to |-> "ENDED"]}
  /\ Committed(r)
  /\ UNCHANGED <<host, hostRole, published>>

EndRoom(r) ==
  /\ req[r].pc = "commit" /\ req[r].op = "end"
  /\ state' = "ENDED"
  /\ endedAt' = TRUE
  /\ active' = {}
  /\ InsertEvent("ROOM_ENDED", NoUser, req[r].room_state, "ENDED")
  /\ Committed(r)
  /\ UNCHANGED <<host, hostRole, published>>

\* Mutant: the event is published although the transaction was rolled back.
SetState_PublishesAnyway(r) ==
  /\ req[r].pc = "commit" /\ req[r].op = "transition"
  /\ IF ChecksAccept(req[r].to, endedAt)
     THEN /\ state' = req[r].to
          /\ InsertEvent("ROOM_STATE_CHANGED", req[r].user, req[r].room_state, req[r].to)
     ELSE UNCHANGED <<state, seq, events>>
  /\ Committed(r)
  /\ UNCHANGED <<host, endedAt, active, hostRole, published>>

\* A row the CHECK constraints refuse rolls the transaction back: a 500.
SetState(r) ==
  /\ req[r].pc = "commit" /\ req[r].op = "transition"
  /\ \/ /\ ChecksAccept(req[r].to, endedAt)
        /\ state' = req[r].to
        /\ InsertEvent("ROOM_STATE_CHANGED", req[r].user, req[r].room_state, req[r].to)
        /\ Committed(r)
     \/ /\ ~ChecksAccept(req[r].to, endedAt)
        /\ req' = [req EXCEPT ![r] = Idle]
        /\ UNCHANGED <<state, seq, events>>
  /\ UNCHANGED <<host, endedAt, active, hostRole, published>>

-----------------------------------------------------------------------------
(* The handler publishes the one event of its Mutation, after the commit.  *)

Publish(r) ==
  /\ req[r].pc = "publish"
  /\ published' = Append(published, req[r].event)
  /\ req' = [req EXCEPT ![r] = Idle]
  /\ UNCHANGED room

Abort(r) ==
  /\ MayAbort
  /\ req[r].pc # "idle"
  /\ req' = [req EXCEPT ![r] = Idle]
  /\ UNCHANGED <<room, published>>

-----------------------------------------------------------------------------
Init ==
  /\ state = NoState
  /\ host = NoUser
  /\ endedAt = FALSE
  /\ seq = 0
  /\ active = {}
  /\ hostRole = {}
  /\ events = {}
  /\ published = << >>
  /\ req = [r \in Request |-> Idle]

Start(r) ==
  \E u \in User :
    \/ Create(r, u)
    \/ BeginJoin(r, u)
    \/ BeginLeave(r, u)
    \/ BeginEnd(r, u)
    \/ \E ev \in LifecycleEvent : BeginTransition(r, u, ev)

Step(r) ==
  \/ ReadParticipants(r)
  \/ NextSeq(r)
  \/ AddParticipant(r)
  \/ RemoveParticipant(r)
  \/ TransferHost(r)
  \/ EndRoom(r)
  \/ SetState(r)
  \/ Publish(r)
  \/ Abort(r)

Next == \E r \in Request : Start(r) \/ Step(r)

Spec == Init /\ [][Next]_vars
-----------------------------------------------------------------------------
(* Properties that hold whatever the interleaving and wherever requests    *)
(* are cut short.                                                          *)

\* ADR-003 and FR-28: the log holds each number 1..current_seq exactly once,
\* although requests read their numbers outside the lock (postgres.go,
\* allocSeqLocked and NextSeq).
LogGapFree ==
  /\ { e.seq : e \in events } = 1..seq
  /\ \A e, f \in events : e.seq = f.seq => e = f

StateEvents == { e \in events : e.type \in {"ROOM_STATE_CHANGED", "ROOM_ENDED"} }
HostEvents == { e \in events : e.type = "HOST_CHANGED" \/ e.seq = 1 }
MemberEvents(u) ==
  { e \in events : \/ e.type \in {"PARTICIPANT_JOINED", "PARTICIPANT_LEFT"} /\ e.user = u
                   \/ e.type = "ROOM_ENDED"
                   \/ e.seq = 1 /\ e.user = u }
Latest(e, S) == e \in S /\ \A f \in S : f.seq <= e.seq
Admits(e) == e.type = "PARTICIPANT_JOINED" \/ e.seq = 1

\* A client that replays the log reaches the same lifecycle state, host and
\* members as one that is sent the rows (Snapshot): the row change and the
\* event of every transaction agree, in every interleaving.
RowIsReplay ==
  state # NoState =>
    /\ \E e \in events : Latest(e, StateEvents) /\ e.to = state
    /\ \E e \in events : Latest(e, HostEvents) /\ e.user = host
    /\ \A u \in User :
         u \in active <=> \E e \in events : Latest(e, MemberEvents(u)) /\ Admits(e)

\* The two records of who is host, rooms.host_user_id (what authority checks
\* read) and room_participants.role (what clients are shown), never disagree.
RolesAgree ==
  hostRole = IF state = NoState THEN {} ELSE {host}

\* FR-15: ENDED is terminal, also for a transition that was decided before
\* another request ended the room.  It is the CHECK constraint that refuses
\* it: Next was asked about a state read earlier.
EndedIsFinal == [][state = "ENDED" => state' = "ENDED"]_vars

\* A sequence number reaches the hub only when its event is committed, so no
\* client is told of a change that was rolled back (handler.go, publish).
PublishedIsDurable ==
  \A i \in 1..Len(published) : \E e \in events : e.seq = published[i]

\* The row satisfies the CHECK constraints at every commit.
ChecksHold == ChecksAccept(state, endedAt)

\* What a request in flight holds is consistent with the room it runs on: the
\* event it is about to publish is committed, its successor is a user, the
\* state it is about to write is a lifecycle state.
InFlight ==
  \A r \in Request :
    /\ req[r].pc # "idle" => state # NoState
    /\ req[r].pc = "publish" => req[r].event \in 1..seq
    /\ req[r].op \in {"join", "leave"} => req[r].user \in User
    /\ req[r].op = "transfer" => req[r].successor \in User
    /\ req[r].op = "transition" => req[r].to \in RoomState

\* Nothing is written before the room is created.
NothingBeforeCreate ==
  state = NoState => seq = 0 /\ events = {} /\ active = {}

\* The inductive invariant behind the properties above.
IInv ==
  /\ TypeOK
  /\ LogGapFree
  /\ RowIsReplay
  /\ RolesAgree
  /\ PublishedIsDurable
  /\ ChecksHold
  /\ InFlight
  /\ NothingBeforeCreate

\* The storage of a room implements the log that clients rely on.
Log == INSTANCE RoomLog WITH seq <- seq, events <- events
ImplementsRoomLog == Log!LogSpec

-----------------------------------------------------------------------------
(* Properties that hold when requests do not overlap (one slot) and are    *)
(* not cut short.                                                          *)

\* FR-16: nobody is admitted beyond the cap of the host's tier.
JoinRespectsCap ==
  [][active' \ active # {} /\ state # NoState
       => Cardinality(active') <= MaxParticipants(Tier[host])]_vars

\* Between requests a live room is owned by somebody who is in it: "somebody
\* has to own the room, or nobody can start playback" (service.go, Leave).
HostIsActive ==
  Busy = {} /\ state \notin {NoState, "ENDED"} => host \in active

\* A room's end is announced once (service_test.go, TestEndIsIdempotent).
OneRoomEnded ==
  \A e, f \in events : e.type = "ROOM_ENDED" /\ f.type = "ROOM_ENDED" => e = f

\* Nobody joins twice without leaving in between (service.go, JoinByCode).
JoinedOnce ==
  \A e, f \in events :
    /\ e.type = "PARTICIPANT_JOINED" \/ e.seq = 1
    /\ f.type = "PARTICIPANT_JOINED"
    /\ e.user = f.user /\ e.seq < f.seq
    => \E g \in events : /\ g.type = "PARTICIPANT_LEFT" /\ g.user = e.user
                         /\ e.seq < g.seq /\ g.seq < f.seq

\* FR-15 as the log tells it: each lifecycle event starts from the state the
\* previous one left and is a row of the table, so a room is never armed
\* twice in a row (state.go, Next).
LifecycleIsLegal ==
  \A e \in StateEvents : e.seq > 1 =>
    \E p \in StateEvents :
      /\ Latest(p, { x \in StateEvents : x.seq < e.seq })
      /\ e.from = p.to
      /\ \E t \in transitions : t.from = e.from /\ t.to = e.to

\* The currentSeq a response reports is the seq of the event it published
\* (service.go, NextSeq: the method "then uses that same number").
ResponseReportsItsEvent ==
  \A r \in Request : req[r].pc = "publish" => req[r].hint = req[r].event
=============================================================================
