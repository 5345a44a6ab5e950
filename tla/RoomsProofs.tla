---------------------------- MODULE RoomsProofs ----------------------------
(***************************************************************************)
(* Theorems about Rooms, for any number of users and overlapping requests, *)
(* any caps, and requests cut short anywhere.                              *)
(***************************************************************************)
EXTENDS RoomsDouble, FiniteSetTheorems, TLAPS

-----------------------------------------------------------------------------
(* The records that describe a request in flight.                          *)

LEMMA LocalFields ==
  ASSUME NEW q \in Local
  PROVE  /\ q.pc \in Pc /\ q.op \in Op
         /\ q.user \in UserOrNone /\ q.room_host \in UserOrNone
         /\ q.room_state \in StateOrNone /\ q.to \in StateOrNone
         /\ q.successor \in UserOrNone
         /\ q.parts \in SUBSET User /\ q.hosts \in SUBSET User
         /\ q.hint \in Nat /\ q.event \in Nat
  BY DEF Local

LEMMA IdleType ==
  /\ Idle \in Local
  /\ Idle.pc = "idle" /\ Idle.op = "none"
  BY DEF Idle, Local, Pc, Op, UserOrNone, StateOrNone

LEMMA PublishingType ==
  ASSUME NEW event \in Nat, NEW hint \in Nat
  PROVE  /\ Publishing(event, hint) \in Local
         /\ Publishing(event, hint).pc = "publish"
         /\ Publishing(event, hint).op = "none"
         /\ Publishing(event, hint).event = event
  BY DEF Publishing, Idle, Local, Pc, Op, UserOrNone, StateOrNone

LEMMA LoadedType ==
  ASSUME NEW pc \in Pc, NEW op \in Op, NEW u \in User, NEW to \in StateOrNone,
         host \in UserOrNone, state \in StateOrNone
  PROVE  /\ Loaded(pc, op, u, to) \in Local
         /\ Loaded(pc, op, u, to).pc = pc
         /\ Loaded(pc, op, u, to).op = op
         /\ Loaded(pc, op, u, to).user = u
         /\ Loaded(pc, op, u, to).to = to
<1>1. Idle \in Local /\ u \in UserOrNone  BY IdleType DEF UserOrNone
<1>2. QED  BY <1>1 DEF Loaded, Local

LEMMA ContinueType ==
  ASSUME NEW q \in Local, NEW op \in Op, NEW s \in UserOrNone
  PROVE  /\ Continue(q, op, s) \in Local
         /\ Continue(q, op, s).pc = "next_seq"
         /\ Continue(q, op, s).op = op
         /\ Continue(q, op, s).successor = s
  BY DEF Continue, Local, Pc

LEMMA NextStatesType ==
  ASSUME NEW from, NEW ev, NEW to \in NextStates(from, ev)
  PROVE  to \in RoomState
  BY DEF NextStates, transitions, RoomState

LEMMA CandidateIsUser ==
  ASSUME NEW q \in Local, NEW c \in Candidates(q)
  PROVE  c.user \in User
  BY LocalFields DEF Candidates, Promotable

\* What Leave goes on with is a request again, with a successor if it transfers.
LEMMA AfterRemovalType ==
  ASSUME seq \in Nat, NEW q \in Local, NEW n \in AfterRemoval(q)
  PROVE  /\ n \in Local
         /\ n.pc # "idle"
         /\ n.op \in {"none", "end", "transfer"}
         /\ n.op = "transfer" => n.successor \in User
         /\ n.pc = "publish" => n.event = seq + 1
<1>1. CASE q.user # q.room_host
  <2>1. n = Publishing(seq + 1, q.hint)  BY <1>1 DEF AfterRemoval
  <2>2. seq + 1 \in Nat /\ q.hint \in Nat  BY LocalFields
  <2>3. QED  BY <2>1, <2>2, PublishingType
<1>2. CASE q.user = q.room_host /\ Candidates(q) = {}
  <2>1. n = Continue(q, "end", NoUser)  BY <1>2 DEF AfterRemoval
  <2>2. "end" \in Op /\ NoUser \in UserOrNone  BY DEF Op, UserOrNone
  <2>3. QED  BY <2>1, <2>2, ContinueType
<1>3. CASE q.user = q.room_host /\ Candidates(q) # {}
  <2>1. PICK c \in Candidates(q) : n = Continue(q, "transfer", c.user)
    BY <1>3 DEF AfterRemoval
  <2>2. c.user \in User /\ c.user \in UserOrNone /\ "transfer" \in Op
    BY CandidateIsUser DEF UserOrNone, Op
  <2>3. QED  BY <2>1, <2>2, ContinueType
<1>4. QED  BY <1>1, <1>2, <1>3

-----------------------------------------------------------------------------
(* Type correctness.  The updates of the request table are looked at once, *)
(* as "one entry is replaced by a record that is in order".                *)

\* A record that may replace an entry of the request table in the next state.
InOrder(q) ==
  /\ q \in Local
  /\ q.pc # "idle" => state' # NoState
  /\ q.pc = "publish" => q.event \in 1..seq'
  /\ q.op \in {"join", "leave"} => q.user \in User
  /\ q.op = "transfer" => q.successor \in User
  /\ q.op = "transition" => q.to \in RoomState

LEMMA ReplaceEntry ==
  ASSUME req \in [Request -> Local], InFlight,
         seq \in Nat, seq' \in Nat, seq <= seq',
         state # NoState => state' # NoState,
         NEW r \in Request, NEW q, InOrder(q), req' = [req EXCEPT ![r] = q]
  PROVE  req' \in [Request -> Local] /\ InFlight'
<1>1. req' \in [Request -> Local]  BY DEF InOrder
<1>2. ASSUME NEW p \in Request
      PROVE  /\ req'[p].pc # "idle" => state' # NoState
             /\ req'[p].pc = "publish" => req'[p].event \in 1..seq'
             /\ req'[p].op \in {"join", "leave"} => req'[p].user \in User
             /\ req'[p].op = "transfer" => req'[p].successor \in User
             /\ req'[p].op = "transition" => req'[p].to \in RoomState
  <2>1. CASE p = r
    BY <2>1 DEF InOrder
  <2>2. CASE p # r
    <3>1. req'[p] = req[p]  BY <2>2
    <3>2. ASSUME NEW n \in 1..seq  PROVE n \in 1..seq'
      OBVIOUS
    <3>3. QED  BY <3>1, <3>2 DEF InFlight
  <2>3. QED  BY <2>1, <2>2
<1>3. QED  BY <1>1, <1>2 DEF InFlight

LEMMA IdleInOrder == InOrder(Idle)
  BY IdleType DEF InOrder

LEMMA InsertType ==
  ASSUME TypeOK, NEW type \in EventType, NEW user \in UserOrNone,
         NEW from \in StateOrNone, NEW to \in StateOrNone,
         InsertEvent(type, user, from, to)
  PROVE  /\ seq' \in Nat /\ seq' = seq + 1 /\ seq <= seq'
         /\ events' \in SUBSET Envelope
  BY DEF TypeOK, InsertEvent, Envelope

LEMMA RowsUntouched ==
  ASSUME TypeOK, UNCHANGED room, published' \in Seq(Nat),
         req' \in [Request -> Local]
  PROVE  TypeOK'
  BY Zenon DEF TypeOK, room

LEMMA CommittedInOrder ==
  ASSUME TypeOK, NEW r \in Request, seq' = seq + 1, state' # NoState
  PROVE  InOrder(Publishing(seq + 1, req[r].hint))
<1>1. seq + 1 \in Nat /\ req[r].hint \in Nat /\ seq + 1 \in 1..seq'
  BY LocalFields DEF TypeOK
<1>2. QED  BY <1>1, PublishingType DEF InOrder

\* Every step keeps the rows and the request table well typed, and every
\* request consistent with the room.
LEMMA TypeStep ==
  ASSUME TypeOK, InFlight, [Next]_vars
  PROVE  TypeOK' /\ InFlight'
<1> USE RoomsAssumption
<1>1. CASE UNCHANGED vars
  BY <1>1 DEF vars, TypeOK, InFlight
<1>2. ASSUME NEW r \in Request, Start(r) \/ Step(r)
      PROVE  TypeOK' /\ InFlight'
  <2>0. /\ req \in [Request -> Local] /\ req[r] \in Local /\ seq \in Nat
        /\ state \in StateOrNone /\ host \in UserOrNone
        /\ req[r].pc # "idle" => state # NoState
    BY DEF TypeOK, InFlight
  <2>1. ASSUME NEW u \in User, Create(r, u)  PROVE TypeOK' /\ InFlight'
    <3>1. state' = "LOBBY" /\ state' # NoState  BY <2>1 DEF Create, RoomState
    <3>2. /\ u \in UserOrNone /\ NoState \in StateOrNone /\ "LOBBY" \in StateOrNone
          /\ "ROOM_STATE_CHANGED" \in EventType
      BY DEF UserOrNone, StateOrNone, RoomState, EventType
    <3>3. seq' \in Nat /\ seq' = seq + 1 /\ seq <= seq' /\ events' \in SUBSET Envelope
      BY <2>1, <3>2, InsertType DEF Create
    <3>4. InOrder(Publishing(1, 1))
      <4>1. 1 \in Nat /\ 1 \in 1..seq'  BY <2>0, <3>3
      <4>2. QED  BY <4>1, <3>1, PublishingType DEF InOrder
    <3>5. req' = [req EXCEPT ![r] = Publishing(1, 1)]  BY <2>1 DEF Create
    <3>6. req' \in [Request -> Local] /\ InFlight'
      BY <2>0, <3>1, <3>3, <3>4, <3>5, ReplaceEntry
    <3>7. QED  BY <2>1, <3>2, <3>3, <3>6 DEF Create, TypeOK
  <2>2. ASSUME NEW u \in User, NEW pc \in Pc, NEW op \in Op, NEW to \in StateOrNone,
               state # NoState, UNCHANGED <<room, published>>,
               pc \in {"participants", "next_seq"},
               op \in {"join", "leave", "end", "transition"},
               op = "transition" => to \in RoomState,
               req' = [req EXCEPT ![r] = Loaded(pc, op, u, to)]
        PROVE  TypeOK' /\ InFlight'
    <3>1. /\ Loaded(pc, op, u, to) \in Local
          /\ Loaded(pc, op, u, to).pc = pc /\ Loaded(pc, op, u, to).op = op
          /\ Loaded(pc, op, u, to).user = u /\ Loaded(pc, op, u, to).to = to
      BY <2>0, LoadedType
    <3>2. state' = state /\ seq' = seq /\ seq' \in Nat /\ seq <= seq'
      BY <2>0, <2>2 DEF room
    <3>3. InOrder(Loaded(pc, op, u, to))  BY <2>2, <3>1, <3>2 DEF InOrder
    <3>4. req' \in [Request -> Local] /\ InFlight'
      BY <2>0, <2>2, <3>2, <3>3, ReplaceEntry
    <3>5. published' \in Seq(Nat)  BY <2>2 DEF TypeOK
    <3>6. QED  BY <2>2, <3>4, <3>5, RowsUntouched
  <2>3. NoState \in StateOrNone /\ {"participants", "next_seq"} \subseteq Pc
        /\ {"join", "leave", "end", "transition"} \subseteq Op
    BY DEF StateOrNone, Pc, Op
  <2>4. ASSUME NEW u \in User, BeginJoin(r, u)  PROVE TypeOK' /\ InFlight'
    BY <2>2, <2>3, <2>4 DEF BeginJoin
  <2>5. ASSUME NEW u \in User, BeginLeave(r, u)  PROVE TypeOK' /\ InFlight'
    BY <2>2, <2>3, <2>5 DEF BeginLeave
  <2>6. ASSUME NEW u \in User, BeginEnd(r, u)  PROVE TypeOK' /\ InFlight'
    BY <2>2, <2>3, <2>6 DEF BeginEnd
  <2>7. ASSUME NEW u \in User, NEW ev \in LifecycleEvent, BeginTransition(r, u, ev)
        PROVE  TypeOK' /\ InFlight'
    <3>1. PICK to \in NextStates(state, ev) :
            req' = [req EXCEPT ![r] = Loaded("next_seq", "transition", u, to)]
      BY <2>7 DEF BeginTransition
    <3>2. to \in RoomState /\ to \in StateOrNone  BY NextStatesType DEF StateOrNone
    <3>3. QED  BY <2>2, <2>3, <2>7, <3>1, <3>2 DEF BeginTransition
  <2>8. ASSUME NEW q, InOrder(q), req' = [req EXCEPT ![r] = q],
               UNCHANGED room, published' \in Seq(Nat)
        PROVE  TypeOK' /\ InFlight'
    <3>1. state' = state /\ seq' = seq /\ seq' \in Nat /\ seq <= seq'
      BY <2>0, <2>8 DEF room
    <3>2. req' \in [Request -> Local] /\ InFlight'
      BY <2>0, <2>8, <3>1, ReplaceEntry
    <3>3. QED  BY <2>8, <3>2, RowsUntouched
  <2>9. CASE ReadParticipants(r)
    <3>0. state' = state /\ seq' = seq /\ published' \in Seq(Nat)
      BY <2>9 DEF ReadParticipants, room, TypeOK
    <3>1. CASE Proceeds(req[r])
      <4> DEFINE q == [req[r] EXCEPT !.pc = "next_seq", !.parts = active,
                                     !.hosts = hostRole \cap active]
      <4>1. req' = [req EXCEPT ![r] = q]  BY <2>9, <3>1, <2>0 DEF ReadParticipants
      <4>2. q \in Local /\ q.pc = "next_seq" /\ q.op = req[r].op
            /\ q.user = req[r].user /\ q.to = req[r].to /\ q.successor = req[r].successor
        BY <2>0 DEF Local, Pc, TypeOK
      <4>3. state # NoState  BY <2>0, <2>9 DEF ReadParticipants
      <4>4. InOrder(q)  BY <4>2, <4>3, <3>0 DEF InOrder, InFlight
      <4>5. QED  BY <2>8, <2>9, <3>0, <4>1, <4>4 DEF ReadParticipants
    <3>2. CASE ~Proceeds(req[r])
      BY <2>8, <2>9, <3>0, <3>2, IdleInOrder DEF ReadParticipants
    <3>3. QED  BY <3>1, <3>2
  <2>10. CASE NextSeq(r)
    <3>0. state' = state /\ seq' = seq /\ published' \in Seq(Nat)
      BY <2>10 DEF NextSeq, room, TypeOK
    <3> DEFINE q == [req[r] EXCEPT !.pc = "commit", !.hint = seq + 1]
    <3>1. req' = [req EXCEPT ![r] = q]  BY <2>10, <2>0 DEF NextSeq
    <3>2. q \in Local /\ q.pc = "commit" /\ q.op = req[r].op
          /\ q.user = req[r].user /\ q.to = req[r].to /\ q.successor = req[r].successor
      <4>1. req[r] \in Local /\ seq + 1 \in Nat /\ "commit" \in Pc  BY <2>0 DEF Pc
      <4>2. QED  BY <4>1 DEF Local
    <3>3. state # NoState  BY <2>0, <2>10 DEF NextSeq
    <3>4. InOrder(q)  BY <3>2, <3>3, <3>0 DEF InOrder, InFlight
    <3>5. QED  BY <2>8, <2>10, <3>0, <3>1, <3>4 DEF NextSeq
  <2>11. CASE Publish(r)
    <3>1. req[r].event \in Nat  BY <2>0, LocalFields
    <3>2. published' \in Seq(Nat)  BY <2>11, <3>1 DEF Publish, TypeOK
    <3>3. QED  BY <2>8, <2>11, <3>2, IdleInOrder DEF Publish
  <2>12. CASE Abort(r)
    <3>1. published' \in Seq(Nat)  BY <2>12 DEF Abort, TypeOK
    <3>2. QED  BY <2>8, <2>12, <3>1, IdleInOrder DEF Abort
  <2>13. ASSUME NEW type \in EventType, NEW user \in UserOrNone, NEW from \in StateOrNone,
                NEW to \in StateOrNone, InsertEvent(type, user, from, to),
                NEW q, seq' = seq + 1 => InOrder(q), req' = [req EXCEPT ![r] = q],
                state' \in StateOrNone, state' # NoState, host' \in UserOrNone,
                endedAt' \in BOOLEAN, active' \in SUBSET User, hostRole' \in SUBSET User,
                published' = published
         PROVE  TypeOK' /\ InFlight'
    <3>1. seq' \in Nat /\ seq' = seq + 1 /\ seq <= seq' /\ events' \in SUBSET Envelope
      BY <2>13, InsertType
    <3>2. req' \in [Request -> Local] /\ InFlight'
      BY <2>0, <2>13, <3>1, ReplaceEntry
    <3>3. QED  BY <2>13, <3>1, <3>2 DEF TypeOK
  <2>14. /\ NoState \in StateOrNone /\ NoUser \in UserOrNone /\ "ENDED" \in StateOrNone
         /\ {"PARTICIPANT_JOINED", "PARTICIPANT_LEFT", "HOST_CHANGED", "ROOM_ENDED",
             "ROOM_STATE_CHANGED"} \subseteq EventType
         /\ req[r].user \in UserOrNone /\ req[r].room_state \in StateOrNone
         /\ req[r].to \in StateOrNone /\ req[r].successor \in UserOrNone
    BY <2>0, LocalFields DEF StateOrNone, UserOrNone, RoomState, EventType
  <2>15. CASE AddParticipant(r)
    <3>1. req[r].user \in User /\ state' = state /\ state # NoState
      BY <2>0, <2>15 DEF AddParticipant, InFlight
    <3>2. seq' = seq + 1 => InOrder(Publishing(seq + 1, req[r].hint))
      BY <3>1, CommittedInOrder
    <3>3. active' \in SUBSET User  BY <2>15, <3>1 DEF AddParticipant, TypeOK
    <3>4. QED
      BY <2>13, <2>14, <2>15, <3>1, <3>2, <3>3 DEF AddParticipant, Committed, TypeOK
  <2>16. CASE RemoveParticipant(r)
    <3>1. state' = state /\ state # NoState  BY <2>0, <2>16 DEF RemoveParticipant
    <3>2. PICK q \in AfterRemoval(req[r]) : req' = [req EXCEPT ![r] = q]
      BY <2>16 DEF RemoveParticipant
    <3>3. seq' = seq + 1 => InOrder(q)
      <4>1. seq + 1 \in 1..(seq + 1)  BY <2>0
      <4>2. QED  BY <2>0, <3>1, <4>1, AfterRemovalType DEF InOrder
    <3>4. active' \in SUBSET User  BY <2>16 DEF RemoveParticipant, TypeOK
    <3>5. QED
      BY <2>13, <2>14, <2>16, <3>1, <3>2, <3>3, <3>4 DEF RemoveParticipant, TypeOK
  <2>17. CASE TransferHost(r)
    <3>1. req[r].successor \in User /\ state' = state /\ state # NoState
      BY <2>0, <2>17 DEF TransferHost, InFlight
    <3>2. seq' = seq + 1 => InOrder(Publishing(seq + 1, req[r].hint))
      BY <3>1, CommittedInOrder
    <3>3. hostRole' \in SUBSET User /\ host' \in UserOrNone
      BY <2>14, <2>17, <3>1 DEF TransferHost
    <3>4. QED
      BY <2>13, <2>14, <2>17, <3>1, <3>2, <3>3 DEF TransferHost, Committed, TypeOK
  <2>18. CASE EndRoom(r)
    <3>1. state' = "ENDED" /\ state' # NoState  BY <2>18 DEF EndRoom, RoomState
    <3>2. seq' = seq + 1 => InOrder(Publishing(seq + 1, req[r].hint))
      BY <3>1, CommittedInOrder
    <3>3. active' \in SUBSET User /\ endedAt' \in BOOLEAN  BY <2>18 DEF EndRoom
    <3>4. QED
      BY <2>13, <2>14, <2>18, <3>1, <3>2, <3>3 DEF EndRoom, Committed, TypeOK
  <2>19. CASE SetState(r)
    <3>1. CASE ChecksAccept(req[r].to, endedAt)
      <4>1. state' = req[r].to /\ state' \in RoomState /\ state' # NoState
            /\ state' \in StateOrNone
        BY <2>19, <3>1 DEF SetState, InFlight, StateOrNone
      <4>2. seq' = seq + 1 => InOrder(Publishing(seq + 1, req[r].hint))
        BY <4>1, CommittedInOrder
      <4>3. QED
        BY <2>13, <2>14, <2>19, <3>1, <4>1, <4>2 DEF SetState, Committed, TypeOK
    <3>2. CASE ~ChecksAccept(req[r].to, endedAt)
      <4>1. UNCHANGED room /\ published' \in Seq(Nat) /\ req' = [req EXCEPT ![r] = Idle]
        BY <2>19, <3>2 DEF SetState, room, TypeOK
      <4>2. QED  BY <2>8, <4>1, IdleInOrder
    <3>3. QED  BY <3>1, <3>2
  <2>20. QED
    BY <1>2, <2>1, <2>4, <2>5, <2>6, <2>7, <2>9, <2>10, <2>11, <2>12, <2>15, <2>16,
       <2>17, <2>18, <2>19 DEF Start, Step
<1>3. QED  BY <1>1, <1>2 DEF Next

LEMMA TypeInit == Init => TypeOK /\ InFlight
<1>1. SUFFICES ASSUME Init PROVE TypeOK /\ InFlight
  OBVIOUS
<1>2. req = [r \in Request |-> Idle] /\ Idle \in Local  BY <1>1, IdleType DEF Init
<1>3. TypeOK
  <2>1. published \in Seq(Nat) /\ seq \in Nat  BY <1>1 DEF Init
  <2>2. endedAt \in BOOLEAN /\ active \in SUBSET User /\ hostRole \in SUBSET User
        /\ events \in SUBSET Envelope
    BY <1>1, Zenon DEF Init
  <2>3. state \in StateOrNone /\ host \in UserOrNone
    BY <1>1 DEF Init, StateOrNone, UserOrNone
  <2>4. req \in [Request -> Local]  BY <1>2
  <2>5. QED  BY <2>1, <2>2, <2>3, <2>4 DEF TypeOK
<1>4. InFlight
  BY <1>2, IdleType DEF InFlight
<1>5. QED  BY <1>3, <1>4

-----------------------------------------------------------------------------
\* In every reachable state the rows, the log and the requests in flight are
\* well typed; every request is consistent with the room it runs on.
THEOREM TypeCorrect == Spec => []TypeOK
<1>1. Init => TypeOK /\ InFlight  BY TypeInit
<1>2. (TypeOK /\ InFlight) /\ [Next]_vars => (TypeOK /\ InFlight)'  BY TypeStep
<1>3. QED  BY <1>1, <1>2, PTL DEF Spec

-----------------------------------------------------------------------------
(* The log and the rows.  A step leaves them alone, creates the room, or   *)
(* commits one event n.                                                    *)

StateFits(n) ==
  IF n.type \in {"ROOM_STATE_CHANGED", "ROOM_ENDED"} THEN n.to = state'
                                                     ELSE state' = state
HostFits(n) ==
  IF n.type = "HOST_CHANGED" THEN n.user = host' ELSE host' = host

Concerns(n, u) ==
  \/ n.type = "ROOM_ENDED"
  \/ n.type \in {"PARTICIPANT_JOINED", "PARTICIPANT_LEFT"} /\ n.user = u

MembersFit(n) ==
  \A u \in User :
    IF Concerns(n, u)
    THEN u \in active' <=> n.type = "PARTICIPANT_JOINED"
    ELSE u \in active' <=> u \in active

\* A transaction on an existing room whose row changes are those n announces.
Commits(n) ==
  /\ state # NoState /\ state' # NoState
  /\ n \in Envelope /\ n.seq = seq + 1
  /\ seq' = seq + 1
  /\ events' = events \cup {n}
  /\ StateFits(n) /\ HostFits(n) /\ MembersFit(n)
  /\ hostRole' = {host'}
  /\ ChecksAccept(state', endedAt')
  /\ published' = published

LEMMA SeqsInRange ==
  ASSUME TypeOK, LogGapFree
  PROVE  \A e \in events : e.seq \in 1..seq
  BY DEF LogGapFree

LEMMA RoomHasEvents ==
  ASSUME TypeOK, LogGapFree, RowIsReplay, state # NoState
  PROVE  seq >= 1
<1>1. PICK e \in events : Latest(e, StateEvents)  BY DEF RowIsReplay
<1>2. e.seq \in 1..seq  BY SeqsInRange
<1>3. QED  BY <1>2 DEF TypeOK

\* Appending the next number keeps the log free of gaps and duplicates.
LEMMA AppendGapFree ==
  ASSUME TypeOK, LogGapFree, NEW n, n.seq = seq + 1,
         seq' = seq + 1, events' = events \cup {n}
  PROVE  LogGapFree'
<1>0. seq \in Nat  BY DEF TypeOK
<1>1. \A e \in events : e.seq \in 1..seq  BY SeqsInRange
<1>2. { e.seq : e \in events' } = { e.seq : e \in events } \cup {n.seq}
  OBVIOUS
<1>3. 1..seq' = 1..seq \cup {seq + 1}  BY <1>0
<1>4. { e.seq : e \in events' } = 1..seq'  BY <1>2, <1>3 DEF LogGapFree
<1>5. ASSUME NEW e \in events', NEW f \in events', e.seq = f.seq  PROVE e = f
  <2>1. CASE e \in events /\ f \in events  BY <1>5, <2>1 DEF LogGapFree
  <2>2. CASE e = n /\ f \in events  BY <1>0, <1>1, <1>5, <2>2
  <2>3. CASE e \in events /\ f = n  BY <1>0, <1>1, <1>5, <2>3
  <2>4. QED  BY <2>1, <2>2, <2>3
<1>6. QED  BY <1>4, <1>5 DEF LogGapFree

\* Of a set of earlier events and a new one, the new one is the latest.
LEMMA LatestIsNew ==
  ASSUME seq \in Nat, NEW S, \A e \in S : e.seq \in 1..seq,
         NEW n, n.seq = seq + 1, NEW x
  PROVE  Latest(x, S \cup {n}) <=> x = n
<1>1. n.seq \in Nat /\ n.seq <= n.seq /\ \A f \in S : f.seq <= n.seq
  OBVIOUS
<1>2. x = n => Latest(x, S \cup {n})  BY <1>1 DEF Latest
<1>3. Latest(x, S \cup {n}) => x = n
  <2>1. SUFFICES ASSUME Latest(x, S \cup {n}), x \in S PROVE FALSE
    BY DEF Latest
  <2>2. n.seq <= x.seq /\ x.seq \in 1..seq  BY <2>1 DEF Latest
  <2>3. QED  BY <2>2
<1>4. QED  BY <1>2, <1>3

LEMMA CommitKeepsReplay ==
  ASSUME TypeOK, LogGapFree, RowIsReplay, NEW n, Commits(n)
  PROVE  RowIsReplay'
<1>0. seq \in Nat /\ events' = events \cup {n} /\ n.seq = seq + 1 /\ state # NoState
  BY DEF TypeOK, Commits
<1>1. n.seq # 1  BY <1>0, RoomHasEvents
<1>2. \A e \in events : e.seq \in 1..seq  BY SeqsInRange
<1>3. \E e \in events' : Latest(e, StateEvents') /\ e.to = state'
  <2>1. CASE n.type \in {"ROOM_STATE_CHANGED", "ROOM_ENDED"}
    <3>1. StateEvents' = StateEvents \cup {n}  BY <1>0, <2>1 DEF StateEvents
    <3>2. \A e \in StateEvents : e.seq \in 1..seq  BY <1>2 DEF StateEvents
    <3>3. Latest(n, StateEvents')  BY <1>0, <3>1, <3>2, LatestIsNew
    <3>4. QED  BY <1>0, <2>1, <3>3 DEF Commits, StateFits
  <2>2. CASE n.type \notin {"ROOM_STATE_CHANGED", "ROOM_ENDED"}
    <3>1. StateEvents' = StateEvents  BY <1>0, <2>2 DEF StateEvents
    <3>2. state' = state  BY <2>2 DEF Commits, StateFits
    <3>3. QED  BY <1>0, <3>1, <3>2 DEF RowIsReplay
  <2>3. QED  BY <2>1, <2>2
<1>4. \E e \in events' : Latest(e, HostEvents') /\ e.user = host'
  <2>1. CASE n.type = "HOST_CHANGED"
    <3>1. HostEvents' = HostEvents \cup {n}  BY <1>0, <2>1 DEF HostEvents
    <3>2. \A e \in HostEvents : e.seq \in 1..seq  BY <1>2 DEF HostEvents
    <3>3. Latest(n, HostEvents')  BY <1>0, <3>1, <3>2, LatestIsNew
    <3>4. QED  BY <1>0, <2>1, <3>3 DEF Commits, HostFits
  <2>2. CASE n.type # "HOST_CHANGED"
    <3>1. HostEvents' = HostEvents  BY <1>0, <1>1, <2>2 DEF HostEvents
    <3>2. host' = host  BY <2>2 DEF Commits, HostFits
    <3>3. QED  BY <1>0, <3>1, <3>2 DEF RowIsReplay
  <2>3. QED  BY <2>1, <2>2
<1>5. ASSUME NEW u \in User
      PROVE  u \in active' <=> \E e \in events' : Latest(e, MemberEvents(u)') /\ Admits(e)
  <2>1. CASE Concerns(n, u)
    <3>1. MemberEvents(u)' = MemberEvents(u) \cup {n}  BY <1>0, <2>1 DEF MemberEvents, Concerns
    <3>2. \A e \in MemberEvents(u) : e.seq \in 1..seq  BY <1>2 DEF MemberEvents
    <3>3. ASSUME NEW e  PROVE Latest(e, MemberEvents(u)') <=> e = n
      <4> DEFINE S == MemberEvents(u)
      <4>1. \A f \in S : f.seq \in 1..seq  BY <3>2
      <4> HIDE DEF S
      <4>2. Latest(e, S \cup {n}) <=> e = n  BY <1>0, <4>1, LatestIsNew
      <4>3. QED  BY <3>1, <4>2 DEF S
    <3>4. Admits(n) <=> n.type = "PARTICIPANT_JOINED"  BY <1>1 DEF Admits
    <3>5. u \in active' <=> n.type = "PARTICIPANT_JOINED"
      BY <2>1 DEF Commits, MembersFit
    <3>6. QED  BY <1>0, <3>3, <3>4, <3>5
  <2>2. CASE ~Concerns(n, u)
    <3>1. MemberEvents(u)' = MemberEvents(u)
      <4> DEFINE Of(e) == \/ e.type \in {"PARTICIPANT_JOINED", "PARTICIPANT_LEFT"} /\ e.user = u
                          \/ e.type = "ROOM_ENDED"
                          \/ e.seq = 1 /\ e.user = u
      <4>1. ~Of(n)  BY <1>1, <2>2 DEF Concerns
      <4>2. MemberEvents(u)' = { e \in events \cup {n} : Of(e) }
        BY <1>0 DEF MemberEvents
      <4>3. MemberEvents(u) = { e \in events : Of(e) }  BY DEF MemberEvents
      <4> HIDE DEF Of
      <4>4. QED  BY <4>1, <4>2, <4>3
    <3>2. u \in active' <=> u \in active  BY <2>2 DEF Commits, MembersFit
    <3>3. u \in active <=> \E e \in events : Latest(e, MemberEvents(u)) /\ Admits(e)
      BY <1>0 DEF RowIsReplay
    <3>4. \A e : Latest(e, MemberEvents(u)) => e \in events
      BY DEF Latest, MemberEvents
    <3>5. QED  BY <1>0, <3>1, <3>2, <3>3, <3>4
  <2>3. QED  BY <2>1, <2>2
<1>6. QED  BY <1>3, <1>4, <1>5 DEF RowIsReplay

\* The envelope that InsertEvent adds.
NewEvent(type, user, from, to) ==
  [seq |-> seq + 1, type |-> type, user |-> user, from |-> from, to |-> to]

LEMMA NewEventFields ==
  ASSUME seq \in Nat, NEW type \in EventType, NEW user \in UserOrNone,
         NEW from \in StateOrNone, NEW to \in StateOrNone
  PROVE  /\ NewEvent(type, user, from, to) \in Envelope
         /\ NewEvent(type, user, from, to).seq = seq + 1
         /\ NewEvent(type, user, from, to).type = type
         /\ NewEvent(type, user, from, to).user = user
         /\ NewEvent(type, user, from, to).to = to
  BY DEF NewEvent, Envelope

\* Each of the transactions on an existing room commits one event that
\* announces exactly its row changes.
LEMMA TransactionCommits ==
  ASSUME IInv, NEW r \in Request,
         \/ AddParticipant(r) \/ RemoveParticipant(r) \/ TransferHost(r) \/ EndRoom(r)
         \/ SetState(r) /\ ChecksAccept(req[r].to, endedAt)
  PROVE  \E n : Commits(n)
<1>0. /\ TypeOK /\ InFlight /\ seq \in Nat /\ req[r] \in Local /\ ChecksHold
      /\ req[r].pc # "idle" => state # NoState
      /\ state # NoState => hostRole = {host}
  BY DEF IInv, TypeOK, InFlight, RolesAgree
<1>1. /\ NoState \in StateOrNone /\ NoUser \in UserOrNone /\ "ENDED" \in StateOrNone
      /\ {"PARTICIPANT_JOINED", "PARTICIPANT_LEFT", "HOST_CHANGED", "ROOM_ENDED",
          "ROOM_STATE_CHANGED"} \subseteq EventType
      /\ req[r].user \in UserOrNone /\ req[r].room_state \in StateOrNone
      /\ req[r].to \in StateOrNone /\ req[r].successor \in UserOrNone
  BY <1>0, LocalFields DEF StateOrNone, UserOrNone, RoomState, EventType
<1>2. CASE AddParticipant(r)
  <2> DEFINE n == NewEvent("PARTICIPANT_JOINED", req[r].user, NoState, NoState)
  <2>1. /\ n \in Envelope /\ n.seq = seq + 1 /\ n.type = "PARTICIPANT_JOINED"
        /\ n.user = req[r].user
    BY <1>0, <1>1, NewEventFields
  <2>2. events' = events \cup {n} /\ seq' = seq + 1
    BY <1>2 DEF AddParticipant, InsertEvent, NewEvent
  <2> HIDE DEF n
  <2>3. MembersFit(n)
    BY <1>2, <2>1 DEF AddParticipant, MembersFit, Concerns
  <2>4. StateFits(n) /\ HostFits(n)  BY <1>2, <2>1 DEF AddParticipant, StateFits, HostFits
  <2>5. state # NoState  BY <1>0, <1>2 DEF AddParticipant
  <2>6. hostRole' = {host'} /\ ChecksAccept(state', endedAt')
    BY <1>0, <1>2, <2>5 DEF AddParticipant, ChecksHold
  <2>7. QED
    BY <1>2, <2>1, <2>2, <2>3, <2>4, <2>5, <2>6 DEF AddParticipant, Commits
<1>3. CASE RemoveParticipant(r)
  <2> DEFINE n == NewEvent("PARTICIPANT_LEFT", req[r].user, NoState, NoState)
  <2>1. /\ n \in Envelope /\ n.seq = seq + 1 /\ n.type = "PARTICIPANT_LEFT"
        /\ n.user = req[r].user
    BY <1>0, <1>1, NewEventFields
  <2>2. events' = events \cup {n} /\ seq' = seq + 1
    BY <1>3 DEF RemoveParticipant, InsertEvent, NewEvent
  <2> HIDE DEF n
  <2>3. MembersFit(n)
    BY <1>3, <2>1 DEF RemoveParticipant, MembersFit, Concerns
  <2>4. StateFits(n) /\ HostFits(n)  BY <1>3, <2>1 DEF RemoveParticipant, StateFits, HostFits
  <2>5. state # NoState  BY <1>0, <1>3 DEF RemoveParticipant
  <2>6. hostRole' = {host'} /\ ChecksAccept(state', endedAt')
    BY <1>0, <1>3, <2>5 DEF RemoveParticipant, ChecksHold
  <2>7. QED
    BY <1>3, <2>1, <2>2, <2>3, <2>4, <2>5, <2>6 DEF RemoveParticipant, Commits
<1>4. CASE TransferHost(r)
  <2> DEFINE n == NewEvent("HOST_CHANGED", req[r].successor, NoState, NoState)
  <2>1. /\ n \in Envelope /\ n.seq = seq + 1 /\ n.type = "HOST_CHANGED"
        /\ n.user = req[r].successor
    BY <1>0, <1>1, NewEventFields
  <2>2. events' = events \cup {n} /\ seq' = seq + 1
    BY <1>4 DEF TransferHost, InsertEvent, NewEvent
  <2> HIDE DEF n
  <2>3. MembersFit(n)
    BY <1>4, <2>1 DEF TransferHost, MembersFit, Concerns
  <2>4. StateFits(n) /\ HostFits(n)  BY <1>4, <2>1 DEF TransferHost, StateFits, HostFits
  <2>5. state # NoState  BY <1>0, <1>4 DEF TransferHost
  <2>6. hostRole' = {host'} /\ ChecksAccept(state', endedAt')
    BY <1>0, <1>4 DEF TransferHost, ChecksHold
  <2>7. QED
    BY <1>4, <2>1, <2>2, <2>3, <2>4, <2>5, <2>6 DEF TransferHost, Commits
<1>5. CASE EndRoom(r)
  <2> DEFINE n == NewEvent("ROOM_ENDED", NoUser, req[r].room_state, "ENDED")
  <2>1. /\ n \in Envelope /\ n.seq = seq + 1 /\ n.type = "ROOM_ENDED"
        /\ n.to = "ENDED"
    BY <1>0, <1>1, NewEventFields
  <2>2. events' = events \cup {n} /\ seq' = seq + 1
    BY <1>5 DEF EndRoom, InsertEvent, NewEvent
  <2> HIDE DEF n
  <2>3. MembersFit(n)
    BY <1>5, <2>1 DEF EndRoom, MembersFit, Concerns
  <2>4. StateFits(n) /\ HostFits(n)  BY <1>5, <2>1 DEF EndRoom, StateFits, HostFits
  <2>5. state # NoState /\ state' # NoState
    BY <1>0, <1>5, RoomsAssumption DEF EndRoom, RoomState
  <2>6. hostRole' = {host'} /\ ChecksAccept(state', endedAt')
    BY <1>0, <1>5, <2>5 DEF EndRoom, ChecksAccept
  <2>7. QED
    BY <1>5, <2>1, <2>2, <2>3, <2>4, <2>5, <2>6 DEF EndRoom, Commits
<1>6. CASE SetState(r) /\ ChecksAccept(req[r].to, endedAt)
  <2> DEFINE n == NewEvent("ROOM_STATE_CHANGED", req[r].user, req[r].room_state, req[r].to)
  <2>1. /\ n \in Envelope /\ n.seq = seq + 1 /\ n.type = "ROOM_STATE_CHANGED"
        /\ n.to = req[r].to
    BY <1>0, <1>1, NewEventFields
  <2>2. events' = events \cup {n} /\ seq' = seq + 1
    BY <1>6 DEF SetState, InsertEvent, NewEvent
  <2> HIDE DEF n
  <2>3. MembersFit(n)
    BY <1>6, <2>1 DEF SetState, MembersFit, Concerns
  <2>4. StateFits(n) /\ HostFits(n)  BY <1>6, <2>1 DEF SetState, StateFits, HostFits
  <2>5. state # NoState /\ state' # NoState
    BY <1>0, <1>6, RoomsAssumption DEF SetState, InFlight
  <2>6. hostRole' = {host'} /\ ChecksAccept(state', endedAt')
    BY <1>0, <1>6, <2>5 DEF SetState
  <2>7. QED
    BY <1>6, <2>1, <2>2, <2>3, <2>4, <2>5, <2>6 DEF SetState, Commits
<1>7. QED  BY <1>2, <1>3, <1>4, <1>5, <1>6

\* A step leaves the rows and the log alone, creates the room, or commits.
LEMMA StepShapes ==
  ASSUME IInv, NEW r \in Request, Start(r) \/ Step(r)
  PROVE  \/ UNCHANGED room /\ (published' = published \/ Publish(r))
         \/ \E u \in User : Create(r, u)
         \/ \E n : Commits(n)
<1>1. CASE Start(r)
  BY <1>1 DEF Start, BeginJoin, BeginLeave, BeginEnd, BeginTransition
<1>2. CASE ReadParticipants(r) \/ NextSeq(r) \/ Publish(r) \/ Abort(r)
  BY <1>2 DEF ReadParticipants, NextSeq, Publish, Abort
<1>3. CASE AddParticipant(r) \/ RemoveParticipant(r) \/ TransferHost(r) \/ EndRoom(r)
  BY <1>3, TransactionCommits
<1>4. CASE SetState(r) /\ ChecksAccept(req[r].to, endedAt)
  BY <1>4, TransactionCommits
<1>5. CASE SetState(r) /\ ~ChecksAccept(req[r].to, endedAt)
  BY <1>5 DEF SetState, room
<1>6. QED  BY <1>1, <1>2, <1>3, <1>4, <1>5 DEF Step

\* The parts of IInv that speak of the rows and the log.
Durable ==
  LogGapFree /\ RowIsReplay /\ RolesAgree /\ PublishedIsDurable /\ ChecksHold
  /\ NothingBeforeCreate

LEMMA UntouchedKeeps ==
  ASSUME Durable, UNCHANGED room, published' = published
  PROVE  Durable'
<1>1. /\ state' = state /\ host' = host /\ endedAt' = endedAt /\ seq' = seq
      /\ active' = active /\ hostRole' = hostRole /\ events' = events
  BY DEF room
<1>2. LogGapFree'  BY <1>1 DEF Durable, LogGapFree
<1>3. StateEvents' = StateEvents /\ HostEvents' = HostEvents
      /\ \A u : MemberEvents(u)' = MemberEvents(u)
  BY <1>1 DEF StateEvents, HostEvents, MemberEvents
<1>4. RowIsReplay'  BY <1>1, <1>3 DEF Durable, RowIsReplay
<1>5. RolesAgree' /\ ChecksHold' /\ NothingBeforeCreate' /\ PublishedIsDurable'
  BY <1>1 DEF Durable, RolesAgree, ChecksHold, ChecksAccept, NothingBeforeCreate,
              PublishedIsDurable
<1>6. QED  BY <1>2, <1>4, <1>5 DEF Durable

\* A request publishes a number that the log holds.
LEMMA PublishKeeps ==
  ASSUME IInv, NEW r \in Request, Publish(r)
  PROVE  Durable'
<1>1. UNCHANGED room /\ published' = Append(published, req[r].event)
  BY DEF Publish
<1>2. /\ state' = state /\ host' = host /\ endedAt' = endedAt /\ seq' = seq
      /\ active' = active /\ hostRole' = hostRole /\ events' = events
  BY <1>1 DEF room
<1>3. req[r].event \in 1..seq  BY DEF IInv, InFlight, Publish
<1>4. \E e \in events : e.seq = req[r].event  BY <1>3 DEF IInv, LogGapFree
<1>5. published \in Seq(Nat) /\ req[r].event \in Nat
  BY LocalFields DEF IInv, TypeOK
<1>6. PublishedIsDurable'
  <2>1. SUFFICES ASSUME NEW i \in 1..Len(published')
                 PROVE  \E e \in events : e.seq = published'[i]
    BY <1>2 DEF PublishedIsDurable
  <2>2. CASE i \in 1..Len(published)
    <3>1. published'[i] = published[i]  BY <1>1, <1>5, <2>2
    <3>2. QED  BY <2>2, <3>1 DEF IInv, PublishedIsDurable
  <2>3. CASE i = Len(published) + 1
    <3>1. published'[i] = req[r].event  BY <1>1, <1>5, <2>3
    <3>2. QED  BY <1>4, <3>1
  <2>4. QED  BY <1>1, <1>5, <2>1, <2>2, <2>3
<1>7. LogGapFree'  BY <1>2 DEF IInv, LogGapFree
<1>8. StateEvents' = StateEvents /\ HostEvents' = HostEvents
      /\ \A u : MemberEvents(u)' = MemberEvents(u)
  BY <1>2 DEF StateEvents, HostEvents, MemberEvents
<1>9. RowIsReplay'  BY <1>2, <1>8 DEF IInv, RowIsReplay
<1>10. RolesAgree' /\ ChecksHold' /\ NothingBeforeCreate'
  BY <1>2 DEF IInv, RolesAgree, ChecksHold, ChecksAccept, NothingBeforeCreate
<1>11. QED  BY <1>6, <1>7, <1>9, <1>10 DEF Durable

\* The room's first event says who is host and member, and its state.
LEMMA CreateKeeps ==
  ASSUME IInv, NEW r \in Request, NEW u \in User, Create(r, u)
  PROVE  Durable'
<1>0. /\ state = NoState /\ seq = 0 /\ events = {} /\ state' = "LOBBY" /\ host' = u
      /\ active' = {u} /\ hostRole' = {u} /\ endedAt' = endedAt /\ published' = published
  BY DEF Create, IInv, NothingBeforeCreate
<1> DEFINE n == NewEvent("ROOM_STATE_CHANGED", u, NoState, "LOBBY")
<1>1. events' = {n} /\ seq' = 1
  BY <1>0 DEF Create, InsertEvent, NewEvent
<1>2. /\ n.seq = 1 /\ n.type = "ROOM_STATE_CHANGED" /\ n.user = u /\ n.to = "LOBBY"
  BY <1>0 DEF NewEvent
<1> HIDE DEF n
<1>3. LogGapFree'
  <2>1. { e.seq : e \in events' } = {1} /\ 1..seq' = {1}  BY <1>1, <1>2
  <2>2. QED  BY <1>1, <2>1 DEF LogGapFree
<1>4. RowIsReplay'
  <2>1. StateEvents' = {n} /\ HostEvents' = {n}
    BY <1>1, <1>2 DEF StateEvents, HostEvents
  <2>2. n.seq <= n.seq /\ Latest(n, {n})  BY <1>2 DEF Latest
  <2>3. ASSUME NEW v \in User
        PROVE  v \in active' <=> \E e \in events' : Latest(e, MemberEvents(v)') /\ Admits(e)
    <3>1. CASE v = u
      <4>1. MemberEvents(v)' = {n}  BY <1>1, <1>2, <3>1 DEF MemberEvents
      <4>2. Admits(n)  BY <1>2 DEF Admits
      <4>3. QED  BY <1>0, <1>1, <2>2, <3>1, <4>1, <4>2
    <3>2. CASE v # u
      <4>1. MemberEvents(v)' = {}  BY <1>1, <1>2, <3>2 DEF MemberEvents
      <4>2. QED  BY <1>0, <3>2, <4>1 DEF Latest
    <3>3. QED  BY <3>1, <3>2
  <2>4. QED  BY <1>0, <1>1, <1>2, <2>1, <2>2, <2>3 DEF RowIsReplay
<1>5. state' # NoState /\ state' # "ENDED" /\ state # "ENDED"
  BY <1>0, RoomsAssumption DEF RoomState
<1>6. RolesAgree' /\ NothingBeforeCreate'
  BY <1>0, <1>5 DEF RolesAgree, NothingBeforeCreate
<1>7. ChecksHold'
  BY <1>0, <1>5 DEF IInv, ChecksHold, ChecksAccept
<1>8. PublishedIsDurable'
  <2>1. published = << >>
    <3>1. \A i \in 1..Len(published) : FALSE
      BY <1>0 DEF IInv, PublishedIsDurable
    <3>2. QED  BY <3>1 DEF IInv, TypeOK
  <2>2. QED  BY <1>0, <2>1 DEF PublishedIsDurable
<1>9. QED  BY <1>3, <1>4, <1>6, <1>7, <1>8 DEF Durable

LEMMA CommitKeeps ==
  ASSUME IInv, NEW n, Commits(n)
  PROVE  Durable'
<1>1. /\ seq' = seq + 1 /\ events' = events \cup {n} /\ n.seq = seq + 1
      /\ state' # NoState /\ hostRole' = {host'} /\ published' = published
  BY DEF Commits
<1>2. LogGapFree'  BY <1>1, AppendGapFree DEF IInv
<1>3. RowIsReplay'  BY CommitKeepsReplay DEF IInv
<1>4. RolesAgree' /\ NothingBeforeCreate' /\ ChecksHold'
  BY <1>1 DEF Commits, RolesAgree, NothingBeforeCreate, ChecksHold
<1>5. PublishedIsDurable'  BY <1>1 DEF IInv, PublishedIsDurable
<1>6. QED  BY <1>2, <1>3, <1>4, <1>5 DEF Durable

LEMMA InvariantStep ==
  ASSUME IInv, [Next]_vars
  PROVE  IInv'
<1>1. TypeOK' /\ InFlight'  BY TypeStep DEF IInv
<1>2. Durable'
  <2>1. CASE UNCHANGED vars
    BY <2>1, UntouchedKeeps DEF vars, room, IInv, Durable
  <2>2. ASSUME NEW r \in Request, Start(r) \/ Step(r)
        PROVE  Durable'
    BY <2>2, StepShapes, UntouchedKeeps, PublishKeeps, CreateKeeps, CommitKeeps
    DEF IInv, Durable
  <2>3. QED  BY <2>1, <2>2 DEF Next
<1>3. QED  BY <1>1, <1>2 DEF IInv, Durable

LEMMA InvariantInit == Init => IInv
<1>1. SUFFICES ASSUME Init PROVE IInv
  OBVIOUS
<1>2. TypeOK /\ InFlight  BY <1>1, TypeInit
<1>3. /\ state = NoState /\ seq = 0 /\ events = {} /\ active = {} /\ hostRole = {}
      /\ endedAt = FALSE /\ published = << >>
  BY <1>1 DEF Init
<1>4. LogGapFree  BY <1>3 DEF LogGapFree
<1>5. RowIsReplay /\ RolesAgree /\ NothingBeforeCreate
  BY <1>3 DEF RowIsReplay, RolesAgree, NothingBeforeCreate
<1>6. PublishedIsDurable  BY <1>3 DEF PublishedIsDurable
<1>7. ChecksHold
  BY <1>3, RoomsAssumption DEF ChecksHold, ChecksAccept, RoomState
<1>8. QED  BY <1>2, <1>4, <1>5, <1>6, <1>7 DEF IInv

-----------------------------------------------------------------------------
\* The inductive invariant holds in every reachable state.
THEOREM Invariant == Spec => []IInv
<1>1. Init => IInv  BY InvariantInit
<1>2. IInv /\ [Next]_vars => IInv'  BY InvariantStep
<1>3. QED  BY <1>1, <1>2, PTL DEF Spec

\* However many requests run at once and wherever they are cut short, the log
\* of a room holds each number up to current_seq exactly once.
THEOREM LogIsGapFree == Spec => []LogGapFree
<1>1. IInv => LogGapFree  BY DEF IInv
<1>2. QED  BY <1>1, Invariant, PTL

\* ... the rows are what the log replays to ...
THEOREM RowsReplay == Spec => []RowIsReplay
<1>1. IInv => RowIsReplay  BY DEF IInv
<1>2. QED  BY <1>1, Invariant, PTL

\* ... the two records of the host agree ...
THEOREM HostsAgree == Spec => []RolesAgree
<1>1. IInv => RolesAgree  BY DEF IInv
<1>2. QED  BY <1>1, Invariant, PTL

\* ... and nothing reaches the hub that is not in the log.
THEOREM PublicationsAreDurable == Spec => []PublishedIsDurable
<1>1. IInv => PublishedIsDurable  BY DEF IInv
<1>2. QED  BY <1>1, Invariant, PTL

\* No step of any request brings an ended room back, whatever it decided on an
\* earlier reading of the row.
THEOREM EndedStays == Spec => EndedIsFinal
<1>1. IInv /\ [Next]_vars => [state = "ENDED" => state' = "ENDED"]_vars
  <2>1. SUFFICES ASSUME IInv, [Next]_vars, state = "ENDED", state' # "ENDED"
                 PROVE  FALSE
    OBVIOUS
  <2>2. endedAt = TRUE /\ state # NoState
    BY <2>1, RoomsAssumption DEF IInv, TypeOK, ChecksHold, ChecksAccept, RoomState
  <2>3. endedAt' = FALSE
    <3>1. ChecksHold' /\ TypeOK'  BY <2>1, InvariantStep DEF IInv
    <3>2. QED  BY <2>1, <3>1 DEF ChecksHold, ChecksAccept, TypeOK
  <2>4. PICK r \in Request : Start(r) \/ Step(r)
    BY <2>1 DEF Next, vars
  <2>5. endedAt' = endedAt \/ endedAt' = TRUE
    BY <2>2, <2>4 DEF Start, Step, Create, BeginJoin, BeginLeave, BeginEnd, BeginTransition,
       ReadParticipants, NextSeq, AddParticipant, RemoveParticipant, TransferHost, EndRoom,
       SetState, Publish, Abort, room
  <2>6. QED  BY <2>2, <2>3, <2>5
<1>2. QED  BY <1>1, Invariant, PTL DEF Spec, EndedIsFinal

\* The storage of a room implements RoomLog: every step of every request
\* appends the next event or leaves the log alone.
THEOREM RoomsImplementRoomLog == Spec => ImplementsRoomLog
<1>1. Init => Log!LogInit  BY DEF Init, Log!LogInit
<1>2. IInv /\ [Next]_vars => [Log!AppendEvent]_(Log!logVars)
  <2>1. SUFFICES ASSUME IInv, [Next]_vars
                 PROVE  Log!AppendEvent \/ UNCHANGED <<seq, events>>
    BY DEF Log!logVars
  <2>2. CASE UNCHANGED vars  BY <2>2 DEF vars
  <2>3. ASSUME NEW r \in Request, Start(r) \/ Step(r)
        PROVE  Log!AppendEvent \/ UNCHANGED <<seq, events>>
    <3>1. CASE UNCHANGED room  BY <3>1 DEF room
    <3>2. ASSUME NEW u \in User, Create(r, u)  PROVE Log!AppendEvent
      <4> DEFINE n == NewEvent("ROOM_STATE_CHANGED", u, NoState, "LOBBY")
      <4>1. n.seq = seq + 1 /\ events' = events \cup {n} /\ seq' = seq + 1
        BY <3>2 DEF Create, InsertEvent, NewEvent
      <4> HIDE DEF n
      <4>2. QED  BY <4>1 DEF Log!AppendEvent
    <3>3. ASSUME NEW n, Commits(n)  PROVE Log!AppendEvent
      BY <3>3 DEF Commits, Log!AppendEvent
    <3>4. QED  BY <2>1, <2>3, <3>1, <3>2, <3>3, StepShapes
  <2>4. QED  BY <2>1, <2>2, <2>3 DEF Next
<1>3. QED
  BY <1>1, <1>2, Invariant, PTL DEF Spec, ImplementsRoomLog, Log!LogSpec

-----------------------------------------------------------------------------
(* One request at a time.  What the code promises of a room used by one    *)
(* request after the other, none of them cut short; overlapping requests   *)
(* break each of these, which is why they stand apart from IInv.           *)

OneByOne == MayAbort = FALSE /\ \E r : Request = {r}

\* The only request, q, still holds what the row says (its state st, host h,
\* members and current_seq n), and what it was allowed to do it still is.
Agrees(q, st, h, members, n) ==
  /\ q.pc \in {"idle", "publish"} <=> q.op = "none"
  /\ q.pc = "participants" => q.op \in {"join", "leave"}
  /\ q.op # "none" =>
       /\ q.room_host = h /\ q.room_state = st
       /\ q.op = "leave" \/ st # "ENDED"
  /\ q.pc \in {"next_seq", "commit"} =>
       /\ q.op = "join" => /\ q.user \notin members
                           /\ Cardinality(members) < MaxParticipants(Tier[h])
       /\ q.op = "leave" => q.user \in members /\ q.parts = members
       /\ q.op = "transfer" => q.successor \in members
       /\ q.op = "transition" => \E t \in transitions : t.from = st /\ t.to = q.to
  /\ q.pc = "commit" => q.hint = n + 1
  /\ q.pc = "publish" => q.hint = q.event
  /\ st \notin {NoState, "ENDED"} => h \in members \/ q.op \in {"transfer", "end"}

RequestAgrees == \A r \in Request : Agrees(req[r], state, host, active, seq)

\* Whoever was admitted and is not a member any more was seen to leave since.
LeftSince ==
  state # "ENDED" =>
    \A e \in events : Admits(e) /\ e.user \notin active =>
      \E g \in events : g.type = "PARTICIPANT_LEFT" /\ g.user = e.user /\ e.seq < g.seq

EndedOnce ==
  /\ state = "ENDED" => active = {}
  /\ state # "ENDED" => \A e \in events : e.type # "ROOM_ENDED"

-----------------------------------------------------------------------------
(* The request's local variables, step by step.                            *)

LEMMA IdleAgrees ==
  ASSUME NEW st, NEW h, NEW members, NEW n,
         st \notin {NoState, "ENDED"} => h \in members
  PROVE  Agrees(Idle, st, h, members, n)
  BY DEF Agrees, Idle

LEMMA PublishingAgrees ==
  ASSUME NEW n \in Nat, NEW st, NEW h, NEW members, NEW m,
         st \notin {NoState, "ENDED"} => h \in members
  PROVE  Agrees(Publishing(n, n), st, h, members, m)
<1>1. /\ Publishing(n, n).pc = "publish" /\ Publishing(n, n).op = "none"
      /\ Publishing(n, n).event = n /\ Publishing(n, n).hint = n
  BY DEF Publishing, Idle
<1> DEFINE q == Publishing(n, n)
<1> HIDE DEF q
<1>2. q.pc = "publish" /\ q.op = "none" /\ q.hint = q.event  BY <1>1 DEF q
<1>3. Agrees(q, st, h, members, m)  BY <1>2 DEF Agrees
<1>4. QED  BY <1>3 DEF q

LEMMA LoadedAgrees ==
  ASSUME NEW pc, NEW op, NEW u, NEW to, NEW members, NEW n,
         \/ pc = "participants" /\ op \in {"join", "leave"}
         \/ pc = "next_seq" /\ op = "end"
         \/ /\ pc = "next_seq" /\ op = "transition"
            /\ \E t \in transitions : t.from = state /\ t.to = to,
         op = "leave" \/ state # "ENDED",
         state \notin {NoState, "ENDED"} => host \in members
  PROVE  Agrees(Loaded(pc, op, u, to), state, host, members, n)
<1> DEFINE q == Loaded(pc, op, u, to)
<1>1. q.pc = pc /\ q.op = op /\ q.to = to /\ q.room_host = host /\ q.room_state = state
  BY DEF Loaded, Idle
<1> HIDE DEF q
<1>2. Agrees(q, state, host, members, n)  BY <1>1 DEF Agrees
<1>3. QED  BY <1>2 DEF q

LEMMA ContinueAgrees ==
  ASSUME NEW q \in Local, NEW op, NEW s, NEW members, NEW n,
         q.room_host = host, q.room_state = state, state # "ENDED",
         op \in {"end", "transfer"}, op = "transfer" => s \in members
  PROVE  Agrees(Continue(q, op, s), state, host, members, n)
<1> DEFINE c == Continue(q, op, s)
<1>1. /\ c.pc = "next_seq" /\ c.op = op /\ c.successor = s
      /\ c.room_host = host /\ c.room_state = state
  BY DEF Continue, Local
<1> HIDE DEF c
<1>2. Agrees(c, state, host, members, n)  BY <1>1 DEF Agrees
<1>3. QED  BY <1>2 DEF c

LEMMA OnlyEntry ==
  ASSUME OneByOne, req \in [Request -> Local], NEW r \in Request, NEW q,
         req' = [req EXCEPT ![r] = q], Agrees(q, state', host', active', seq')
  PROVE  RequestAgrees'
<1>1. \A p \in Request : p = r  BY DEF OneByOne
<1>2. \A p \in Request : req'[p] = q  BY <1>1
<1>3. QED  BY <1>2 DEF RequestAgrees

LEMMA CapIsNat == \A tier : MaxParticipants(tier) \in Nat
  BY CapsAssumption DEF MaxParticipants

\* The table has no row out of ENDED, and no row to a state that is none.
LEMMA TableRows ==
  \A t \in transitions : t.from \in RoomState \ {"ENDED"} /\ t.to \in RoomState
  BY DEF transitions, RoomState

\* A host who leaves a room hands it to a member who stays.
LEMMA SuccessorStays ==
  ASSUME NEW q \in Local, NEW c \in Candidates(q)
  PROVE  c.user \in q.parts \ {q.user}
  BY LocalFields DEF Candidates, Promotable

\* The steps that only read.
LEMMA ReadAgrees ==
  ASSUME IInv, OneByOne, RequestAgrees, EndedOnce, NEW r \in Request,
         Start(r) \/ ReadParticipants(r) \/ NextSeq(r), ~\E u \in User : Create(r, u)
  PROVE  RequestAgrees'
<1>0. /\ req \in [Request -> Local] /\ req[r] \in Local /\ seq \in Nat
      /\ Agrees(req[r], state, host, active, seq)
  BY DEF IInv, TypeOK, RequestAgrees
<1>1. req[r].pc = "idle" /\ state \notin {NoState, "ENDED"} => host \in active
  BY <1>0 DEF Agrees
<1>2. ASSUME UNCHANGED room, NEW q, req' = [req EXCEPT ![r] = q],
             Agrees(q, state, host, active, seq)
      PROVE  RequestAgrees'
  BY <1>0, <1>2, OnlyEntry DEF room
<1>3. ASSUME NEW u \in User, BeginJoin(r, u)  PROVE RequestAgrees'
  <2>1. Agrees(Loaded("participants", "join", u, NoState), state, host, active, seq)
    BY <1>1, <1>3, LoadedAgrees DEF BeginJoin, MayStart
  <2>2. QED  BY <1>2, <1>3, <2>1 DEF BeginJoin
<1>4. ASSUME NEW u \in User, BeginLeave(r, u)  PROVE RequestAgrees'
  <2>1. Agrees(Loaded("participants", "leave", u, NoState), state, host, active, seq)
    BY <1>1, <1>4, LoadedAgrees DEF BeginLeave, MayStart
  <2>2. QED  BY <1>2, <1>4, <2>1 DEF BeginLeave
<1>5. ASSUME NEW u \in User, BeginEnd(r, u)  PROVE RequestAgrees'
  <2>1. Agrees(Loaded("next_seq", "end", u, NoState), state, host, active, seq)
    BY <1>1, <1>5, LoadedAgrees DEF BeginEnd, MayStart
  <2>2. QED  BY <1>2, <1>5, <2>1 DEF BeginEnd
<1>6. ASSUME NEW u \in User, NEW ev \in LifecycleEvent, BeginTransition(r, u, ev)
      PROVE  RequestAgrees'
  <2>1. PICK to \in NextStates(state, ev) :
          req' = [req EXCEPT ![r] = Loaded("next_seq", "transition", u, to)]
    BY <1>6 DEF BeginTransition
  <2>2. PICK t \in transitions : t.from = state /\ t.to = to  BY DEF NextStates
  <2>3. state # "ENDED"  BY <2>2, TableRows
  <2>4. Agrees(Loaded("next_seq", "transition", u, to), state, host, active, seq)
    BY <1>1, <1>6, <2>2, <2>3, LoadedAgrees DEF BeginTransition, MayStart
  <2>5. QED  BY <1>2, <1>6, <2>1, <2>4 DEF BeginTransition
<1>7. CASE ReadParticipants(r) /\ Proceeds(req[r])
  <2> DEFINE q == [req[r] EXCEPT !.pc = "next_seq", !.parts = active,
                                 !.hosts = hostRole \cap active]
  <2>1. req' = [req EXCEPT ![r] = q]  BY <1>7, <1>0 DEF ReadParticipants
  <2>2. /\ q.pc = "next_seq" /\ q.op = req[r].op /\ q.user = req[r].user
        /\ q.parts = active /\ q.room_host = req[r].room_host
        /\ q.room_state = req[r].room_state
    BY <1>0 DEF Local
  <2>3. req[r].pc = "participants" /\ req[r].op \in {"join", "leave"}
    BY <1>0, <1>7 DEF ReadParticipants, Agrees
  <2>4. req[r].op = "join" => /\ req[r].user \notin active
                              /\ Cardinality(active) < MaxParticipants(Tier[host])
    BY <1>0, <1>7, <2>3 DEF Proceeds, JoinAllowed, CanJoin, Agrees
  <2>5. req[r].op = "leave" => req[r].user \in active
    BY <1>7 DEF Proceeds
  <2>6. state # "ENDED"  BY <1>0, <2>3, <2>5 DEF Agrees, EndedOnce
  <2> HIDE DEF q
  <2>7. Agrees(q, state, host, active, seq)
    BY <1>0, <2>2, <2>3, <2>4, <2>5, <2>6 DEF Agrees
  <2>8. QED  BY <1>2, <1>7, <2>1, <2>7 DEF ReadParticipants
<1>8. CASE ReadParticipants(r) /\ ~Proceeds(req[r])
  <2>1. req[r].op \in {"join", "leave"}  BY <1>0, <1>8 DEF ReadParticipants, Agrees
  <2>2. Agrees(Idle, state, host, active, seq)
    BY <1>0, <2>1, IdleAgrees DEF Agrees
  <2>3. QED  BY <1>2, <1>8, <2>2 DEF ReadParticipants
<1>9. CASE NextSeq(r)
  <2> DEFINE q == [req[r] EXCEPT !.pc = "commit", !.hint = seq + 1]
  <2>1. req' = [req EXCEPT ![r] = q]  BY <1>9, <1>0 DEF NextSeq
  <2>2. /\ q.pc = "commit" /\ q.op = req[r].op /\ q.user = req[r].user
        /\ q.parts = req[r].parts /\ q.room_host = req[r].room_host
        /\ q.room_state = req[r].room_state /\ q.hint = seq + 1
        /\ q.successor = req[r].successor /\ q.to = req[r].to
    BY <1>0 DEF Local
  <2>3. req[r].pc = "next_seq"  BY <1>9 DEF NextSeq
  <2> HIDE DEF q
  <2>4. Agrees(q, state, host, active, seq)
    BY <1>0, <2>2, <2>3 DEF Agrees
  <2>5. QED  BY <1>2, <1>9, <2>1, <2>4 DEF NextSeq
<1>10. QED
  BY <1>3, <1>4, <1>5, <1>6, <1>7, <1>8, <1>9 DEF Start

\* What the request holds when its transaction begins.
LEMMA AtCommit ==
  ASSUME IInv, RequestAgrees, EndedOnce, NEW r \in Request, req[r].pc = "commit"
  PROVE  /\ req[r] \in Local /\ req \in [Request -> Local]
         /\ seq \in Nat /\ seq + 1 \in Nat
         /\ req[r].hint = seq + 1
         /\ state # NoState
         /\ req[r].op # "none"
         /\ req[r].room_host = host /\ req[r].room_state = state
         /\ req[r].op # "leave" => state # "ENDED"
         /\ req[r].op = "join" => /\ req[r].user \notin active
                                  /\ Cardinality(active) < MaxParticipants(Tier[host])
         /\ req[r].op = "leave" =>
              /\ req[r].user \in active /\ req[r].parts = active /\ state # "ENDED"
         /\ req[r].op = "transfer" => req[r].successor \in active
         /\ req[r].op = "transition" =>
              \E t \in transitions : t.from = state /\ t.to = req[r].to
         /\ req[r].op \notin {"transfer", "end"} /\ state # "ENDED" => host \in active
<1>1. Agrees(req[r], state, host, active, seq)  BY DEF RequestAgrees
<1>2. req \in [Request -> Local] /\ seq \in Nat /\ (req[r].pc # "idle" => state # NoState)
  BY DEF IInv, TypeOK, InFlight
<1>3. req[r].op = "leave" => req[r].user \in active /\ state # "ENDED"
  BY <1>1 DEF Agrees, EndedOnce
<1>4. QED  BY <1>1, <1>2, <1>3 DEF Agrees

\* The steps that write.
LEMMA WriteAgrees ==
  ASSUME IInv, OneByOne, RequestAgrees, EndedOnce, NEW r \in Request,
         \/ \E u \in User : Create(r, u)
         \/ AddParticipant(r) \/ RemoveParticipant(r) \/ TransferHost(r)
         \/ EndRoom(r) \/ SetState(r) \/ Publish(r) \/ Abort(r)
  PROVE  RequestAgrees'
<1> USE RoomsAssumption
<1>0. /\ req \in [Request -> Local] /\ req[r] \in Local /\ seq \in Nat
      /\ Agrees(req[r], state, host, active, seq)
  BY DEF IInv, TypeOK, RequestAgrees
<1>1. ASSUME NEW u \in User, Create(r, u)  PROVE RequestAgrees'
  <2>1. host' \in active' /\ req' = [req EXCEPT ![r] = Publishing(1, 1)]
    BY <1>1 DEF Create
  <2>2. Agrees(Publishing(1, 1), state', host', active', seq')
    <3>1. 1 \in Nat  OBVIOUS
    <3>2. QED  BY <2>1, <3>1, PublishingAgrees
  <2>3. QED  BY <1>0, <2>1, <2>2, OnlyEntry
<1>2. ASSUME req[r].pc = "commit",
             req' = [req EXCEPT ![r] = Publishing(seq + 1, req[r].hint)],
             state' \notin {NoState, "ENDED"} => host' \in active'
      PROVE  RequestAgrees'
  <2>1. req[r].hint = seq + 1 /\ seq + 1 \in Nat  BY <1>2, AtCommit
  <2>2. Agrees(Publishing(seq + 1, seq + 1), state', host', active', seq')
    BY <1>2, <2>1, PublishingAgrees
  <2>3. QED  BY <1>0, <1>2, <2>1, <2>2, OnlyEntry
<1>3. CASE AddParticipant(r)
  <2>1. host \in active  BY <1>3, AtCommit DEF AddParticipant
  <2>2. QED  BY <1>2, <1>3, <2>1 DEF AddParticipant, Committed
<1>4. CASE RemoveParticipant(r)
  <2>0. /\ req[r].pc = "commit" /\ req[r].op = "leave" /\ state' = state /\ host' = host
        /\ active' = active \ {req[r].user} /\ seq' = seq + 1
    BY <1>4 DEF RemoveParticipant, InsertEvent
  <2>1. PICK q \in AfterRemoval(req[r]) : req' = [req EXCEPT ![r] = q]
    BY <1>4 DEF RemoveParticipant
  <2>2. /\ req[r].room_host = host /\ req[r].room_state = state /\ state # "ENDED"
        /\ req[r].parts = active /\ host \in active
    BY <2>0, AtCommit
  <2>3. CASE req[r].user # host
    <3>1. q = Publishing(seq + 1, req[r].hint)  BY <2>1, <2>2, <2>3 DEF AfterRemoval
    <3>2. host' \in active'  BY <2>0, <2>2, <2>3
    <3>3. QED  BY <1>2, <2>0, <2>1, <3>1, <3>2
  <2>4. CASE req[r].user = host /\ Candidates(req[r]) = {}
    <3>1. q = Continue(req[r], "end", NoUser)  BY <2>1, <2>2, <2>4 DEF AfterRemoval
    <3>2. Agrees(Continue(req[r], "end", NoUser), state, host, active', seq')
      BY <1>0, <2>2, ContinueAgrees
    <3>3. QED  BY <1>0, <2>0, <2>1, <3>1, <3>2, OnlyEntry
  <2>5. CASE req[r].user = host /\ Candidates(req[r]) # {}
    <3>1. PICK c \in Candidates(req[r]) : q = Continue(req[r], "transfer", c.user)
      BY <2>1, <2>2, <2>5 DEF AfterRemoval
    <3>2. c.user \in active'  BY <1>0, <2>0, <2>2, SuccessorStays
    <3>3. Agrees(q, state, host, active', seq')
      BY <1>0, <2>2, <3>1, <3>2, ContinueAgrees
    <3>4. QED  BY <1>0, <2>0, <2>1, <3>3, OnlyEntry
  <2>6. QED  BY <2>3, <2>4, <2>5
<1>5. CASE TransferHost(r)
  <2>1. req[r].successor \in active  BY <1>5, AtCommit DEF TransferHost
  <2>2. QED  BY <1>2, <1>5, <2>1 DEF TransferHost, Committed
<1>6. CASE EndRoom(r)
  BY <1>2, <1>6 DEF EndRoom, Committed
<1>7. CASE SetState(r)
  <2>1. host \in active  BY <1>7, AtCommit DEF SetState
  <2>2. CASE ChecksAccept(req[r].to, endedAt)
    BY <1>2, <1>7, <2>1, <2>2 DEF SetState, Committed
  <2>3. CASE ~ChecksAccept(req[r].to, endedAt)
    <3>1. /\ state' = state /\ host' = host /\ active' = active
          /\ req' = [req EXCEPT ![r] = Idle]
      BY <1>7, <2>3 DEF SetState
    <3>2. Agrees(Idle, state', host', active', seq')  BY <2>1, <3>1, IdleAgrees
    <3>3. QED  BY <1>0, <3>1, <3>2, OnlyEntry
  <2>4. QED  BY <2>2, <2>3
<1>8. CASE Publish(r)
  <2>1. state' = state /\ host' = host /\ active' = active
        /\ req' = [req EXCEPT ![r] = Idle] /\ req[r].pc = "publish"
    BY <1>8 DEF Publish, room
  <2>2. Agrees(Idle, state', host', active', seq')
    BY <1>0, <2>1, IdleAgrees DEF Agrees
  <2>3. QED  BY <1>0, <2>1, <2>2, OnlyEntry
<1>9. CASE Abort(r)
  BY <1>9 DEF Abort, OneByOne
<1>10. QED  BY <1>1, <1>3, <1>4, <1>5, <1>6, <1>7, <1>8, <1>9

-----------------------------------------------------------------------------
(* The log.  A transaction appends an event that tells what it found.      *)

Tells(n) ==
  \/ /\ n.type = "PARTICIPANT_JOINED"
     /\ n.user \notin active /\ active' = active \cup {n.user}
     /\ Cardinality(active) < MaxParticipants(Tier[host])
     /\ state' = state
  \/ n.type = "PARTICIPANT_LEFT" /\ active' = active \ {n.user} /\ state' = state
  \/ n.type = "HOST_CHANGED" /\ active' = active /\ state' = state
  \/ /\ n.type = "ROOM_ENDED" /\ active' = {} /\ state' = "ENDED"
     /\ n.from = state /\ n.to = "ENDED"
  \/ /\ n.type = "ROOM_STATE_CHANGED" /\ active' = active /\ state' # "ENDED"
     /\ n.from = state /\ n.to = state'
     /\ \E t \in transitions : t.from = state /\ t.to = state'

Appends(n) ==
  /\ state \in RoomState \ {"ENDED"}
  /\ n.seq = seq + 1 /\ seq' = seq + 1
  /\ events' = events \cup {n}
  /\ Tells(n)

LEMMA NewEventFrom ==
  ASSUME NEW type, NEW user, NEW from, NEW to
  PROVE  /\ NewEvent(type, user, from, to).seq = seq + 1
         /\ NewEvent(type, user, from, to).type = type
         /\ NewEvent(type, user, from, to).user = user
         /\ NewEvent(type, user, from, to).from = from
         /\ NewEvent(type, user, from, to).to = to
  BY DEF NewEvent

LEMMA SoloCommit ==
  ASSUME IInv, RequestAgrees, EndedOnce, NEW r \in Request,
         \/ AddParticipant(r) \/ RemoveParticipant(r) \/ TransferHost(r) \/ EndRoom(r)
         \/ SetState(r) /\ ChecksAccept(req[r].to, endedAt)
  PROVE  \E n : Appends(n)
<1>0. req[r].pc = "commit"
  BY DEF AddParticipant, RemoveParticipant, TransferHost, EndRoom, SetState
<1>1. state \in RoomState \ {"ENDED"}
  <2>1. state # NoState /\ state # "ENDED"  BY <1>0, AtCommit
  <2>2. QED  BY <2>1 DEF IInv, TypeOK, StateOrNone
<1>2. CASE AddParticipant(r)
  <2> DEFINE n == NewEvent("PARTICIPANT_JOINED", req[r].user, NoState, NoState)
  <2>1. n.seq = seq + 1 /\ n.type = "PARTICIPANT_JOINED" /\ n.user = req[r].user
    BY NewEventFrom
  <2>2. events' = events \cup {n} /\ seq' = seq + 1
    BY <1>2 DEF AddParticipant, InsertEvent, NewEvent
  <2> HIDE DEF n
  <2>3. Tells(n)  BY <1>2, <2>1, AtCommit DEF AddParticipant, Tells
  <2>4. QED  BY <1>1, <2>1, <2>2, <2>3 DEF Appends
<1>3. CASE RemoveParticipant(r)
  <2> DEFINE n == NewEvent("PARTICIPANT_LEFT", req[r].user, NoState, NoState)
  <2>1. n.seq = seq + 1 /\ n.type = "PARTICIPANT_LEFT" /\ n.user = req[r].user
    BY NewEventFrom
  <2>2. events' = events \cup {n} /\ seq' = seq + 1
    BY <1>3 DEF RemoveParticipant, InsertEvent, NewEvent
  <2> HIDE DEF n
  <2>3. Tells(n)  BY <1>3, <2>1 DEF RemoveParticipant, Tells
  <2>4. QED  BY <1>1, <2>1, <2>2, <2>3 DEF Appends
<1>4. CASE TransferHost(r)
  <2> DEFINE n == NewEvent("HOST_CHANGED", req[r].successor, NoState, NoState)
  <2>1. n.seq = seq + 1 /\ n.type = "HOST_CHANGED"  BY NewEventFrom
  <2>2. events' = events \cup {n} /\ seq' = seq + 1
    BY <1>4 DEF TransferHost, InsertEvent, NewEvent
  <2> HIDE DEF n
  <2>3. Tells(n)  BY <1>4, <2>1 DEF TransferHost, Tells
  <2>4. QED  BY <1>1, <2>1, <2>2, <2>3 DEF Appends
<1>5. CASE EndRoom(r)
  <2> DEFINE n == NewEvent("ROOM_ENDED", NoUser, req[r].room_state, "ENDED")
  <2>1. /\ n.seq = seq + 1 /\ n.type = "ROOM_ENDED" /\ n.to = "ENDED"
        /\ n.from = req[r].room_state
    BY NewEventFrom
  <2>2. events' = events \cup {n} /\ seq' = seq + 1
    BY <1>5 DEF EndRoom, InsertEvent, NewEvent
  <2> HIDE DEF n
  <2>3. n.from = state  BY <1>0, <2>1, AtCommit
  <2>4. Tells(n)  BY <1>5, <2>1, <2>3 DEF EndRoom, Tells
  <2>5. QED  BY <1>1, <2>1, <2>2, <2>4 DEF Appends
<1>6. CASE SetState(r) /\ ChecksAccept(req[r].to, endedAt)
  <2> DEFINE n == NewEvent("ROOM_STATE_CHANGED", req[r].user, req[r].room_state, req[r].to)
  <2>1. /\ n.seq = seq + 1 /\ n.type = "ROOM_STATE_CHANGED" /\ n.to = req[r].to
        /\ n.from = req[r].room_state
    BY NewEventFrom
  <2>2. events' = events \cup {n} /\ seq' = seq + 1
    BY <1>6 DEF SetState, InsertEvent, NewEvent
  <2> HIDE DEF n
  <2>3. n.from = state /\ state' = req[r].to /\ active' = active
        /\ \E t \in transitions : t.from = state /\ t.to = req[r].to
    BY <1>0, <1>6, <2>1, AtCommit DEF SetState
  <2>4. state' # "ENDED"
    BY <1>1, <1>6, <2>3, RoomsAssumption DEF IInv, TypeOK, ChecksHold, ChecksAccept
  <2>5. Tells(n)  BY <2>1, <2>3, <2>4 DEF Tells
  <2>6. QED  BY <1>1, <2>1, <2>2, <2>5 DEF Appends
<1>7. QED  BY <1>2, <1>3, <1>4, <1>5, <1>6

\* With one request at a time, a step leaves the rows alone, creates the room,
\* or appends an event that tells what it found.
LEMMA SoloShapes ==
  ASSUME IInv, RequestAgrees, EndedOnce, NEW r \in Request, Start(r) \/ Step(r)
  PROVE  UNCHANGED room \/ (\E u \in User : Create(r, u)) \/ \E n : Appends(n)
<1>1. CASE Start(r)
  BY <1>1 DEF Start, BeginJoin, BeginLeave, BeginEnd, BeginTransition
<1>2. CASE ReadParticipants(r) \/ NextSeq(r) \/ Publish(r) \/ Abort(r)
  BY <1>2 DEF ReadParticipants, NextSeq, Publish, Abort
<1>3. CASE AddParticipant(r) \/ RemoveParticipant(r) \/ TransferHost(r) \/ EndRoom(r)
  BY <1>3, SoloCommit
<1>4. CASE SetState(r) /\ ChecksAccept(req[r].to, endedAt)
  BY <1>4, SoloCommit
<1>5. CASE SetState(r) /\ ~ChecksAccept(req[r].to, endedAt)
  BY <1>5 DEF SetState, room
<1>6. QED  BY <1>1, <1>2, <1>3, <1>4, <1>5 DEF Step

-----------------------------------------------------------------------------
\* An event that is appended comes after all the others.
LEMMA AppendIsLast ==
  ASSUME IInv, NEW n, Appends(n)
  PROVE  /\ \A e \in events : e.seq \in Nat /\ e.seq >= 1 /\ e.seq < n.seq
         /\ n.seq \in Nat /\ n.seq > 1 /\ n \notin events
<1>1. seq \in Nat /\ n.seq = seq + 1  BY DEF IInv, TypeOK, Appends
<1>2. \A e \in events : e.seq \in 1..seq  BY SeqsInRange DEF IInv
<1>3. seq >= 1
  BY RoomHasEvents, RoomsAssumption DEF IInv, Appends
<1>4. QED  BY <1>1, <1>2, <1>3

LEMMA AppendEndedOnce ==
  ASSUME IInv, EndedOnce, OneRoomEnded, NEW n, Appends(n)
  PROVE  EndedOnce' /\ OneRoomEnded'
<1>1. /\ state # "ENDED" /\ events' = events \cup {n}
      /\ \A e \in events : e.type # "ROOM_ENDED"
  BY DEF Appends, EndedOnce
<1>2. IF n.type = "ROOM_ENDED" THEN state' = "ENDED" /\ active' = {} ELSE state' # "ENDED"
  BY <1>1 DEF Appends, Tells
<1>3. EndedOnce'  BY <1>1, <1>2 DEF EndedOnce
<1>4. OneRoomEnded'  BY <1>1 DEF OneRoomEnded
<1>5. QED  BY <1>3, <1>4

\* A joining user, being no member, has left since any earlier admission.
LEMMA AppendJoinedOnce ==
  ASSUME IInv, LeftSince, JoinedOnce, NEW n, Appends(n)
  PROVE  LeftSince' /\ JoinedOnce'
<1>1. /\ state # "ENDED" /\ events' = events \cup {n}
      /\ \A e \in events : e.seq < n.seq
      /\ \A e \in events : e.seq \in Nat
      /\ n.seq \in Nat /\ n.seq # 1
  BY AppendIsLast DEF Appends
<1>2. LeftSince'
  <2>1. SUFFICES ASSUME state' # "ENDED", NEW e \in events', Admits(e), e.user \notin active'
                 PROVE  \E g \in events' : /\ g.type = "PARTICIPANT_LEFT" /\ g.user = e.user
                                           /\ e.seq < g.seq
    BY DEF LeftSince, Admits
  <2>2. CASE e = n
    <3>1. n.type = "PARTICIPANT_JOINED"  BY <1>1, <2>1, <2>2 DEF Admits
    <3>2. n.user \in active'  BY <3>1 DEF Appends, Tells
    <3>3. QED  BY <2>1, <2>2, <3>2
  <2>3. CASE e \in events /\ e.user \in active
    <3>1. n.type = "PARTICIPANT_LEFT" /\ n.user = e.user
      BY <2>1, <2>3 DEF Appends, Tells
    <3>2. QED  BY <1>1, <2>3, <3>1
  <2>4. CASE e \in events /\ e.user \notin active
    BY <1>1, <2>1, <2>4 DEF LeftSince
  <2>5. QED  BY <1>1, <2>1, <2>2, <2>3, <2>4
<1>3. JoinedOnce'
  <2>1. SUFFICES ASSUME NEW e \in events', NEW f \in events',
                        e.type = "PARTICIPANT_JOINED" \/ e.seq = 1,
                        f.type = "PARTICIPANT_JOINED", e.user = f.user, e.seq < f.seq
                 PROVE  \E g \in events' : /\ g.type = "PARTICIPANT_LEFT" /\ g.user = e.user
                                           /\ e.seq < g.seq /\ g.seq < f.seq
    BY DEF JoinedOnce
  <2>2. CASE e \in events /\ f \in events
    BY <1>1, <2>1, <2>2 DEF JoinedOnce
  <2>3. CASE e \in events /\ f = n
    <3>1. e.user \notin active  BY <2>1, <2>3 DEF Appends, Tells
    <3>2. Admits(e)  BY <2>1 DEF Admits
    <3>3. PICK g \in events : /\ g.type = "PARTICIPANT_LEFT" /\ g.user = e.user
                              /\ e.seq < g.seq
      BY <1>1, <2>3, <3>1, <3>2 DEF LeftSince
    <3>4. QED  BY <1>1, <2>3, <3>3
  <2>4. CASE e = n
    <3>1. ~(n.seq < f.seq)  BY <1>1
    <3>2. QED  BY <2>1, <2>4, <3>1
  <2>5. QED  BY <1>1, <2>2, <2>3, <2>4
<1>4. QED  BY <1>2, <1>3

\* A lifecycle event starts from the state the row has, which the previous
\* lifecycle event left.
LEMMA AppendLegal ==
  ASSUME IInv, LifecycleIsLegal, NEW n, Appends(n)
  PROVE  LifecycleIsLegal'
<1>1. /\ events' = events \cup {n} /\ state \in RoomState \ {"ENDED"}
      /\ \A e \in events : e.seq \in Nat /\ e.seq < n.seq
      /\ n.seq \in Nat
  BY AppendIsLast DEF Appends
<1> DEFINE Before(k) == { x \in StateEvents : x.seq < k }
<1>2. ASSUME NEW e \in events
      PROVE  { x \in StateEvents' : x.seq < e.seq } = Before(e.seq)
  <2>1. ~(n.seq < e.seq)  BY <1>1
  <2>2. QED  BY <1>1, <2>1 DEF StateEvents
<1>3. { x \in StateEvents' : x.seq < n.seq } = StateEvents
  <2>1. ~(n.seq < n.seq)  BY <1>1
  <2>2. QED  BY <1>1, <2>1 DEF StateEvents
<1>4. StateEvents \subseteq StateEvents'  BY <1>1 DEF StateEvents
<1>5. ASSUME NEW e \in StateEvents', e.seq > 1
      PROVE  \E p \in StateEvents' :
               /\ Latest(p, { x \in StateEvents' : x.seq < e.seq })
               /\ e.from = p.to
               /\ \E t \in transitions : t.from = e.from /\ t.to = e.to
  <2>1. CASE e \in events
    <3>1. e \in StateEvents  BY <1>5, <2>1 DEF StateEvents
    <3>2. PICK p \in StateEvents :
            /\ Latest(p, { x \in StateEvents : x.seq < e.seq })
            /\ e.from = p.to
            /\ \E t \in transitions : t.from = e.from /\ t.to = e.to
      BY <1>5, <3>1 DEF LifecycleIsLegal
    <3>3. QED  BY <1>2, <1>4, <2>1, <3>2
  <2>2. CASE e = n
    <3>1. PICK p \in events : Latest(p, StateEvents) /\ p.to = state
      BY <1>1, RoomsAssumption DEF IInv, RowIsReplay
    <3>2. p \in StateEvents'  BY <1>4, <3>1 DEF Latest
    <3>3. n.type \in {"ROOM_STATE_CHANGED", "ROOM_ENDED"}
      BY <1>5, <2>2 DEF StateEvents
    <3>4. n.from = state /\ \E t \in transitions : t.from = state /\ t.to = n.to
      <4>1. CASE n.type = "ROOM_STATE_CHANGED"
        BY <4>1 DEF Appends, Tells
      <4>2. CASE n.type = "ROOM_ENDED"
        <5>1. n.from = state /\ n.to = "ENDED"  BY <4>2 DEF Appends, Tells
        <5>2. \E t \in transitions : t.from = state /\ t.to = "ENDED"
          BY <1>1 DEF transitions, RoomState
        <5>3. QED  BY <5>1, <5>2
      <4>3. QED  BY <3>3, <4>1, <4>2
    <3>5. QED  BY <1>3, <2>2, <3>1, <3>2, <3>4
  <2>3. QED  BY <1>1, <1>5, <2>1, <2>2 DEF StateEvents
<1>6. QED  BY <1>5 DEF LifecycleIsLegal

\* The room's first event is nobody's second admission, and ends nothing.
LEMMA CreateLog ==
  ASSUME IInv, NEW r \in Request, NEW u \in User, Create(r, u)
  PROVE  EndedOnce' /\ OneRoomEnded' /\ LeftSince' /\ JoinedOnce' /\ LifecycleIsLegal'
<1>0. events = {} /\ seq = 0 /\ state' = "LOBBY" /\ active' = {u}
  BY DEF Create, IInv, NothingBeforeCreate
<1> DEFINE n == NewEvent("ROOM_STATE_CHANGED", u, NoState, "LOBBY")
<1>1. events' = {n}  BY <1>0 DEF Create, InsertEvent, NewEvent
<1>2. n.seq = 1 /\ n.type = "ROOM_STATE_CHANGED" /\ n.user = u
  BY <1>0 DEF NewEvent
<1> HIDE DEF n
<1>3. EndedOnce' /\ OneRoomEnded'  BY <1>0, <1>1, <1>2 DEF EndedOnce, OneRoomEnded
<1>4. LeftSince'  BY <1>0, <1>1, <1>2 DEF LeftSince
<1>5. JoinedOnce'  BY <1>1, <1>2 DEF JoinedOnce
<1>6. LifecycleIsLegal'
  <2>1. StateEvents' \subseteq {n}  BY <1>1 DEF StateEvents
  <2>2. ~(n.seq > 1)  BY <1>2
  <2>3. QED  BY <2>1, <2>2 DEF LifecycleIsLegal
<1>7. QED  BY <1>3, <1>4, <1>5, <1>6

-----------------------------------------------------------------------------
(* The theorems for requests that do not overlap.                          *)

SoloInv ==
  /\ IInv /\ RequestAgrees /\ EndedOnce /\ LeftSince
  /\ OneRoomEnded /\ JoinedOnce /\ LifecycleIsLegal

LEMMA SoloInit == ASSUME OneByOne, Init PROVE SoloInv
<1>1. IInv  BY InvariantInit
<1>2. /\ state = NoState /\ host = NoUser /\ seq = 0 /\ active = {} /\ events = {}
      /\ \A r \in Request : req[r] = Idle
  BY DEF Init
<1>3. state # "ENDED"  BY <1>2, RoomsAssumption DEF RoomState
<1>4. RequestAgrees  BY <1>2, IdleAgrees DEF RequestAgrees
<1>5. EndedOnce /\ LeftSince /\ OneRoomEnded /\ JoinedOnce
  BY <1>2, <1>3 DEF EndedOnce, LeftSince, OneRoomEnded, JoinedOnce
<1>6. LifecycleIsLegal  BY <1>2 DEF LifecycleIsLegal, StateEvents
<1>7. QED  BY <1>1, <1>4, <1>5, <1>6 DEF SoloInv

LEMMA SoloStep == ASSUME OneByOne, SoloInv, [Next]_vars PROVE SoloInv'
<1>0. /\ IInv /\ RequestAgrees /\ EndedOnce /\ LeftSince
      /\ OneRoomEnded /\ JoinedOnce /\ LifecycleIsLegal
  BY DEF SoloInv
<1>1. IInv'  BY <1>0, InvariantStep
<1>2. RequestAgrees'
  <2>1. CASE UNCHANGED vars
    BY <1>0, <2>1 DEF vars, RequestAgrees
  <2>2. ASSUME NEW r \in Request, Start(r) \/ Step(r)  PROVE RequestAgrees'
    BY <1>0, <2>2, ReadAgrees, WriteAgrees DEF Step
  <2>3. QED  BY <2>1, <2>2 DEF Next
<1>3. EndedOnce' /\ LeftSince' /\ OneRoomEnded' /\ JoinedOnce' /\ LifecycleIsLegal'
  <2>1. CASE UNCHANGED room
    <3>1. state' = state /\ active' = active /\ events' = events  BY <2>1 DEF room
    <3>2. EndedOnce' /\ OneRoomEnded'  BY <1>0, <3>1 DEF EndedOnce, OneRoomEnded
    <3>3. LeftSince'  BY <1>0, <3>1 DEF LeftSince
    <3>4. JoinedOnce'  BY <1>0, <3>1 DEF JoinedOnce
    <3>5. StateEvents' = StateEvents  BY <3>1 DEF StateEvents
    <3>6. LifecycleIsLegal'  BY <1>0, <3>5 DEF LifecycleIsLegal
    <3>7. QED  BY <3>2, <3>3, <3>4, <3>6
  <2>2. ASSUME NEW r \in Request, NEW u \in User, Create(r, u)
        PROVE  EndedOnce' /\ LeftSince' /\ OneRoomEnded' /\ JoinedOnce' /\ LifecycleIsLegal'
    BY <1>0, <2>2, CreateLog
  <2>3. ASSUME NEW n, Appends(n)
        PROVE  EndedOnce' /\ LeftSince' /\ OneRoomEnded' /\ JoinedOnce' /\ LifecycleIsLegal'
    BY <1>0, <2>3, AppendEndedOnce, AppendJoinedOnce, AppendLegal
  <2>4. CASE UNCHANGED vars  BY <2>1, <2>4 DEF vars, room
  <2>5. ASSUME NEW r \in Request, Start(r) \/ Step(r)
        PROVE  EndedOnce' /\ LeftSince' /\ OneRoomEnded' /\ JoinedOnce' /\ LifecycleIsLegal'
    BY <1>0, <2>1, <2>2, <2>3, <2>5, SoloShapes
  <2>6. QED  BY <2>4, <2>5 DEF Next
<1>4. QED  BY <1>0, <1>1, <1>2, <1>3 DEF SoloInv

\* Used by one request after the other, a room and its only request agree and
\* the log tells a legal story, in every reachable state.
THEOREM SoloInvariant == ASSUME OneByOne PROVE Spec => []SoloInv
<1>1. Init => SoloInv  BY SoloInit
<1>2. SoloInv /\ [Next]_vars => SoloInv'  BY SoloStep
<1>3. QED  BY <1>1, <1>2, PTL DEF Spec

\* Between two requests a live room belongs to somebody who is in it, however
\* its hosts came and went (service.go, Leave and its hand-over).
THEOREM OwnerIsPresent == ASSUME OneByOne PROVE Spec => []HostIsActive
<1>1. SoloInv => HostIsActive
  <2>1. SUFFICES ASSUME SoloInv, Busy = {}, state \notin {NoState, "ENDED"}
                 PROVE  host \in active
    BY DEF HostIsActive
  <2>2. PICK r \in Request : TRUE  BY DEF OneByOne
  <2>3. req[r].pc = "idle"  BY <2>1 DEF Busy
  <2>4. Agrees(req[r], state, host, active, seq)  BY <2>1 DEF SoloInv, RequestAgrees
  <2>5. QED  BY <2>1, <2>3, <2>4 DEF Agrees
<1>2. QED  BY <1>1, SoloInvariant, PTL

\* The end of a room is announced once, whether the host ends it or the last
\* member leaves (service.go, End and Leave).
THEOREM EndIsToldOnce == ASSUME OneByOne PROVE Spec => []OneRoomEnded
<1>1. SoloInv => OneRoomEnded  BY DEF SoloInv
<1>2. QED  BY <1>1, SoloInvariant, PTL

\* Nobody is admitted twice without leaving in between (service.go, JoinByCode).
THEOREM NobodyJoinsTwice == ASSUME OneByOne PROVE Spec => []JoinedOnce
<1>1. SoloInv => JoinedOnce  BY DEF SoloInv
<1>2. QED  BY <1>1, SoloInvariant, PTL

\* The lifecycle the log tells is a path through the table (state.go, Next).
THEOREM LogTellsALifecycle == ASSUME OneByOne PROVE Spec => []LifecycleIsLegal
<1>1. SoloInv => LifecycleIsLegal  BY DEF SoloInv
<1>2. QED  BY <1>1, SoloInvariant, PTL

\* The currentSeq of a response is the number its event was given, also for the
\* second transaction of a host who leaves (service.go, NextSeq).
THEOREM ResponsesAreTrue == ASSUME OneByOne PROVE Spec => []ResponseReportsItsEvent
<1>1. SoloInv => ResponseReportsItsEvent
  BY DEF SoloInv, RequestAgrees, Agrees, ResponseReportsItsEvent
<1>2. QED  BY <1>1, SoloInvariant, PTL

\* Nobody is admitted beyond the cap of the host's tier, for any caps, any
\* tiers and any number of users (state.go, CanJoin).
THEOREM CapIsKept == ASSUME OneByOne PROVE Spec => JoinRespectsCap
<1>1. SoloInv /\ [Next]_vars =>
        [active' \ active # {} /\ state # NoState
           => Cardinality(active') <= MaxParticipants(Tier[host])]_vars
  <2>1. SUFFICES ASSUME SoloInv, [Next]_vars, active' \ active # {}, state # NoState
                 PROVE  Cardinality(active') <= MaxParticipants(Tier[host])
    OBVIOUS
  <2>2. PICK r \in Request : Start(r) \/ Step(r)
    BY <2>1 DEF Next, vars
  <2>3. PICK n : Appends(n)
    <3>1. ~UNCHANGED room  BY <2>1 DEF room
    <3>2. \A u \in User : ~Create(r, u)  BY <2>1 DEF Create
    <3>3. QED  BY <2>1, <2>2, <3>1, <3>2, SoloShapes DEF SoloInv
  <2>4. /\ n.user \notin active /\ active' = active \cup {n.user}
        /\ Cardinality(active) < MaxParticipants(Tier[host])
    BY <2>1, <2>3 DEF Appends, Tells
  <2>5. IsFiniteSet(active)
    BY <2>1, RoomsAssumption, FS_Subset DEF SoloInv, IInv, TypeOK
  <2>6. Cardinality(active') = Cardinality(active) + 1 /\ Cardinality(active) \in Nat
    BY <2>4, <2>5, FS_AddElement, FS_CardinalityType
  <2>7. MaxParticipants(Tier[host]) \in Nat  BY CapIsNat
  <2>8. QED  BY <2>4, <2>6, <2>7
<1>2. QED  BY <1>1, SoloInvariant, PTL DEF Spec, JoinRespectsCap

-----------------------------------------------------------------------------
(* The test double beside Postgres.                                        *)

Person == [user : User, isHost : BOOLEAN, connected : BOOLEAN]
DoubleRow == [state : StateOrNone, host : UserOrNone, seq : Nat]

Connected(parts) == { i \in DOMAIN parts : parts[i].connected }

\* The connected rows are the members, one row each, and the host's says so.
Stands(parts, members, h) ==
  /\ \A i \in Connected(parts) : /\ parts[i].user \in members
                                 /\ parts[i].isHost <=> parts[i].user = h
  /\ \A i, j \in Connected(parts) : parts[i].user = parts[j].user => i = j
  /\ \A u \in members : \E i \in Connected(parts) : parts[i].user = u

\* The double's events are the log, each at the index of its number.
SameLog ==
  /\ dEvents \in Seq(Envelope) /\ Len(dEvents) = seq
  /\ \A i \in 1..seq : dEvents[i].seq = i
  /\ { dEvents[i] : i \in 1..seq } = events

SameRow == dRow \in DoubleRow /\ dRow.state = state /\ dRow.host = host /\ dRow.seq = seq

Same ==
  /\ SameRow /\ SameLog
  /\ dParticipants \in Seq(Person)
  /\ state # "ENDED" => Stands(dParticipants, active, host)

DoubleInv == ~apart => Same

\* With the double at its side the service does nothing that it does not do alone.
LEMMA DoubleStepIsAStep ==
  ASSUME [DoubleNext]_<<vars, double>>
  PROVE  [Next]_vars
<1>1. CASE UNCHANGED <<vars, double>>
  BY <1>1
<1>2. ASSUME NEW r \in Request, Writes(r) \/ Step(r) \/ Reads(r)
      PROVE  Start(r) \/ Step(r)
  BY <1>2 DEF Writes, Reads, Start, Step
<1>3. CASE DoubleNext
  BY <1>2, <1>3 DEF DoubleNext, Next
<1>. QED  BY <1>1, <1>3

\* DoubleSpec adds the double to Spec and takes nothing from it.
THEOREM DoubleUsesTheService == DoubleSpec => Spec
<1>1. Init /\ DoubleInit => Init
  OBVIOUS
<1>. QED  BY <1>1, DoubleStepIsAStep, PTL DEF DoubleSpec, Spec

-----------------------------------------------------------------------------
(* The rows of the participants, write by write.                           *)

LEMMA ConnectedRows ==
  ASSUME NEW parts \in Seq(Person)
  PROVE  \A i \in DOMAIN parts : parts[i] \in Person
OBVIOUS

LEMMA ParticipantRow ==
  ASSUME NEW u \in User
  PROVE  /\ Participant(u, TRUE) \in Person /\ Participant(u, FALSE) \in Person
         /\ Participant(u, TRUE).user = u /\ Participant(u, FALSE).user = u
         /\ Participant(u, TRUE).isHost = TRUE /\ Participant(u, FALSE).isHost = FALSE
         /\ Participant(u, TRUE).connected = TRUE /\ Participant(u, FALSE).connected = TRUE
BY DEF Participant, Person

LEMMA StandsCreated ==
  ASSUME NEW u \in User
  PROVE  /\ << Participant(u, TRUE) >> \in Seq(Person)
         /\ Stands(<< Participant(u, TRUE) >>, {u}, u)
<1>. DEFINE p == Participant(u, TRUE)
<1>1. p \in Person /\ p.user = u /\ p.isHost = TRUE /\ p.connected = TRUE
  BY ParticipantRow
<1>. HIDE DEF p
<1>2. << p >> \in Seq(Person) /\ DOMAIN << p >> = {1} /\ << p >>[1] = p
  BY <1>1
<1>3. Connected(<< p >>) = {1}
  BY <1>1, <1>2 DEF Connected
<1>4. Stands(<< p >>, {u}, u)
  BY <1>1, <1>2, <1>3 DEF Stands
<1>. QED  BY <1>2, <1>4 DEF p

LEMMA StandsJoined ==
  ASSUME NEW parts \in Seq(Person), NEW members, NEW h, NEW u \in User,
         Stands(parts, members, h), u \notin members, u # h
  PROVE  /\ Append(parts, Participant(u, FALSE)) \in Seq(Person)
         /\ Stands(Append(parts, Participant(u, FALSE)), members \cup {u}, h)
<1>. DEFINE p == Participant(u, FALSE)
            n == Len(parts)
            new == Append(parts, p)
<1>1. p \in Person /\ p.user = u /\ p.isHost = FALSE /\ p.connected = TRUE
  BY ParticipantRow
<1>. HIDE DEF p
<1>2. /\ new \in Seq(Person) /\ n \in Nat /\ DOMAIN parts = 1..n /\ DOMAIN new = 1..(n + 1)
      /\ new[n + 1] = p /\ \A i \in 1..n : new[i] = parts[i]
  BY <1>1
<1>. HIDE DEF n, new
<1>3. Connected(new) = Connected(parts) \cup {n + 1}
  <2>1. 1..(n + 1) = 1..n \cup {n + 1}
    BY <1>2
  <2>. QED  BY <1>1, <1>2, <2>1 DEF Connected
<1>4. \A i \in Connected(parts) : i \in 1..n /\ i # n + 1 /\ new[i] = parts[i]
  BY <1>2 DEF Connected
<1>5. Stands(new, members \cup {u}, h)
  <2>1. \A i \in Connected(new) : new[i].user \in members \cup {u}
    BY <1>1, <1>2, <1>3, <1>4 DEF Stands
  <2>2. \A i \in Connected(new) : new[i].isHost <=> new[i].user = h
    BY <1>1, <1>2, <1>3, <1>4 DEF Stands
  <2>3. \A i, j \in Connected(new) : new[i].user = new[j].user => i = j
    BY <1>1, <1>2, <1>3, <1>4 DEF Stands
  <2>4. \A v \in members \cup {u} : \E i \in Connected(new) : new[i].user = v
    BY <1>1, <1>2, <1>3, <1>4 DEF Stands
  <2>. QED  BY <2>1, <2>2, <2>3, <2>4 DEF Stands
<1>. QED  BY <1>2, <1>5 DEF new, p

GoneFrom(parts, u) ==
  [i \in DOMAIN parts |->
     IF parts[i].user = u THEN [parts[i] EXCEPT !.connected = FALSE] ELSE parts[i]]

\* Who left and came back has several rows, of which at most one was connected.
LEMMA StandsLeft ==
  ASSUME NEW parts \in Seq(Person), NEW members, NEW h, NEW u, Stands(parts, members, h)
  PROVE  GoneFrom(parts, u) \in Seq(Person) /\ Stands(GoneFrom(parts, u), members \ {u}, h)
<1>. DEFINE Stamp(p) == IF p.user = u THEN [p EXCEPT !.connected = FALSE] ELSE p
            new == [i \in DOMAIN parts |-> Stamp(parts[i])]
<1>1. ASSUME NEW p \in Person
      PROVE  /\ Stamp(p) \in Person /\ Stamp(p).user = p.user /\ Stamp(p).isHost = p.isHost
             /\ Stamp(p).connected <=> p.connected /\ p.user # u
  BY <1>1 DEF Person
<1>2. \A i \in DOMAIN parts : parts[i] \in Person
  BY ConnectedRows
<1>. HIDE DEF Stamp
<1>3. new \in Seq(Person) /\ DOMAIN new = DOMAIN parts
  <2>1. Len(parts) \in Nat /\ DOMAIN parts = 1..Len(parts)
    OBVIOUS
  <2>2. new \in [1..Len(parts) -> Person]
    BY <1>1, <1>2, <2>1
  <2>. QED  BY <2>1, <2>2
<1>4. \A i \in DOMAIN parts : /\ new[i].user = parts[i].user /\ new[i].isHost = parts[i].isHost
                              /\ new[i].connected <=> parts[i].connected /\ parts[i].user # u
  BY <1>1, <1>2
<1>. HIDE DEF new
<1>5. Connected(new) = { i \in Connected(parts) : parts[i].user # u }
  BY <1>3, <1>4 DEF Connected
<1>6. \A i \in Connected(new) :
        i \in Connected(parts) /\ new[i].user = parts[i].user /\ new[i].isHost = parts[i].isHost
  BY <1>3, <1>4, <1>5 DEF Connected
<1>7. Stands(new, members \ {u}, h)
  BY <1>5, <1>6 DEF Stands
<1>. QED  BY <1>3, <1>7 DEF new, Stamp, GoneFrom

HandedOver(parts, s) ==
  [i \in DOMAIN parts |-> [parts[i] EXCEPT !.isHost = parts[i].user = s]]

LEMMA StandsHandedOver ==
  ASSUME NEW parts \in Seq(Person), NEW members, NEW h, NEW s, Stands(parts, members, h)
  PROVE  HandedOver(parts, s) \in Seq(Person) /\ Stands(HandedOver(parts, s), members, s)
<1>. DEFINE Stamp(p) == [p EXCEPT !.isHost = p.user = s]
            new == [i \in DOMAIN parts |-> Stamp(parts[i])]
<1>1. ASSUME NEW p \in Person
      PROVE  /\ Stamp(p) \in Person /\ Stamp(p).user = p.user
             /\ Stamp(p).isHost <=> p.user = s
             /\ Stamp(p).connected = p.connected
  BY <1>1 DEF Person
<1>2. \A i \in DOMAIN parts : parts[i] \in Person
  BY ConnectedRows
<1>. HIDE DEF Stamp
<1>3. new \in Seq(Person) /\ DOMAIN new = DOMAIN parts
  <2>1. Len(parts) \in Nat /\ DOMAIN parts = 1..Len(parts)
    OBVIOUS
  <2>2. new \in [1..Len(parts) -> Person]
    BY <1>1, <1>2, <2>1
  <2>. QED  BY <2>1, <2>2
<1>4. \A i \in DOMAIN parts : /\ new[i].user = parts[i].user /\ new[i].connected = parts[i].connected
                              /\ new[i].isHost <=> parts[i].user = s
  BY <1>1, <1>2
<1>. HIDE DEF new
<1>5. Connected(new) = Connected(parts)
  BY <1>3, <1>4 DEF Connected
<1>6. \A i \in Connected(new) : new[i].user = parts[i].user /\ (new[i].isHost <=> parts[i].user = s)
  BY <1>3, <1>4, <1>5 DEF Connected
<1>7. Stands(new, members, s)
  BY <1>5, <1>6 DEF Stands
<1>. QED  BY <1>3, <1>7 DEF new, Stamp, HandedOver

-----------------------------------------------------------------------------
(* The writes, side by side.                                               *)

\* The event that both append.
LEMMA AppendSame ==
  ASSUME TypeOK, SameLog, NEW row \in DoubleRow,
         NEW type \in EventType, NEW user \in UserOrNone,
         NEW from \in StateOrNone, NEW to \in StateOrNone,
         InsertEvent(type, user, from, to),
         appendLocked(row, type, user, from, to, seq + 1)
  PROVE  /\ SameLog'
         /\ dRow' \in DoubleRow /\ dRow'.state = row.state /\ dRow'.host = row.host
         /\ dRow'.seq = seq'
<1>. DEFINE e == [seq |-> seq + 1, type |-> type, user |-> user, from |-> from, to |-> to]
            n == Len(dEvents)
<1>1. seq \in Nat /\ seq + 1 \in Nat /\ n = seq /\ dEvents \in Seq(Envelope)
  BY DEF TypeOK, SameLog
<1>2. /\ seq' = seq + 1 /\ events' = events \cup {e}
      /\ dEvents' = Append(dEvents, e) /\ dRow' = [row EXCEPT !.seq = seq + 1]
  BY <1>1 DEF InsertEvent, appendLocked
<1>3. e \in Envelope /\ e.seq = seq + 1
  BY <1>1 DEF Envelope
<1>. HIDE DEF e
<1>4. /\ dEvents' \in Seq(Envelope) /\ Len(dEvents') = seq + 1 /\ dEvents'[seq + 1] = e
      /\ \A i \in 1..seq : dEvents'[i] = dEvents[i]
  BY <1>1, <1>2, <1>3
<1>5. 1..(seq + 1) = 1..seq \cup {seq + 1}
  BY <1>1
<1>6. \A i \in 1..(seq + 1) : dEvents'[i].seq = i
  BY <1>3, <1>4, <1>5 DEF SameLog
<1>7. { dEvents'[i] : i \in 1..(seq + 1) } = { dEvents[i] : i \in 1..seq } \cup {e}
  BY <1>4, <1>5
<1>8. SameLog'
  BY <1>2, <1>4, <1>6, <1>7 DEF SameLog
<1>9. dRow' \in DoubleRow /\ dRow'.state = row.state /\ dRow'.host = row.host /\ dRow'.seq = seq'
  BY <1>1, <1>2 DEF DoubleRow
<1>. QED  BY <1>8, <1>9

LEMMA CreateSame ==
  ASSUME IInv, Same, NEW r \in Request, NEW u \in User, Create(r, u), dCreateRoom(u)
  PROVE  Same'
<1>. DEFINE row == [dRow EXCEPT !.state = "LOBBY", !.host = u]
<1>1. TypeOK /\ state = NoState /\ seq = 0
  BY DEF IInv, Create, NothingBeforeCreate
<1>2. row \in DoubleRow /\ row.state = "LOBBY" /\ row.host = u
  BY DEF Same, SameRow, DoubleRow, StateOrNone, RoomState, UserOrNone
<1>3. /\ InsertEvent("ROOM_STATE_CHANGED", u, NoState, "LOBBY")
      /\ appendLocked(row, "ROOM_STATE_CHANGED", u, NoState, "LOBBY", seq + 1)
  BY <1>1 DEF Create, dCreateRoom
<1>4. /\ "ROOM_STATE_CHANGED" \in EventType /\ u \in UserOrNone
      /\ NoState \in StateOrNone /\ "LOBBY" \in StateOrNone
  BY DEF EventType, UserOrNone, StateOrNone, RoomState
<1>. HIDE DEF row
<1>5. SameLog' /\ dRow' \in DoubleRow /\ dRow'.state = "LOBBY" /\ dRow'.host = u /\ dRow'.seq = seq'
  BY <1>1, <1>2, <1>3, <1>4, AppendSame DEF Same
<1>6. /\ dParticipants' = << Participant(u, TRUE) >> /\ active' = {u} /\ host' = u
      /\ state' = "LOBBY"
  BY DEF Create, dCreateRoom
<1>7. dParticipants' \in Seq(Person) /\ Stands(dParticipants', active', host')
  BY <1>6, StandsCreated
<1>. QED  BY <1>5, <1>6, <1>7 DEF Same, SameRow

LEMMA JoinSame ==
  ASSUME IInv, RequestAgrees, EndedOnce, Same, NEW r \in Request,
         AddParticipant(r), dAddParticipant(req[r])
  PROVE  Same'
<1>. DEFINE u == req[r].user
<1>1. /\ TypeOK /\ req[r].pc = "commit" /\ req[r].op = "join" /\ req[r].hint = seq + 1
      /\ state # "ENDED" /\ host \in active /\ u \notin active /\ u \in User
  BY AtCommit DEF AddParticipant, IInv, InFlight
<1>. HIDE DEF u
<1>2. dRow \in DoubleRow /\ dRow.state = state /\ dRow.host = host
  BY DEF Same, SameRow
<1>3. /\ InsertEvent("PARTICIPANT_JOINED", u, NoState, NoState)
      /\ appendLocked(dRow, "PARTICIPANT_JOINED", u, NoState, NoState, seq + 1)
  BY <1>1 DEF AddParticipant, dAddParticipant, u
<1>4. "PARTICIPANT_JOINED" \in EventType /\ u \in UserOrNone /\ NoState \in StateOrNone
  BY <1>1 DEF EventType, UserOrNone, StateOrNone
<1>5. SameLog' /\ dRow' \in DoubleRow /\ dRow'.state = state /\ dRow'.host = host /\ dRow'.seq = seq'
  BY <1>1, <1>2, <1>3, <1>4, AppendSame DEF Same
<1>6. /\ dParticipants' = Append(dParticipants, Participant(u, FALSE))
      /\ active' = active \cup {u} /\ host' = host /\ state' = state
  BY DEF AddParticipant, dAddParticipant, u
<1>7. dParticipants \in Seq(Person) /\ Stands(dParticipants, active, host)
  BY <1>1 DEF Same
<1>8. dParticipants' \in Seq(Person) /\ Stands(dParticipants', active', host')
  BY <1>1, <1>6, <1>7, StandsJoined
<1>. QED  BY <1>5, <1>6, <1>8 DEF Same, SameRow

LEMMA LeaveSame ==
  ASSUME IInv, RequestAgrees, EndedOnce, Same, NEW r \in Request,
         RemoveParticipant(r), dRemoveParticipant(req[r])
  PROVE  Same'
<1>. DEFINE u == req[r].user
<1>1. /\ TypeOK /\ req[r].pc = "commit" /\ req[r].op = "leave" /\ req[r].hint = seq + 1
      /\ state # "ENDED" /\ u \in User
  BY AtCommit DEF RemoveParticipant, IInv, InFlight
<1>. HIDE DEF u
<1>2. dRow \in DoubleRow /\ dRow.state = state /\ dRow.host = host
  BY DEF Same, SameRow
<1>3. /\ InsertEvent("PARTICIPANT_LEFT", u, NoState, NoState)
      /\ appendLocked(dRow, "PARTICIPANT_LEFT", u, NoState, NoState, seq + 1)
  BY <1>1 DEF RemoveParticipant, dRemoveParticipant, u
<1>4. "PARTICIPANT_LEFT" \in EventType /\ u \in UserOrNone /\ NoState \in StateOrNone
  BY <1>1 DEF EventType, UserOrNone, StateOrNone
<1>5. SameLog' /\ dRow' \in DoubleRow /\ dRow'.state = state /\ dRow'.host = host /\ dRow'.seq = seq'
  BY <1>1, <1>2, <1>3, <1>4, AppendSame DEF Same
<1>6. /\ dParticipants' = GoneFrom(dParticipants, u)
      /\ active' = active \ {u} /\ host' = host /\ state' = state
  BY DEF RemoveParticipant, dRemoveParticipant, u, GoneFrom
<1>7. dParticipants \in Seq(Person) /\ Stands(dParticipants, active, host)
  BY <1>1 DEF Same
<1>8. dParticipants' \in Seq(Person) /\ Stands(dParticipants', active', host')
  BY <1>6, <1>7, StandsLeft
<1>. QED  BY <1>5, <1>6, <1>8 DEF Same, SameRow

LEMMA TransferSame ==
  ASSUME IInv, RequestAgrees, EndedOnce, Same, NEW r \in Request,
         TransferHost(r), dTransferHost(req[r])
  PROVE  Same'
<1>. DEFINE s == req[r].successor
            row == [dRow EXCEPT !.host = s]
<1>1. /\ TypeOK /\ req[r].pc = "commit" /\ req[r].op = "transfer" /\ req[r].hint = seq + 1
      /\ state # "ENDED" /\ s \in User
  BY AtCommit DEF TransferHost, IInv, InFlight
<1>. HIDE DEF s
<1>2. row \in DoubleRow /\ row.state = state /\ row.host = s
  BY <1>1 DEF Same, SameRow, DoubleRow, UserOrNone
<1>3. /\ InsertEvent("HOST_CHANGED", s, NoState, NoState)
      /\ appendLocked(row, "HOST_CHANGED", s, NoState, NoState, seq + 1)
  BY <1>1 DEF TransferHost, dTransferHost, s
<1>. HIDE DEF row
<1>4. "HOST_CHANGED" \in EventType /\ s \in UserOrNone /\ NoState \in StateOrNone
  BY <1>1 DEF EventType, UserOrNone, StateOrNone
<1>5. SameLog' /\ dRow' \in DoubleRow /\ dRow'.state = state /\ dRow'.host = s /\ dRow'.seq = seq'
  BY <1>1, <1>2, <1>3, <1>4, AppendSame DEF Same
<1>6. /\ dParticipants' = HandedOver(dParticipants, s)
      /\ active' = active /\ host' = s /\ state' = state
  BY DEF TransferHost, dTransferHost, s, HandedOver
<1>7. dParticipants \in Seq(Person) /\ Stands(dParticipants, active, host)
  BY <1>1 DEF Same
<1>8. dParticipants' \in Seq(Person) /\ Stands(dParticipants', active', host')
  BY <1>6, <1>7, StandsHandedOver
<1>. QED  BY <1>5, <1>6, <1>8 DEF Same, SameRow

LEMMA EndSame ==
  ASSUME IInv, RequestAgrees, EndedOnce, Same, NEW r \in Request,
         EndRoom(r), dEndRoom(req[r])
  PROVE  Same'
<1>. DEFINE was == req[r].room_state
            row == [dRow EXCEPT !.state = "ENDED"]
<1>1. TypeOK /\ req[r].pc = "commit" /\ req[r].hint = seq + 1 /\ was \in StateOrNone
  BY AtCommit, LocalFields DEF EndRoom, IInv
<1>. HIDE DEF was
<1>2. row \in DoubleRow /\ row.state = "ENDED" /\ row.host = host
  BY <1>1 DEF Same, SameRow, DoubleRow, StateOrNone, RoomState
<1>3. /\ InsertEvent("ROOM_ENDED", NoUser, was, "ENDED")
      /\ appendLocked(row, "ROOM_ENDED", NoUser, was, "ENDED", seq + 1)
  BY <1>1 DEF EndRoom, dEndRoom, was
<1>. HIDE DEF row
<1>4. "ROOM_ENDED" \in EventType /\ NoUser \in UserOrNone /\ "ENDED" \in StateOrNone
  BY DEF EventType, UserOrNone, StateOrNone, RoomState
<1>5. SameLog' /\ dRow' \in DoubleRow /\ dRow'.state = "ENDED" /\ dRow'.host = host /\ dRow'.seq = seq'
  BY <1>1, <1>2, <1>3, <1>4, AppendSame DEF Same
<1>6. dParticipants' = dParticipants /\ host' = host /\ state' = "ENDED"
  BY DEF EndRoom, dEndRoom
<1>. QED  BY <1>5, <1>6 DEF Same, SameRow

\* A state that the constraints refuse is written by the double alone: it stands
\* apart from then on.
LEMMA SetStateSame ==
  ASSUME IInv, RequestAgrees, EndedOnce, Same, NEW r \in Request,
         SetState(r), dSetState(req[r]), state' = dRow'.state
  PROVE  Same'
<1>. DEFINE q == req[r]
            row == [dRow EXCEPT !.state = q.to]
<1>1. /\ TypeOK /\ q.pc = "commit" /\ q.hint = seq + 1 /\ state # "ENDED"
      /\ q.room_state \in StateOrNone /\ q.to \in StateOrNone /\ q.user \in UserOrNone
  BY AtCommit, LocalFields DEF SetState, IInv
<1>. HIDE DEF q
<1>2. row \in DoubleRow /\ row.state = q.to /\ row.host = host
  BY <1>1 DEF Same, SameRow, DoubleRow
<1>3. appendLocked(row, "ROOM_STATE_CHANGED", q.user, q.room_state, q.to, seq + 1)
      /\ dParticipants' = dParticipants /\ host' = host /\ active' = active
  BY <1>1 DEF SetState, dSetState, q
<1>. HIDE DEF row
<1>4. state' = q.to
  <2>1. dRow' = row \/ dRow' = [row EXCEPT !.seq = seq + 1]
    BY <1>3 DEF appendLocked
  <2>2. dRow'.state = q.to
    BY <1>2, <2>1 DEF DoubleRow
  <2>. QED  BY <2>2
<1>5. InsertEvent("ROOM_STATE_CHANGED", q.user, q.room_state, q.to)
  <2>1. ChecksAccept(state, endedAt)
    BY DEF IInv, ChecksHold
  <2>2. CASE ~ChecksAccept(q.to, endedAt)
    <3>1. state' = state
      BY <2>2 DEF SetState, q
    <3>. QED  BY <1>4, <2>1, <2>2, <3>1
  <2>3. CASE ChecksAccept(q.to, endedAt)
    BY <2>3 DEF SetState, q
  <2>. QED  BY <2>2, <2>3
<1>6. "ROOM_STATE_CHANGED" \in EventType
  BY DEF EventType
<1>7. SameLog' /\ dRow' \in DoubleRow /\ dRow'.state = q.to /\ dRow'.host = host /\ dRow'.seq = seq'
  BY <1>1, <1>2, <1>3, <1>5, <1>6, AppendSame DEF Same
<1>. QED  BY <1>1, <1>3, <1>4, <1>7 DEF Same, SameRow

LEMMA DoubleInvKept ==
  ASSUME SoloInv, DoubleInv, [DoubleNext]_<<vars, double>>
  PROVE  DoubleInv'
<1>0. IInv /\ RequestAgrees /\ EndedOnce
  BY DEF SoloInv
<1>1. ASSUME UNCHANGED room, UNCHANGED double PROVE DoubleInv'
  BY <1>1 DEF room, double, DoubleInv, Same, SameRow, SameLog
<1>2. CASE UNCHANGED <<vars, double>>
  BY <1>1, <1>2 DEF vars, room
<1>3. ASSUME NEW r \in Request, Reads(r), UNCHANGED double PROVE DoubleInv'
  <2>1. UNCHANGED room
    BY <1>3 DEF Reads, ReadParticipants, NextSeq, Publish, BeginJoin, BeginLeave, BeginEnd, BeginTransition
  <2>. QED  BY <1>1, <1>3, <2>1
<1>4. ASSUME apart, UNCHANGED double PROVE DoubleInv'
  BY <1>4 DEF double, DoubleInv
<1>5. ASSUME NEW r \in Request, ~apart, Writes(r), apart' = (state' # dRow'.state)
      PROVE  DoubleInv'
  <2>1. Same
    BY <1>5 DEF DoubleInv
  <2>2. SUFFICES ASSUME state' = dRow'.state PROVE Same'
    BY <1>5 DEF DoubleInv
  <2>. QED  BY <1>0, <1>5, <2>1, <2>2, CreateSame, JoinSame, LeaveSame, TransferSame, EndSame,
               SetStateSame DEF Writes
<1>. QED  BY <1>2, <1>3, <1>4, <1>5 DEF DoubleNext

\* Used by one request after the other, the double stays the same room as the rows of
\* Postgres, until it does what they refuse.
THEOREM DoubleInvariant == ASSUME OneByOne PROVE DoubleSpec => []DoubleInv
<1>1. Init /\ DoubleInit => DoubleInv
  <2>1. ASSUME Init, DoubleInit PROVE Same
    <3>1. /\ seq = 0 /\ events = {} /\ active = {} /\ state = NoState /\ host = NoUser
          /\ dEvents = << >> /\ dParticipants = << >>
          /\ dRow = [state |-> NoState, host |-> NoUser, seq |-> 0]
      BY <2>1 DEF Init, DoubleInit
    <3>2. SameRow
      BY <3>1 DEF SameRow, DoubleRow, StateOrNone, UserOrNone
    <3>3. dEvents \in Seq(Envelope) /\ Len(dEvents) = 0 /\ 1..0 = {}
      BY <3>1
    <3>4. SameLog
      BY <3>1, <3>3 DEF SameLog
    <3>5. dParticipants \in Seq(Person) /\ Connected(dParticipants) = {}
      BY <3>1 DEF Connected
    <3>6. Stands(dParticipants, active, host)
      BY <3>1, <3>5 DEF Stands
    <3>. QED  BY <3>2, <3>4, <3>5, <3>6 DEF Same
  <2>. QED  BY <2>1 DEF DoubleInv
<1>2. SoloInv /\ DoubleInv /\ [DoubleNext]_<<vars, double>> => DoubleInv'
  BY DoubleInvKept
<1>. QED  BY <1>1, <1>2, SoloInvariant, DoubleUsesTheService, PTL DEF DoubleSpec

\* Up to the first START, whatever the readers of the double answer, to the service
\* and to the socket, is what Postgres would answer: the row, the next number, every
\* stretch of the log, whom the code resolves for, the members and their roles.
THEOREM DoubleAnswersAsPostgres == ASSUME OneByOne PROVE DoubleSpec => []DoubleAnswersAlike
<1>1. ASSUME IInv, DoubleInv PROVE DoubleAnswersAlike
  <2>1. SUFFICES ASSUME ~apart
                 PROVE  /\ dRow.state = state /\ dRow.host = host /\ dRow.seq = seq
                        /\ state # NoState => dNextSeq = seq + 1 /\ dOldestRetainedSeq = 1
                        /\ \A from, to \in 0..seq :
                             LET found == dEventsSince(from, to) IN
                               /\ { dEvents[i] : i \in found } = LogSince(from, to)
                               /\ \A i, j \in found : i < j => dEvents[i].seq < dEvents[j].seq
                        /\ dResolves <=> state \notin {NoState, "ENDED"}
                        /\ \A u \in User : dMembership(u) <=> dResolves /\ (u = host \/ u \in active)
                        /\ state # "ENDED" =>
                             /\ Cardinality(dActive) = Cardinality(active)
                             /\ dSnapshot.participants = { <<u, u \in hostRole>> : u \in active }
    BY DEF DoubleAnswersAlike
  <2>2. /\ Same /\ SameRow /\ SameLog /\ dParticipants \in Seq(Person)
        /\ seq \in Nat /\ active \in SUBSET User
    BY <1>1, <2>1 DEF DoubleInv, Same, IInv, TypeOK
  <2>3. DOMAIN dEvents = 1..seq /\ \A i \in 1..seq : dEvents[i].seq = i
    BY <2>2 DEF SameLog
  <2>4. dRow.state = state /\ dRow.host = host /\ dRow.seq = seq
    BY <2>2 DEF SameRow
  <2>5. dNextSeq = seq + 1
    BY <2>2 DEF dNextSeq, SameLog
  <2>6. dOldestRetainedSeq = 1
    <3>1. CASE dEvents = << >>
      BY <3>1 DEF dOldestRetainedSeq
    <3>2. CASE dEvents # << >>
      <4>1. 1 \in 1..seq
        BY <2>2, <3>2 DEF SameLog
      <4>. QED  BY <2>3, <3>2, <4>1 DEF dOldestRetainedSeq
    <3>. QED  BY <3>1, <3>2
  <2>7. ASSUME NEW from \in 0..seq, NEW to \in 0..seq
        PROVE  /\ { dEvents[i] : i \in dEventsSince(from, to) } = LogSince(from, to)
               /\ \A i, j \in dEventsSince(from, to) : i < j => dEvents[i].seq < dEvents[j].seq
    <3>1. dEventsSince(from, to) = { i \in 1..seq : dEvents[i].seq > from /\ dEvents[i].seq <= to }
      BY <2>3 DEF dEventsSince
    <3>2. events = { dEvents[i] : i \in 1..seq }
      BY <2>2 DEF SameLog
    <3>3. { dEvents[i] : i \in dEventsSince(from, to) } = LogSince(from, to)
      BY <3>1, <3>2 DEF LogSince
    <3>. QED  BY <2>3, <3>1, <3>3
  <2>8. dResolves <=> state \notin {NoState, "ENDED"}
    BY <2>4 DEF dResolves
  <2>9. dActive = Connected(dParticipants)
    BY DEF dActive, Connected
  <2>10. ASSUME NEW u \in User
         PROVE  dMembership(u) <=> dResolves /\ (u = host \/ u \in active)
    <3>1. CASE ~dResolves
      BY <3>1 DEF dMembership
    <3>2. CASE dResolves
      <4>1. Stands(dParticipants, active, host)
        BY <2>2, <2>8, <3>2 DEF Same
      <4>. QED  BY <2>4, <2>9, <3>2, <4>1 DEF dMembership, Stands
    <3>. QED  BY <3>1, <3>2
  <2>11. ASSUME state # "ENDED"
         PROVE  Cardinality(dActive) = Cardinality(active)
    <3>1. Stands(dParticipants, active, host)
      BY <2>2, <2>11 DEF Same
    <3>. DEFINE f == [i \in dActive |-> dParticipants[i].user]
    <3>2. f \in Bijection(dActive, active)
      <4>1. f \in [dActive -> active]
        BY <2>9, <3>1 DEF Stands
      <4>2. \A i, j \in dActive : f[i] = f[j] => i = j
        BY <2>9, <3>1 DEF Stands
      <4>3. \A u \in active : \E i \in dActive : f[i] = u
        BY <2>9, <3>1 DEF Stands
      <4>. HIDE DEF f
      <4>. QED  BY <4>1, <4>2, <4>3 DEF Bijection, Injection, Surjection, IsInjective
    <3>3. IsFiniteSet(dActive)
      <4>1. DOMAIN dParticipants = 1..Len(dParticipants) /\ Len(dParticipants) \in Int /\ 1 \in Int
        BY <2>2
      <4>2. IsFiniteSet(1..Len(dParticipants))
        BY <4>1, FS_Interval
      <4>3. dActive \in SUBSET (1..Len(dParticipants))
        BY <4>1 DEF dActive
      <4>. QED  BY <4>2, <4>3, FS_Subset
    <3>4. ExistsBijection(dActive, active)
      BY <3>2 DEF ExistsBijection
    <3>. QED  BY <3>3, <3>4, FS_Bijection
  <2>12. ASSUME state # "ENDED"
         PROVE  dSnapshot.participants = { <<u, u \in hostRole>> : u \in active }
    <3>1. Stands(dParticipants, active, host)
      BY <2>2, <2>12 DEF Same
    <3>2. \A u \in active : u \in hostRole <=> u = host
      BY <1>1, <2>2 DEF IInv, RolesAgree, NothingBeforeCreate
    <3>3. \A i \in dActive : dParticipants[i].isHost \in BOOLEAN
      BY <2>2, ConnectedRows DEF dActive, Person
    <3>4. \A i \in dActive : /\ dParticipants[i].user \in active
                             /\ dParticipants[i].isHost = (dParticipants[i].user \in hostRole)
      BY <2>9, <3>1, <3>2, <3>3 DEF Stands
    <3>5. \A u \in active : \E i \in dActive : dParticipants[i].user = u
      BY <2>9, <3>1 DEF Stands
    <3>6. dSnapshot.participants = { <<dParticipants[i].user, dParticipants[i].isHost>> : i \in dActive }
      BY DEF dSnapshot
    <3>7. ASSUME NEW i \in dActive
          PROVE  <<dParticipants[i].user, dParticipants[i].isHost>> \in { <<u, u \in hostRole>> : u \in active }
      BY <3>4
    <3>8. ASSUME NEW u \in active
          PROVE  <<u, u \in hostRole>> \in { <<dParticipants[i].user, dParticipants[i].isHost>> : i \in dActive }
      <4>1. PICK i \in dActive : dParticipants[i].user = u
        BY <3>5
      <4>2. <<u, u \in hostRole>> = <<dParticipants[i].user, dParticipants[i].isHost>>
        BY <3>4, <4>1
      <4>. QED  BY <4>2
    <3>. QED  BY <3>6, <3>7, <3>8
  <2>. QED  BY <2>4, <2>5, <2>6, <2>7, <2>8, <2>10, <2>11, <2>12
<1>. QED  BY <1>1, Invariant, DoubleInvariant, DoubleUsesTheService, PTL
=============================================================================
