----------------------------- MODULE RoomsDouble -----------------------------
(***************************************************************************)
(* roomstest.Store, the in-memory repository that the unit tests of the    *)
(* service and of the handlers run on, beside the Postgres repository:     *)
(* the service calls both with the same arguments, one request at a time,  *)
(* until the double answers a call otherwise than Postgres does.           *)
(***************************************************************************)
EXTENDS Rooms

VARIABLES
  dRow,          \* s.rooms of the one room: its state, host and CurrentSeq
  dParticipants, \* s.participants: a row for every time somebody joined
  dEvents,       \* s.events
  apart          \* history: the double did what Postgres refused

double == <<dRow, dParticipants, dEvents, apart>>

DoubleInit ==
  /\ dRow = [state |-> NoState, host |-> NoUser, seq |-> 0]
  /\ dParticipants = << >>
  /\ dEvents = << >>
  /\ apart = FALSE

-----------------------------------------------------------------------------
(* The writes.                                                             *)

\* appendLocked: the event keeps the number that the service gave it. One that
\* leaves a gap panics, when the rows have been changed.
appendLocked(row, type, user, from, to, given) ==
  IF given = Len(dEvents) + 1
  THEN /\ dEvents' = Append(dEvents, [seq |-> given, type |-> type, user |-> user,
                                      from |-> from, to |-> to])
       /\ dRow' = [row EXCEPT !.seq = given]
  ELSE dRow' = row /\ UNCHANGED dEvents

Participant(u, isHost) == [user |-> u, isHost |-> isHost, connected |-> TRUE]

dCreateRoom(u) ==
  /\ dParticipants' = << Participant(u, TRUE) >>
  /\ appendLocked([dRow EXCEPT !.state = "LOBBY", !.host = u],
                  "ROOM_STATE_CHANGED", u, NoState, "LOBBY", 1)

dAddParticipant(q) ==
  /\ dParticipants' = Append(dParticipants, Participant(q.user, FALSE))
  /\ appendLocked(dRow, "PARTICIPANT_JOINED", q.user, NoState, NoState, q.hint)

\* Mutant: only the first row of the user is stamped.
dRemoveParticipant_First(q) ==
  LET rows == { i \in DOMAIN dParticipants : dParticipants[i].user = q.user }
      i == CHOOSE i \in rows : \A j \in rows : i <= j
  IN
  /\ dParticipants' = [dParticipants EXCEPT ![i].connected = FALSE]
  /\ appendLocked(dRow, "PARTICIPANT_LEFT", q.user, NoState, NoState, q.hint)

\* Every row of the user is stamped: who rejoined has several.
dRemoveParticipant(q) ==
  /\ dParticipants' = [i \in DOMAIN dParticipants |->
       IF dParticipants[i].user = q.user THEN [dParticipants[i] EXCEPT !.connected = FALSE]
       ELSE dParticipants[i]]
  /\ appendLocked(dRow, "PARTICIPANT_LEFT", q.user, NoState, NoState, q.hint)

dTransferHost(q) ==
  /\ dParticipants' = [i \in DOMAIN dParticipants |->
       [dParticipants[i] EXCEPT !.isHost = dParticipants[i].user = q.successor]]
  /\ appendLocked([dRow EXCEPT !.host = q.successor],
                  "HOST_CHANGED", q.successor, NoState, NoState, q.hint)

dSetState(q) ==
  /\ appendLocked([dRow EXCEPT !.state = q.to],
                  "ROOM_STATE_CHANGED", q.user, q.room_state, q.to, q.hint)
  /\ UNCHANGED dParticipants

\* The participants stay as they are, where Postgres stamps them all.
dEndRoom(q) ==
  /\ appendLocked([dRow EXCEPT !.state = "ENDED"],
                  "ROOM_ENDED", NoUser, q.room_state, "ENDED", q.hint)
  /\ UNCHANGED dParticipants

-----------------------------------------------------------------------------
(* What the double answers.  A loop that keeps some rows of a slice is the *)
(* set of their indexes, in the order of the slice.                        *)

\* activeLocked
dActive == { i \in DOMAIN dParticipants : dParticipants[i].connected }

\* RoomByJoinCode and JoinCodeTaken: does the code still name the room?
dResolves == dRow.state \notin {NoState, "ENDED"}

\* Membership, which also admits to the socket.
dMembership(u) ==
  /\ dResolves
  /\ dRow.host = u \/ \E i \in dActive : dParticipants[i].user = u

dNextSeq == Len(dEvents) + 1

dEventsSince(from, to) ==
  { i \in DOMAIN dEvents : dEvents[i].seq > from /\ dEvents[i].seq <= to }

dOldestRetainedSeq == IF dEvents = << >> THEN 1 ELSE dEvents[1].seq

dSnapshot == [state |-> dRow.state, host |-> dRow.host, seq |-> dRow.seq,
              participants |-> { <<dParticipants[i].user, dParticipants[i].isHost>> : i \in dActive }]

-----------------------------------------------------------------------------
(* Both stores under one service.                                          *)

\* A step that calls no writing method of the repository.
Reads(r) ==
  \/ ReadParticipants(r) \/ NextSeq(r) \/ Publish(r)
  \/ \E u \in User :
       \/ BeginJoin(r, u) \/ BeginLeave(r, u) \/ BeginEnd(r, u)
       \/ \E ev \in LifecycleEvent : BeginTransition(r, u, ev)

Writes(r) ==
  \/ \E u \in User : Create(r, u) /\ dCreateRoom(u)
  \/ AddParticipant(r) /\ dAddParticipant(req[r])
  \/ RemoveParticipant(r) /\ dRemoveParticipant(req[r])
  \/ TransferHost(r) /\ dTransferHost(req[r])
  \/ EndRoom(r) /\ dEndRoom(req[r])
  \/ SetState(r) /\ dSetState(req[r])

DoubleNext ==
  \E r \in Request :
    \/ ~apart /\ Writes(r) /\ apart' = (state' # dRow'.state)
    \/ apart /\ Step(r) /\ UNCHANGED double
    \/ Reads(r) /\ UNCHANGED double

DoubleSpec == Init /\ DoubleInit /\ [][DoubleNext]_<<vars, double>>

-----------------------------------------------------------------------------
\* The log of Postgres, as EventsSince returns it.
LogSince(from, to) == { e \in events : e.seq > from /\ e.seq <= to }

\* roomstest ("The mutating methods honour the interface's atomicity
\* contract") and the tests that rely on it: what the double's readers answer,
\* to the service and to the socket, is what Postgres would answer after the
\* same calls.  The rows they keep differ: a user who left and came back has
\* one row in Postgres and two in the double.  An ended room is not compared by
\* its members (the double keeps them), and nothing is after a START (which the
\* double accepts).
DoubleAnswersAlike ==
  ~apart =>
    /\ dRow.state = state /\ dRow.host = host /\ dRow.seq = seq
    /\ state # NoState => dNextSeq = seq + 1 /\ dOldestRetainedSeq = 1
    /\ \A from, to \in 0..seq :
         LET found == dEventsSince(from, to) IN
           /\ { dEvents[i] : i \in found } = LogSince(from, to)
           /\ \A i, j \in found : i < j => dEvents[i].seq < dEvents[j].seq
    /\ dResolves <=> state \notin {NoState, "ENDED"}
    /\ \A u \in User : dMembership(u) <=> dResolves /\ (u = host \/ u \in active)
    /\ state # "ENDED" =>
         /\ Cardinality(dActive) = Cardinality(active)
         /\ dSnapshot.participants = { <<u, u \in hostRole>> : u \in active }
=============================================================================
