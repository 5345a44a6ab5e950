------------------------------ MODULE RoomSync ------------------------------
(***************************************************************************)
(* How one phone follows one room: the WebSocket handler (handler.go) over *)
(* the hub, the room's log in Postgres, and the app's socket and room      *)
(* controller (room_socket.dart, rooms_controller.dart).                   *)
(*                                                                         *)
(* Events are their sequence numbers.  What the screen shows is `view`:    *)
(* the rows it was last given, and the events folded over them since.  The *)
(* log is written by requests the module Rooms models; here an event is    *)
(* committed in one step and published later, or lost by a restart.        *)
(***************************************************************************)
EXTENDS Hub, SequencesExt

CONSTANTS
  NoConn,
  DeltaThreshold,  \* RESYNC_DELTA_THRESHOLD, 200 by default
  DedupeCapacity,  \* RoomSocket.dedupeCapacity, 500 in the code
  LongLived,       \* connections that outlive their request's deadline
  Faulty,          \* connections any of whose queries may fail
  MaxPurged,       \* bound: events that retention may drop
  MaxActs          \* bound: HTTP mutations this user's controller sends

ASSUME SyncAssumption ==
  /\ NoConn \notin Conn
  /\ LongLived \subseteq Conn /\ Faulty \subseteq Conn
  /\ DeltaThreshold \in Nat \ {0} /\ DedupeCapacity \in Nat \ {0}
  /\ MaxPurged \in Nat /\ MaxActs \in Nat

VARIABLES
  seq,      \* rooms.current_seq
  endSeq,   \* the ROOM_ENDED event, 0 while the room lives
  oldest,   \* the first event retention has left in room_events
  handler,  \* per connection: the position for HELLO, and a RESYNC's locals
  expired,  \* connections whose request context has been cancelled
  up,       \* RESYNC frames on their way to the server: the lastSeq of each
  client,   \* the RoomSocket
  seen,     \* its dedupe window, oldest first
  view,     \* the controller's room
  act       \* the controller's HTTP mutation, if any

logVars == <<seq, endSeq, oldest>>
serverVars == <<handler, expired>>
clientVars == <<client, seen, view, act>>
syncVars == <<hubVars, logVars, serverVars, up, clientVars>>

Rows(n) == [base |-> n, applied |-> << >>, snapshot |-> 0]
Known(v) == (1..v.base) \cup Range(v.applied)

HelloFrame(n) == [type |-> "HELLO", seq |-> n]
ErrorFrame == [type |-> "ERROR"]
UpToDateFrame == [type |-> "DELTA", applied |-> FALSE, events |-> << >>]
DeltaFrame(from, to, events) ==
  [type |-> "DELTA", applied |-> TRUE, from |-> from, to |-> to, events |-> events]
SnapshotFrame(n, rows) == [type |-> "SNAPSHOT", seq |-> n, rows |-> rows]

NoJob == [job |-> "none", last |-> 0, cur |-> 0, floor |-> 0, frame |-> ErrorFrame]
Writing(frame) == [NoJob EXCEPT !.job = "write", !.frame = frame]

NoAct(sent) == [pc |-> "idle", sent |-> sent, before |-> Rows(0), reply |-> 0]

Larger(m, n) == IF m > n THEN m ELSE n
Interval(from, to) == [i \in 1..(IF to < from THEN 0 ELSE to - from + 1) |-> from + i - 1]

SyncInit ==
  /\ HubInit
  /\ seq = 1 /\ endSeq = 0 /\ oldest = 1
  /\ handler = [c \in Conn |-> [hello |-> 0, resync |-> NoJob]]
  /\ expired = {}
  /\ up = [c \in Conn |-> << >>]
  /\ client = [pc |-> "fetch", conn |-> NoConn, lastSeq |-> 0, closed |-> "no"]
  /\ seen = << >>
  /\ view = Rows(0)
  /\ act = NoAct(0)

\* A step of the hub that concerns nothing else.
HubOnly(step) == step /\ UNCHANGED <<logVars, serverVars, up, clientVars>>

-----------------------------------------------------------------------------
(* The log.                                                                *)

Commit ==
  /\ seq < MaxSeq /\ endSeq = 0
  /\ seq' = seq + 1
  /\ endSeq' \in {0, seq + 1}
  /\ UNCHANGED <<hubVars, oldest, serverVars, up, clientVars>>

PublishCommitted(n) == n <= seq /\ HubOnly(Publish(n))

\* A monthly partition is detached: a prefix of the log goes.
Purge(to) ==
  /\ oldest < to /\ to <= seq + 1 /\ to <= MaxPurged + 1
  /\ oldest' = to
  /\ UNCHANGED <<hubVars, seq, endSeq, serverVars, up, clientVars>>

\* MIN(seq) over the events left, or 1 when there are none.
OldestRetainedSeq == IF oldest <= seq THEN oldest ELSE 1

\* Mutant: the upper bound of the range is left out.
EventsSince_Exclusive(from, to) == Interval(Larger(from + 1, oldest), to - 1)
\* Retention drops a prefix, so the rows left after `from` are an interval.
EventsSince(from, to) == Interval(Larger(from + 1, oldest), to)

DecideResync(lastSeq, currentSeq, oldestRetained) ==
  CASE lastSeq > currentSeq -> "INVALID"
    [] lastSeq = currentSeq -> "UPTODATE"
    [] lastSeq < currentSeq /\
       (currentSeq - lastSeq > DeltaThreshold \/ lastSeq + 1 < oldestRetained) -> "SNAPSHOT"
    [] OTHER -> "DELTA"

VerifyContiguous(events, first) == \A i \in DOMAIN events : events[i] = first + i - 1

-----------------------------------------------------------------------------
(* ServeHTTP and handleResync.                                             *)

\* The ticket is redeemed and Membership answers; ended rooms have no members.
Accept(c) ==
  /\ client.conn = c /\ phase[c] = "none" /\ endSeq = 0
  /\ phase' = [phase EXCEPT ![c] = "accepted"]
  /\ handler' = [handler EXCEPT ![c].hello = seq]
  /\ UNCHANGED <<hub, open, closing, queue, hand, wire, writeMu, publicationVars>>
  /\ UNCHANGED <<logVars, expired, up, clientVars>>

\* A problem response in place of the upgrade: the channel's onError fires.
Refuse(c) ==
  /\ client.conn = c /\ phase[c] = "none" /\ endSeq # 0
  /\ client' = [client EXCEPT !.conn = NoConn,
                              !.pc = IF client.closed = "disposed" THEN "closed" ELSE "backoff"]
  /\ UNCHANGED <<hubVars, logVars, serverVars, up, seen, view, act>>

Register(c) == HubOnly(Join(c, "accepted", "joined"))

\* HELLO, or when it cannot be written, Leave and Close.
Hello(c) ==
  /\ phase[c] = "joined"
  /\ \/ /\ WriteSucceeds(c, "control", HelloFrame(handler[c].hello))
        /\ phase' = [phase EXCEPT ![c] = "serving"]
        /\ handler' = [handler EXCEPT ![c].hello = 0]
        /\ UNCHANGED <<hub, open>>
     \/ WriteWaits(c, "control") /\ UNCHANGED <<hub, open, phase, handler>>
     \/ /\ WriteFails(c, "control")
        /\ phase' = [phase EXCEPT ![c] = "gone"]
        /\ handler' = [handler EXCEPT ![c].hello = 0]
        /\ hub' = hub \ {c} /\ open' = open \ {c}
  /\ UNCHANGED <<closing, queue, hand, publicationVars>>
  /\ UNCHANGED <<logVars, expired, up, clientVars>>

\* chi's Timeout cancels r.Context() 30 seconds into the connection.
Expire(c) ==
  /\ c \in LongLived \ expired
  /\ phase[c] = "serving"
  /\ expired' = expired \cup {c}
  /\ UNCHANGED <<hubVars, logVars, handler, up, clientVars>>

Resync(c) == handler[c].resync
Goes(c, resync) == handler' = [handler EXCEPT ![c].resync = resync]

\* A query of the handler fails, as every one does once the context is
\* cancelled, and the client is told so.
QueryFails(c) == c \in expired \cup Faulty /\ Goes(c, Writing(ErrorFrame))

\* handleResync, one step per query: Membership,
ReadMembership(c) ==
  /\ phase[c] = "serving" /\ Resync(c).job = "none" /\ up[c] # << >>
  /\ up' = [up EXCEPT ![c] = Tail(@)]
  /\ \/ QueryFails(c)
     \/ endSeq # 0 /\ Goes(c, Writing(ErrorFrame))
     \/ /\ endSeq = 0 /\ c \notin expired
        /\ Goes(c, [NoJob EXCEPT !.job = "floor", !.last = Head(up[c]), !.cur = seq])
  /\ UNCHANGED <<hubVars, logVars, expired, clientVars>>

\* OldestRetainedSeq,
ReadFloor(c) ==
  /\ Resync(c).job = "floor"
  /\ \/ QueryFails(c)
     \/ /\ c \notin expired
        /\ Goes(c, [Resync(c) EXCEPT !.job = "answer", !.floor = OldestRetainedSeq])
  /\ UNCHANGED <<hubVars, logVars, expired, up, clientVars>>

Mode(c) == DecideResync(Resync(c).last, Resync(c).cur, Resync(c).floor)

\* EventsSince; when that fails or leaves a gap, a snapshot instead,
DeltaEvents(c) == EventsSince(Resync(c).last, Resync(c).cur)
DeltaFits(c) == VerifyContiguous(DeltaEvents(c), Resync(c).last + 1)
ReadEvents(c) ==
  /\ Resync(c).job = "answer" /\ Mode(c) = "DELTA"
  /\ \/ /\ c \notin expired /\ DeltaFits(c)
        /\ Goes(c, Writing(DeltaFrame(Resync(c).last + 1, Resync(c).cur, DeltaEvents(c))))
     \/ /\ c \in expired \cup Faulty \/ ~ DeltaFits(c)
        /\ Goes(c, [Resync(c) EXCEPT !.job = "snapshot"])

\* Mutants: the rows are read first, the position they are labelled with later;
\* a snapshot is labelled with the number the next event will take.
SnapshotRead_RowsBeforePosition(c) == SnapshotFrame(seq, Resync(c).cur)
SnapshotRead_NextSeq(c) == SnapshotFrame(Resync(c).cur + 1, seq)

\* and Snapshot, whose rows are read now.
SnapshotRead(c) == SnapshotFrame(Resync(c).cur, seq)
ReadSnapshot(c) ==
  /\ \/ Resync(c).job = "snapshot"
     \/ Resync(c).job = "answer" /\ Mode(c) \in {"SNAPSHOT", "INVALID"}
  /\ \/ QueryFails(c)
     \/ c \notin expired /\ Goes(c, Writing(SnapshotRead(c)))

UpToDate(c) ==
  /\ Resync(c).job = "answer" /\ Mode(c) = "UPTODATE"
  /\ Goes(c, Writing(UpToDateFrame))

AnswerResync(c) ==
  /\ UpToDate(c) \/ ReadEvents(c) \/ ReadSnapshot(c)
  /\ UNCHANGED <<hubVars, logVars, expired, up, clientVars>>

\* The answer is written past the queue, and its error ignored; a socket on which
\* a write has failed is closed (by the write pump, at its next event or ping).
WriteControl(c) ==
  /\ Resync(c).job = "write"
  /\ \/ /\ WriteSucceeds(c, "control", Resync(c).frame)
        /\ Goes(c, NoJob) /\ UNCHANGED open
     \/ WriteWaits(c, "control") /\ UNCHANGED <<handler, open>>
     \/ WriteFails(c, "control") /\ Goes(c, NoJob) /\ open' = open \ {c}
  /\ UNCHANGED <<hub, closing, phase, queue, hand, publicationVars>>
  /\ UNCHANGED <<logVars, expired, up, clientVars>>

\* The hub's own steps of the connection.  The read pump runs handleResync on
\* its own goroutine, so it notices a failure when that returns.
ConnectionStep(c) ==
  \/ HubOnly(CloseSink(c))
  \/ HubOnly(PumpTakes(c)) \/ HubOnly(PumpWriteJSON(c))
  \/ Resync(c).job = "none" /\ HubOnly(ReadPumpEnds(c) \/ ReadPumpPanics(c))
  \/ HubOnly(LeaveHub(c))

FanOut(n) == HubOnly(FanOutStep(n))
OtherRooms(d) == HubOnly(WaitsElsewhere(d) \/ EndsElsewhere(d))

\* The process stops and starts again: connections, buffers and publications
\* not yet made are gone; the log is not.
Restart ==
  /\ hub # {} \/ published # 1..seq
  /\ hub' = {} /\ open' = {} /\ closing' = {} /\ left' = {} /\ slow' = {}
  /\ published' = 1..seq
  /\ queue' = [c \in Conn |-> << >>] /\ hand' = [c \in Conn |-> 0]
  /\ writeMu' = Unlocked
  /\ phase' = [c \in Conn |-> IF phase[c] = "none" THEN "none" ELSE "gone"]
  /\ handler' = [c \in Conn |-> [hello |-> 0, resync |-> NoJob]]
  /\ UNCHANGED <<wire, cut, logVars, expired, up, clientVars>>

-----------------------------------------------------------------------------
(* RoomSocket.                                                             *)

Disposed == client.closed = "disposed"

\* The controller's build: the room over HTTP, then connect(fromSeq).
Fetch ==
  /\ client.pc = "fetch"
  /\ 1 \in published  \* the room's id is known once its creation has answered
  /\ view' = Rows(seq)
  /\ client' = [client EXCEPT !.pc = "ticket", !.lastSeq = seq]
  /\ UNCHANGED <<hubVars, logVars, serverVars, up, seen, act>>

\* The ticket arrives and _open goes on to connect.
TicketArrives(c) ==
  /\ client.pc = "ticket"
  /\ phase[c] = "none"
  /\ client' = [client EXCEPT !.pc = "open", !.conn = c]
  /\ UNCHANGED <<hubVars, logVars, serverVars, up, seen, view, act>>

\* No ticket: refused as unauthenticated, or the request never got through.
NoTicket(why) ==
  /\ client.pc = "ticket"
  /\ client' = [client EXCEPT !.pc = "closed",
                              !.closed = IF Disposed THEN @ ELSE why]
  /\ UNCHANGED <<hubVars, logVars, serverVars, up, seen, view, act>>

\* Frames in flight either way are lost when the phone lets go of a channel.
Hangs(c) ==
  /\ wire' = [wire EXCEPT ![c] = << >>]
  /\ up' = [up EXCEPT ![c] = << >>]
  /\ UNCHANGED <<hub, open, closing, phase, queue, hand, writeMu, publicationVars>>
  /\ UNCHANGED <<logVars, serverVars>>

\* The channel's onDone or onError, when the server or the network ends it.
Disconnected(c) ==
  /\ client.pc = "open" /\ client.conn = c
  /\ client' = [client EXCEPT !.conn = NoConn,
                              !.pc = IF Disposed THEN "closed" ELSE "backoff"]
  /\ Hangs(c)
  /\ UNCHANGED <<seen, view, act>>

\* The backoff's delay has passed and _open is called again.
Retry ==
  /\ client.pc = "backoff"
  /\ client' = [client EXCEPT !.pc = IF Disposed THEN "closed" ELSE "ticket"]
  /\ UNCHANGED <<hubVars, logVars, serverVars, up, seen, view, act>>

\* The screen is left.  An _open that awaits its ticket goes on.
Dispose ==
  /\ client.pc # "fetch" /\ ~Disposed
  /\ client' = [client EXCEPT
       !.closed = "disposed", !.conn = NoConn,
       !.pc = IF client.pc \in {"ticket", "backoff"} THEN @ ELSE "closed"]
  /\ \/ client.pc = "open" /\ Hangs(client.conn)
     \/ client.pc # "open" /\ UNCHANGED <<hubVars, logVars, serverVars, up>>
  /\ UNCHANGED <<seen, view, act>>

\* The message stream is closed with the controller.
Shows(v) == view' = IF Disposed THEN view ELSE v

SendResync(c, lastSeq) == up' = [up EXCEPT ![c] = Append(@, lastSeq)]

\* Mutant: one missed event is taken for one that is on its way.
OnHello_WaitsForOne(c, frame) ==
  /\ \/ frame.seq > client.lastSeq + 1 /\ SendResync(c, client.lastSeq)
     \/ frame.seq <= client.lastSeq + 1 /\ UNCHANGED up
  /\ UNCHANGED <<client, seen, view>>

OnHello(c, frame) ==
  /\ \/ frame.seq > client.lastSeq /\ SendResync(c, client.lastSeq)
     \/ frame.seq <= client.lastSeq /\ UNCHANGED up
  /\ UNCHANGED <<client, seen, view>>

\* The ways to list a set in ascending order: one.
Ascending(S) ==
  { f \in [1..Cardinality(S) -> S] : \A i, j \in DOMAIN f : i < j => f[i] < f[j] }
Window(ids) == SubSeq(ids, 1 + (IF Len(ids) > DedupeCapacity
                                THEN Len(ids) - DedupeCapacity ELSE 0), Len(ids))

Reaches(fresh) ==
  IF fresh = << >> THEN client.lastSeq ELSE Larger(client.lastSeq, fresh[Len(fresh)])

\* Mutant: _remember is not called.
Apply_Forgets(events) ==
  \E fresh \in Ascending(Range(events) \ Range(seen)) :
    /\ UNCHANGED seen
    /\ client' = [client EXCEPT !.lastSeq = Reaches(fresh)]
    /\ Shows([view EXCEPT !.applied = @ \o fresh])

\* _apply of each event, in the order of the log; what the window holds is
\* dropped.
Apply(events) ==
  \E fresh \in Ascending(Range(events) \ Range(seen)) :
    /\ seen' = Window(seen \o fresh)
    /\ client' = [client EXCEPT !.lastSeq = Reaches(fresh)]
    /\ Shows([view EXCEPT !.applied = @ \o fresh])

OnEvent(frame) == Apply(<<frame.seq>>) /\ UNCHANGED up

\* A delta that does not start where this client is now is answered by asking
\* again from 0.
Follows(events) == \A i \in DOMAIN events : events[i] = client.lastSeq + i
OnDelta(c, frame) ==
  \/ Follows(frame.events) /\ Apply(frame.events) /\ UNCHANGED up
  \/ ~ Follows(frame.events) /\ SendResync(c, 0) /\ UNCHANGED <<client, seen, view>>

\* The rows replace the room, and the window is cleared.
OnSnapshot(frame) ==
  /\ client' = [client EXCEPT !.lastSeq = frame.seq]
  /\ seen' = << >>
  /\ Shows([Rows(frame.rows) EXCEPT !.snapshot = frame.seq])
  /\ UNCHANGED up

OnFrame(c) ==
  /\ client.pc = "open" /\ client.conn = c
  /\ wire[c] # << >>
  /\ LET frame == Head(wire[c]) IN
       \/ frame.type = "HELLO" /\ OnHello(c, frame)
       \/ frame.type = "EVENT" /\ OnEvent(frame)
       \/ frame.type = "DELTA" /\ OnDelta(c, frame)
       \/ frame.type = "SNAPSHOT" /\ OnSnapshot(frame)
       \/ frame.type = "ERROR" /\ UNCHANGED <<up, client, seen, view>>
  /\ wire' = [wire EXCEPT ![c] = Tail(@)]
  /\ UNCHANGED <<hub, open, closing, phase, queue, hand, writeMu, publicationVars>>
  /\ UNCHANGED <<logVars, serverVars, act>>

-----------------------------------------------------------------------------
(* The controller's _act: a mutation over HTTP while the socket delivers.  *)

ActSends ==
  /\ act.pc = "idle" /\ act.sent < MaxActs
  /\ client.pc # "fetch" /\ ~Disposed
  /\ act' = [act EXCEPT !.pc = "sent", !.sent = @ + 1, !.before = view]
  /\ UNCHANGED <<hubVars, logVars, serverVars, up, client, seen, view>>

ActCommits ==
  /\ act.pc = "sent"
  /\ seq < MaxSeq /\ endSeq = 0
  /\ seq' = seq + 1
  /\ act' = [act EXCEPT !.pc = "committed", !.reply = seq + 1]
  /\ UNCHANGED <<hubVars, endSeq, oldest, serverVars, up, client, seen, view>>

\* The request publishes its event, then answers with the room.  (The answer
\* leaves out the members; who they are is not part of `view`.)
ActSucceeds ==
  /\ act.pc = "committed"
  /\ act.reply \in published \ cut
  /\ ~ \E c \in Conn : <<act.reply, c>> \in left \cup slow
  /\ Shows(Rows(act.reply))
  /\ act' = NoAct(act.sent)
  /\ UNCHANGED <<hubVars, logVars, serverVars, up, client, seen>>

\* Refused, or the answer is lost: the state from before the call is put back.
ActFails ==
  /\ act.pc \in {"sent", "committed"}
  /\ Shows(act.before)
  /\ act' = NoAct(act.sent)
  /\ UNCHANGED <<hubVars, logVars, serverVars, up, client, seen>>

-----------------------------------------------------------------------------
ResyncStep(c) == ReadMembership(c) \/ ReadFloor(c) \/ AnswerResync(c)

ServerStep(c) ==
  \/ Accept(c) \/ Refuse(c) \/ Register(c) \/ Hello(c) \/ Expire(c)
  \/ ResyncStep(c) \/ WriteControl(c)
  \/ ConnectionStep(c)

Shutdown == HubOnly(CloseAll)

LogStep ==
  \/ Commit
  \/ \E n \in Seqno : PublishCommitted(n) \/ FanOut(n)
  \/ \E d \in Elsewhere : OtherRooms(d)
  \/ \E to \in 2..MaxSeq + 1 : Purge(to)
  \/ Restart \/ Shutdown

ClientStep ==
  \/ Fetch \/ Retry \/ Dispose
  \/ \E why \in {"unauthenticated", "offline"} : NoTicket(why)
  \/ \E c \in Conn : TicketArrives(c) \/ Disconnected(c) \/ OnFrame(c)
  \/ ActSends \/ ActCommits \/ ActSucceeds \/ ActFails

SyncNext == (\E c \in Conn : ServerStep(c)) \/ LogStep \/ ClientStep

SyncSpec == SyncInit /\ [][SyncNext]_syncVars
=============================================================================
