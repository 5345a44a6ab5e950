----------------------------- MODULE RoomSyncMC -----------------------------
EXTENDS RoomSync, TLC

CONSTANTS c1, c2, o1

\* The steps that answer a RESYNC happen: the handler's, the write of its answer,
\* the phone's event loop, and those of whoever holds the lock that the answer
\* needs.  The handler waits for that lock as others take it again and again, and
\* gets it, since a Go mutex lets no waiter starve (strong fairness).  Nothing
\* makes a user act, an event be committed or published, or a network fail.
Fairness ==
  /\ \A c \in Conn :
       /\ WF_syncVars(ResyncStep(c)) /\ SF_syncVars(WriteControl(c))
       /\ WF_syncVars(HubOnly(PumpWriteJSON(c))) /\ WF_syncVars(HubOnly(CloseSink(c)))
       /\ WF_syncVars(OnFrame(c))
  /\ \A d \in Elsewhere : WF_syncVars(HubOnly(EndsElsewhere(d)))

FairSpec == SyncSpec /\ Fairness

Connections == Permutations(Conn)

-----------------------------------------------------------------------------
Answering(c) == up[c] # << >> \/ handler[c].resync.job # "none"
AnswerOnWire(c) == \E i \in DOMAIN wire[c] : wire[c][i].type \in {"HELLO", "DELTA", "SNAPSHOT"}
Settled(c) == ~ Answering(c) /\ ~ AnswerOnWire(c)

\* handler.go: a client ahead of the room "is never normal".  Through snapshots,
\* restarts and deltas that cross live events, a phone never claims a position
\* the log has not reached, so no RESYNC is classified as invalid.
NeverAhead ==
  /\ client.lastSeq <= seq
  /\ \A c \in Conn : handler[c].resync.job = "answer" => Mode(c) # "INVALID"

\* The position a snapshot is labelled with was read before its rows: the rows
\* may be newer and never older, so an event after the label is delivered or
\* already in them.
SnapshotCoversItsPosition ==
  /\ \A c \in Conn : \A i \in DOMAIN wire[c] :
       wire[c][i].type = "SNAPSHOT" => wire[c][i].rows >= wire[c][i].seq
  /\ view.base >= view.snapshot

\* Although retention drops events between the queries of a RESYNC, a DELTA has
\* every event it names, from the position asked from to the position told (FR-28,
\* AC-7); or, of events that have all aged out since, none.
Whole(frame) == Range(frame.events) = frame.from..frame.to
DeltaIsWholeOrGone ==
  \A c \in Conn : \A i \in DOMAIN wire[c] :
    LET frame == wire[c][i] IN
      (frame.type = "DELTA" /\ frame.applied) =>
        \/ Whole(frame)
        \/ frame.events = << >> /\ frame.to < oldest

\* FR-34, AC-12: over one snapshot an event is folded into the room once, although
\* the live stream, deltas and reconnections all deliver it; as long as the user
\* sends no mutation (_act may put back a room from before the window was cleared).
AppliedOnce == act.sent = 0 => IsInjective(view.applied)

\* A phone that stands at m and is told the room is at n gets to know every
\* event between, from a delta, a snapshot or the live stream, whichever order
\* they cross in; unless its connection or the room ends, or its deadline passes.
ToldBehind(c, m, n) ==
  /\ client.conn = c /\ client.lastSeq = m /\ ~Disposed
  /\ wire[c] # << >> /\ Head(wire[c]) = HelloFrame(n)
CutShort(c) ==
  client.conn # c \/ c \notin open \/ endSeq # 0 \/ c \in expired
CatchUp ==
  \A c \in Conn, n \in Seqno : \A m \in 1..n - 1 :
    ToldBehind(c, m, n) ~> (m + 1..n \subseteq Known(view) \/ CutShort(c))

-----------------------------------------------------------------------------
(* What the documents say, and the code does not do.                       *)

\* handler.go, on HELLO: the position tells the client "without asking, whether
\* it missed anything".  With every buffer empty, a served phone is current.
QuietMeansCurrent ==
  \A c \in Conn :
    (/\ client.pc = "open" /\ client.conn = c /\ phase[c] = "serving" /\ c \in open \ closing
     /\ Settled(c) /\ wire[c] = << >> /\ queue[c] = << >> /\ hand[c] = 0
     /\ published = 1..seq /\ left = {} /\ slow = {})
      => 1..seq \subseteq Known(view)

\* handler.go: "Shipping a delta with a hole in it is worse than shipping a
\* snapshot: the client applies it, believes it is caught up".
DeltaIsWhole ==
  \A c \in Conn : \A i \in DOMAIN wire[c] :
    (wire[c][i].type = "DELTA" /\ wire[c][i].applied) => Whole(wire[c][i])

\* room_socket.dart, on a delta that does not fit: "a snapshot is the only safe
\* answer".  Asking again from 0 ends in one, or in the connection's end.
MisfitEndsInSnapshot ==
  \A c \in Conn :
    (client.conn = c /\ up[c] = <<0>>) ~>
      (CutShort(c) \/ (wire[c] # << >> /\ Head(wire[c]).type = "SNAPSHOT"))
=============================================================================
