-------------------------------- MODULE Hub --------------------------------
(***************************************************************************)
(* realtime.Hub and its connections (hub.go, wsconn.go), for one room.     *)
(*                                                                         *)
(* A publication runs on the goroutine of the request that committed the   *)
(* event: it copies the room's sinks under the read lock, offers the event *)
(* to each without waiting, and evicts those that refused.  Publications,  *)
(* write pumps and read pumps interleave freely, but for one thing: every  *)
(* frame of the process is written under one lock, writeMu, which is held  *)
(* while the write waits for a peer that does not read.  Publishing to a   *)
(* subset of the users is left out: every caller passes no recipients.     *)
(***************************************************************************)
EXTENDS Naturals, Sequences, FiniteSets

CONSTANTS
  Conn,        \* connection ids, each used once
  Elsewhere,   \* connections of other rooms of the process
  MaxSeq,      \* bound: the events that may be published
  SendBuffer,  \* capacity of Conn.send, 64 in the code
  WireBuffer   \* bound: frames written and not yet read (the socket's buffers)

ASSUME HubAssumption ==
  /\ Conn \cap Elsewhere = {}
  /\ MaxSeq \in Nat
  /\ SendBuffer \in Nat \ {0}
  /\ WireBuffer \in Nat \ {0}

VARIABLES
  hub,        \* h.rooms[room]: the connections registered
  open,       \* connections whose `done` is not closed
  closing,    \* evicted from the hub and about to be closed
  phase,      \* where ServeHTTP is, per connection
  queue,      \* Conn.send: the events a connection has still to write
  hand,       \* the event the write pump has taken and not written, 0 if none
  wire,       \* frames written to the socket and not yet read
  writeMu,    \* Unlocked, or <<c, by>>: this write to c waits for its peer
  published,  \* events whose publication has begun
  left,       \* <<n, c>>: the publication of n has still to offer it to c
  slow,       \* <<n, c>>: c refused n and the publication has still to evict it
  cut         \* events whose publication panicked

publicationVars == <<published, left, slow, cut>>
hubVars == <<hub, open, closing, phase, queue, hand, wire, writeMu, publicationVars>>

Seqno == 1..MaxSeq
EventFrame(n) == [type |-> "EVENT", seq |-> n]
Unlocked == << >>

HubInit ==
  /\ hub = {} /\ open = {} /\ closing = {}
  /\ phase = [c \in Conn |-> "none"]
  /\ queue = [c \in Conn |-> << >>]
  /\ hand = [c \in Conn |-> 0]
  /\ wire = [c \in Conn |-> << >>]
  /\ writeMu = Unlocked
  /\ published = {} /\ left = {} /\ slow = {} /\ cut = {}

-----------------------------------------------------------------------------
(* PublishTo.                                                              *)

\* The targets are those registered at this moment.
Publish(n) ==
  /\ n \notin published
  /\ published' = published \cup {n}
  /\ left' = left \cup ({n} \X hub)
  /\ UNCHANGED <<hub, open, closing, phase, queue, hand, wire, writeMu, slow, cut>>

\* Mutant: the first sink that refuses ends the fan-out.
Send_StopsAtFirstSlow(n, c) ==
  /\ <<n, c>> \in left
  /\ \/ /\ Len(queue[c]) < SendBuffer
        /\ queue' = [queue EXCEPT ![c] = Append(@, n)]
        /\ left' = left \ {<<n, c>>}
        /\ UNCHANGED slow
     \/ /\ c \notin open \/ Len(queue[c]) = SendBuffer
        /\ slow' = slow \cup {<<n, c>>}
        /\ left' = left \ ({n} \X Conn)
        /\ UNCHANGED queue
  /\ UNCHANGED <<hub, open, closing, phase, hand, wire, writeMu, published, cut>>

\* Conn.Send never waits: it refuses when the buffer is full or the connection
\* is done (and with both arms of the select ready, either may be taken).
Send(n, c) ==
  /\ <<n, c>> \in left
  /\ left' = left \ {<<n, c>>}
  /\ \/ /\ Len(queue[c]) < SendBuffer
        /\ queue' = [queue EXCEPT ![c] = Append(@, n)]
        /\ UNCHANGED slow
     \/ /\ c \notin open \/ Len(queue[c]) = SendBuffer
        /\ slow' = slow \cup {<<n, c>>}
        /\ UNCHANGED queue
  /\ UNCHANGED <<hub, open, closing, phase, hand, wire, writeMu, published, cut>>

Evicts(n, c) == <<n, c>> \in slow /\ ~ \E d \in Conn : <<n, d>> \in left

\* dropSlow, after the send loop: Leave, then Close.
DropSlow(n, c) ==
  /\ Evicts(n, c)
  /\ slow' = slow \ {<<n, c>>}
  /\ hub' = hub \ {c}
  /\ closing' = closing \cup {c}
  /\ UNCHANGED <<open, phase, queue, hand, wire, writeMu, published, left, cut>>

\* Conn.Close, which closeOnce makes idempotent.
CloseSink(c) ==
  /\ c \in closing
  /\ closing' = closing \ {c}
  /\ open' = open \ {c}
  /\ UNCHANGED <<hub, phase, queue, hand, wire, writeMu, publicationVars>>

\* Close writes a close frame without the lock.  The socket admits one writer:
\* while a frame of c waits for its peer, a second one makes gorilla panic, or
\* goes unnoticed (then it is DropSlow and CloseSink).  The panic leaves PublishTo's
\* loop, so the sinks that come after c are not evicted.
FrameIsWaiting(c) == writeMu \in {<<c, "pump">>, <<c, "control">>}
EvictionPanics(n, c) ==
  /\ Evicts(n, c)
  /\ c \in open \ closing /\ FrameIsWaiting(c)
  /\ hub' = hub \ {c}
  /\ open' = open \ {c}
  /\ slow' = slow \ ({n} \X Conn)
  /\ cut' = cut \cup {n}
  /\ UNCHANGED <<closing, phase, queue, hand, wire, writeMu, published, left>>

\* Shutdown: the hub is emptied under the lock, the sinks closed after it.
CloseAll ==
  /\ hub # {}
  /\ hub' = {}
  /\ closing' = closing \cup hub
  /\ UNCHANGED <<open, phase, queue, hand, wire, writeMu, publicationVars>>

-----------------------------------------------------------------------------
(* writeJSON, under the lock that every connection of the process shares.  *)
(* A write that finds room in the socket takes the lock and releases it in *)
(* one step; one that does not keeps it until the peer has read, the       *)
(* connection is closed, or WriteWait has passed.                          *)

HasRoom(c) == Len(wire[c]) < WireBuffer

WriteSucceeds(c, by, frame) ==
  /\ writeMu = <<c, by>> \/ (writeMu = Unlocked /\ c \in open)
  /\ HasRoom(c)
  /\ wire' = [wire EXCEPT ![c] = Append(@, frame)]
  /\ writeMu' = Unlocked

WriteWaits(c, by) ==
  /\ writeMu = Unlocked /\ c \in open /\ ~ HasRoom(c)
  /\ writeMu' = <<c, by>>
  /\ UNCHANGED wire

\* Mutant: no SetWriteDeadline.
WriteFails_NoDeadline(c, by) ==
  /\ writeMu \in {Unlocked, <<c, by>>} /\ c \notin open
  /\ writeMu' = Unlocked
  /\ UNCHANGED wire

\* The connection is done, or the deadline finds the socket still full.
WriteFails(c, by) ==
  /\ \/ writeMu \in {Unlocked, <<c, by>>} /\ c \notin open
     \/ writeMu = <<c, by>> /\ ~ HasRoom(c)
  /\ writeMu' = Unlocked
  /\ UNCHANGED wire

\* A phone of another room that does not read holds up the same lock.
WaitsElsewhere(d) ==
  /\ writeMu = Unlocked
  /\ writeMu' = <<d, "pump">>
  /\ UNCHANGED <<hub, open, closing, phase, queue, hand, wire, publicationVars>>
EndsElsewhere(d) ==
  /\ writeMu = <<d, "pump">>
  /\ writeMu' = Unlocked
  /\ UNCHANGED <<hub, open, closing, phase, queue, hand, wire, publicationVars>>

-----------------------------------------------------------------------------
(* A connection's life: ServeHTTP, its write pump and its read pump.       *)

\* hub.Join, and the write pump started.
Join(c, from, to) ==
  /\ phase[c] = from
  /\ phase' = [phase EXCEPT ![c] = to]
  /\ hub' = hub \cup {c}
  /\ open' = open \cup {c}
  /\ UNCHANGED <<closing, queue, hand, wire, writeMu, publicationVars>>

\* The write pump takes an event off the channel and then waits for the lock.
PumpTakes(c) ==
  /\ c \in open
  /\ hand[c] = 0 /\ queue[c] # << >>
  /\ hand' = [hand EXCEPT ![c] = Head(queue[c])]
  /\ queue' = [queue EXCEPT ![c] = Tail(@)]
  /\ UNCHANGED <<hub, open, closing, phase, wire, writeMu, publicationVars>>

\* Mutant: the pump writes the event again when it looks at the channel next.
PumpWrites_KeepsEvent(c) ==
  /\ hand[c] # 0
  /\ WriteSucceeds(c, "pump", EventFrame(hand[c]))
  /\ UNCHANGED <<hub, open, closing, phase, queue, hand, publicationVars>>

PumpWrites(c) ==
  /\ hand[c] # 0
  /\ WriteSucceeds(c, "pump", EventFrame(hand[c]))
  /\ hand' = [hand EXCEPT ![c] = 0]
  /\ UNCHANGED <<hub, open, closing, phase, queue, publicationVars>>

PumpWaits(c) ==
  /\ hand[c] # 0
  /\ WriteWaits(c, "pump")
  /\ UNCHANGED <<hub, open, closing, phase, queue, hand, publicationVars>>

\* The pump returns, and closes the connection.
PumpFails(c) ==
  /\ hand[c] # 0
  /\ WriteFails(c, "pump")
  /\ hand' = [hand EXCEPT ![c] = 0]
  /\ open' = open \ {c}
  /\ UNCHANGED <<hub, closing, phase, queue, publicationVars>>

PumpWriteJSON(c) == PumpWrites(c) \/ PumpWaits(c) \/ PumpFails(c)

\* The read fails (the peer is gone, a deadline passed, or the connection was
\* closed here), and ReadPump closes the connection.
ReadPumpEnds(c) ==
  /\ phase[c] = "serving"
  /\ phase' = [phase EXCEPT ![c] = "leaving"]
  /\ open' = open \ {c}
  /\ UNCHANGED <<hub, closing, queue, hand, wire, writeMu, publicationVars>>

\* As above, its Close panics while the write pump's frame waits: Leave is not
\* reached, and the hub keeps the connection until it refuses an event.
ReadPumpPanics(c) ==
  /\ phase[c] = "serving"
  /\ c \in open \ closing /\ FrameIsWaiting(c)
  /\ phase' = [phase EXCEPT ![c] = "gone"]
  /\ open' = open \ {c}
  /\ UNCHANGED <<hub, closing, queue, hand, wire, writeMu, publicationVars>>

LeaveHub(c) ==
  /\ phase[c] = "leaving"
  /\ phase' = [phase EXCEPT ![c] = "gone"]
  /\ hub' = hub \ {c}
  /\ UNCHANGED <<open, closing, queue, hand, wire, writeMu, publicationVars>>

-----------------------------------------------------------------------------
(* The hub alone: any order of publications, connections that come and go. *)

ConnStep(c) ==
  \/ Join(c, "none", "serving")
  \/ CloseSink(c)
  \/ PumpTakes(c) \/ PumpWriteJSON(c)
  \/ ReadPumpEnds(c) \/ ReadPumpPanics(c)
  \/ LeaveHub(c)

FanOutStep(n) == \E c \in Conn : Send(n, c) \/ DropSlow(n, c) \/ EvictionPanics(n, c)

\* Nothing here compares events: they are numbered as their publications begin.
PublishNext == \E n \in Seqno : 1..n - 1 \subseteq published /\ Publish(n)

HubNext ==
  \/ \E c \in Conn : ConnStep(c)
  \/ \E d \in Elsewhere : WaitsElsewhere(d) \/ EndsElsewhere(d)
  \/ PublishNext
  \/ \E n \in Seqno : FanOutStep(n)
  \/ CloseAll
=============================================================================
