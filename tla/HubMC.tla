------------------------------- MODULE HubMC -------------------------------
(***************************************************************************)
(* Hub with phones that read, and a history of what each connection was    *)
(* owed (the events published while it was registered) and what it got.    *)
(***************************************************************************)
EXTENDS Hub, TLC

CONSTANTS
  c1, c2, o1,
  Healthy  \* connections whose peer keeps reading

VARIABLES owed, got

mcVars == <<hubVars, owed, got>>

MCInit ==
  /\ HubInit
  /\ owed = [c \in Conn |-> {}]
  /\ got = [c \in Conn |-> {}]

\* A step of the server, remembering what it makes due.
Recorded(step) ==
  /\ step
  /\ owed' = [c \in Conn |-> { n \in Seqno : n \in owed[c] \/ <<n, c>> \in left' }]
  /\ UNCHANGED got

PeerReads(c) ==
  /\ wire[c] # << >>
  /\ got' = [got EXCEPT ![c] = @ \cup {Head(wire[c]).seq}]
  /\ wire' = [wire EXCEPT ![c] = Tail(@)]
  /\ UNCHANGED <<hub, open, closing, phase, queue, hand, writeMu, publicationVars, owed>>

MCNext == Recorded(HubNext) \/ \E c \in Conn : PeerReads(c)

MCSpec == MCInit /\ [][MCNext]_mcVars

\* The goroutines run: those of publications, of Close and the pumps.  A write
\* that waits ends by its deadline, if not before.  Whoever waits for the lock
\* gets it, since a Go mutex lets no waiter starve (strong fairness); only for a
\* healthy connection is that needed.  Only its peer is assumed to read.
Fairness ==
  /\ \A n \in Seqno : WF_mcVars(Recorded(FanOutStep(n)))
  /\ \A d \in Elsewhere : WF_mcVars(Recorded(EndsElsewhere(d)))
  /\ \A c \in Conn :
       WF_mcVars(Recorded(CloseSink(c))) /\ WF_mcVars(Recorded(PumpWriteJSON(c)))
  /\ \A c \in Healthy :
       /\ WF_mcVars(Recorded(PumpTakes(c)))
       /\ SF_mcVars(Recorded(PumpWriteJSON(c)))
       /\ WF_mcVars(PeerReads(c))

FairSpec == MCSpec /\ Fairness

Connections == Permutations(Conn)

-----------------------------------------------------------------------------
Written(c) == { wire[c][i].seq : i \in DOMAIN wire[c] }
InHand(c) == {hand[c]} \ {0}
Queued(c) == { queue[c][i] : i \in DOMAIN queue[c] }
Accepted(c) == Queued(c) \cup InHand(c) \cup Written(c) \cup got[c]

\* Whether c can be shown what became of n.
Accounted(n, c) ==
  n \in Accepted(c) \/ <<n, c>> \in left \cup slow \/ c \notin open \/ c \in closing

\* hub.go: "a sink that cannot keep up is disconnected, not waited for".  An
\* event owed to a connection is on its way to the client or arrived, or that
\* connection refused it and is closed: it is never skipped on one that lives
\* on, unless its publication panicked.
NoSilentLoss == \A c \in Conn : \A n \in owed[c] : Accounted(n, c) \/ n \in cut

\* An event is offered to a connection once, whatever the interleaving of its
\* publication with evictions, departures, failed writes and panics.
AtMostOnce ==
  \A c \in Conn :
    /\ \A i, j \in DOMAIN wire[c] : wire[c][i] = wire[c][j] => i = j
    /\ \A i, j \in DOMAIN queue[c] : queue[c][i] = queue[c][j] => i = j
    /\ Queued(c) \cap (InHand(c) \cup Written(c) \cup got[c]) = {}
    /\ InHand(c) \cap (Written(c) \cup got[c]) = {}
    /\ Written(c) \cap got[c] = {}

\* One bad phone holds the room up for the time of a deadline and no longer
\* (wsconn.go, WriteWait): what a connection whose peer reads is owed arrives or
\* the connection is closed, although peers in this room and others never read
\* and every write of the process takes its turn at one lock.
HealthyAreServed ==
  \A c \in Healthy, n \in Seqno :
    n \in owed[c] ~> (n \in got[c] \/ c \notin open \/ n \in cut)

-----------------------------------------------------------------------------
(* What the comments say, and the code does not do.                        *)

\* hub.go: a hub that waits for a slow sink "turns one bad phone on a train into
\* an outage for the whole room"; so only a sink that cannot keep up is dropped.
\* No connection refuses an event while its pump has an event to write and room
\* to write it, and only waits for the lock of another connection's write.
HeldUpByAnother(c) ==
  c \in open /\ hand[c] # 0 /\ HasRoom(c) /\ writeMu \notin {Unlocked, <<c, "control">>}
RestAreUnaffected ==
  [][\A c \in Conn, n \in Seqno :
       <<n, c>> \in slow' \ slow => ~ HeldUpByAnother(c)]_mcVars

\* hub.go, on evicting outside the send loop: "a drop does not perturb the
\* iteration"; wsconn.go: a second writer shows as "a corrupted frame rather than
\* a panic".  No publication leaves an event that nobody accounts for.
NothingIsSkipped == \A c \in Conn : \A n \in owed[c] : Accounted(n, c)
=============================================================================
