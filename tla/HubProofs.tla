----------------------------- MODULE HubProofs ------------------------------
(***************************************************************************)
(* Theorems about Hub, for every set of connections, every number of       *)
(* events and every size of the buffers, with phones that may stop reading *)
(* and one lock on every write of the process.                             *)
(***************************************************************************)
EXTENDS HubMC, Integers, TLAPS

USE HubAssumption

-----------------------------------------------------------------------------
(* The inductive invariant.                                                *)

Frame == [type : {"EVENT"}, seq : Seqno]
Phases == {"none", "joined", "serving", "leaving", "gone"}

HubTyped ==
  /\ phase \in [Conn -> Phases]
  /\ queue \in [Conn -> Seq(Seqno)]
  /\ hand \in [Conn -> 0..MaxSeq]
  /\ wire \in [Conn -> Seq(Frame)]
  /\ got \in [Conn -> SUBSET Seqno]
  /\ hub \subseteq Conn
  /\ left \subseteq Seqno \X Conn
  /\ owed \in [Conn -> SUBSET Seqno]

\* Who has not joined is known to nobody.
NothingBeforeJoin ==
  \A c \in Conn : phase[c] = "none" =>
    c \notin hub /\ owed[c] = {} /\ \A n \in Seqno : <<n, c>> \notin left

\* What AtMostOnce says of one connection.
NoRepeats(s) == \A i, j \in DOMAIN s : s[i] = s[j] => i = j
Distinct(c) ==
  /\ NoRepeats(wire[c]) /\ NoRepeats(queue[c])
  /\ Queued(c) \cap (InHand(c) \cup Written(c) \cup got[c]) = {}
  /\ InHand(c) \cap (Written(c) \cup got[c]) = {}
  /\ Written(c) \cap got[c] = {}

\* An event is somewhere on its way to a connection, in one place.
OnePlace ==
  \A c \in Conn :
    /\ \A n \in Seqno :
         /\ <<n, c>> \in left => n \in published /\ n \notin Accepted(c)
         /\ n \in Accepted(c) => n \in published
    /\ Distinct(c)

IInv == HubTyped /\ NothingBeforeJoin /\ NoSilentLoss /\ OnePlace

-----------------------------------------------------------------------------
(* Sequences.                                                              *)

Elements(s) == { s[i] : i \in DOMAIN s }

\* Appending something new to a sequence adds it to its elements, once.
LEMMA Appended ==
  ASSUME NEW S, NEW s \in Seq(S), NEW e \in S
  PROVE  /\ Append(s, e) \in Seq(S)
         /\ Elements(Append(s, e)) = Elements(s) \cup {e}
         /\ NoRepeats(s) /\ e \notin Elements(s) => NoRepeats(Append(s, e))
<1>1. /\ Append(s, e) \in Seq(S)
      /\ DOMAIN Append(s, e) = 1 .. Len(s) + 1
      /\ Append(s, e)[Len(s) + 1] = e
      /\ \A i \in 1 .. Len(s) : Append(s, e)[i] = s[i]
      /\ DOMAIN s = 1 .. Len(s) /\ Len(s) \in Nat
  OBVIOUS
<1>2. Elements(Append(s, e)) = Elements(s) \cup {e}
  <2>1. ASSUME NEW x \in Elements(Append(s, e)) PROVE x \in Elements(s) \cup {e}
    BY <1>1 DEF Elements
  <2>2. ASSUME NEW x \in Elements(s) PROVE x \in Elements(Append(s, e))
    BY <1>1 DEF Elements
  <2>3. e \in Elements(Append(s, e))
    BY <1>1 DEF Elements
  <2>. QED  BY <2>1, <2>2, <2>3
<1>3. ASSUME NoRepeats(s), e \notin Elements(s) PROVE NoRepeats(Append(s, e))
  BY <1>1, <1>3 DEF NoRepeats, Elements
<1>. QED  BY <1>1, <1>2, <1>3

\* Taking the head of a sequence without repetitions leaves its other elements.
LEMMA Tailed ==
  ASSUME NEW S, NEW s \in Seq(S), s # << >>, NoRepeats(s)
  PROVE  /\ Tail(s) \in Seq(S) /\ Head(s) \in S
         /\ Head(s) \in Elements(s)
         /\ Elements(Tail(s)) = Elements(s) \ {Head(s)}
         /\ NoRepeats(Tail(s))
<1>1. /\ Tail(s) \in Seq(S) /\ Head(s) = s[1] /\ Head(s) \in S
      /\ DOMAIN Tail(s) = 1 .. Len(s) - 1
      /\ \A i \in 1 .. Len(s) - 1 : Tail(s)[i] = s[i + 1]
      /\ DOMAIN s = 1 .. Len(s) /\ Len(s) \in Nat \ {0}
  OBVIOUS
<1>2. ASSUME NEW x \in Elements(Tail(s)) PROVE x \in Elements(s) /\ x # Head(s)
  <2>1. PICK i \in 1 .. Len(s) - 1 : x = s[i + 1]
    BY <1>1 DEF Elements
  <2>2. i + 1 \in DOMAIN s /\ 1 \in DOMAIN s /\ i + 1 # 1
    BY <1>1
  <2>. QED  BY <1>1, <2>1, <2>2 DEF Elements, NoRepeats
<1>3. ASSUME NEW x \in Elements(s), x # Head(s) PROVE x \in Elements(Tail(s))
  <2>1. PICK i \in DOMAIN s : x = s[i]
    BY DEF Elements
  <2>2. i # 1
    BY <1>1, <1>3, <2>1
  <2>3. i - 1 \in DOMAIN Tail(s) /\ Tail(s)[i - 1] = s[(i - 1) + 1] /\ (i - 1) + 1 = i
    BY <1>1, <2>1, <2>2
  <2>. QED  BY <2>1, <2>3 DEF Elements
<1>4. NoRepeats(Tail(s))
  <2>1. ASSUME NEW i \in DOMAIN Tail(s)
        PROVE  i \in Int /\ i + 1 \in DOMAIN s /\ Tail(s)[i] = s[i + 1]
    BY <1>1
  <2>. QED  BY <2>1 DEF NoRepeats
<1>5. Head(s) \in Elements(s)
  BY <1>1 DEF Elements
<1>. QED  BY <1>1, <1>2, <1>3, <1>4, <1>5

\* A frame of an event is known by its number.
LEMMA WrittenFrames ==
  ASSUME HubTyped, NEW c \in Conn
  PROVE  /\ Written(c) \subseteq Seqno /\ Queued(c) = Elements(queue[c])
         /\ \A n \in Seqno : EventFrame(n) \in Frame /\ EventFrame(n).seq = n
         /\ \A n \in Seqno : n \in Written(c) <=> EventFrame(n) \in Elements(wire[c])
<1>1. wire[c] \in Seq(Frame)
  BY DEF HubTyped
<1>2. \A n \in Seqno : EventFrame(n) \in Frame /\ EventFrame(n).seq = n
  BY DEF EventFrame, Frame
<1>3. \A f \in Frame : f.seq \in Seqno /\ f = EventFrame(f.seq)
  BY DEF EventFrame, Frame
<1>4. \A i \in DOMAIN wire[c] : wire[c][i] \in Frame
  BY <1>1
<1>5. Written(c) \subseteq Seqno
  BY <1>3, <1>4 DEF Written
<1>6. \A n \in Seqno : n \in Written(c) <=> EventFrame(n) \in Elements(wire[c])
  BY <1>2, <1>3, <1>4 DEF Written, Elements
<1>. QED  BY <1>2, <1>5, <1>6 DEF Queued, Elements

-----------------------------------------------------------------------------
(* Steps.                                                                  *)

\* Only events still to be offered become due.
Owes ==
  /\ owed' \in [Conn -> SUBSET Seqno]
  /\ \A c \in Conn, n \in Seqno : n \in owed'[c] => n \in owed[c] \/ <<n, c>> \in left'

OnTheWay(n, c) == n \in Accepted(c) \/ <<n, c>> \in left
Doomed(n, c) == <<n, c>> \in slow \/ c \notin open \/ c \in closing \/ n \in cut

\* What a step must show: of a connection that has joined, nothing is forgotten,
\* but where it is doomed.
LEMMA StillOwed ==
  ASSUME IInv, Owes,
         phase' \in [Conn -> Phases],
         queue' \in [Conn -> Seq(Seqno)], hand' \in [Conn -> 0..MaxSeq],
         wire' \in [Conn -> Seq(Frame)], got' \in [Conn -> SUBSET Seqno],
         hub' \subseteq Conn, left' \subseteq Seqno \X Conn,
         \A c \in Conn : phase'[c] = "none" =>
           phase[c] = "none" /\ c \notin hub' /\ \A n \in Seqno : <<n, c>> \notin left',
         \A c \in Conn, n \in Seqno : phase[c] # "none" /\ (OnTheWay(n, c) \/ Doomed(n, c)) =>
           OnTheWay(n, c)' \/ Doomed(n, c)'
  PROVE  HubTyped' /\ NothingBeforeJoin' /\ NoSilentLoss'
<1>1. HubTyped'
  BY DEF HubTyped, Owes
<1>2. NothingBeforeJoin'
  BY DEF IInv, HubTyped, NothingBeforeJoin, Owes
<1>3. ASSUME NEW c \in Conn, NEW n \in owed'[c]
      PROVE  OnTheWay(n, c)' \/ Doomed(n, c)'
  <2>1. n \in Seqno
    BY DEF Owes
  <2>2. CASE n \in owed[c]
    <3>1. phase[c] # "none"
      BY <2>2 DEF IInv, NothingBeforeJoin
    <3>2. OnTheWay(n, c) \/ Doomed(n, c)
      BY <2>2 DEF IInv, NoSilentLoss, Accounted, OnTheWay, Doomed
    <3>. QED  BY <2>1, <3>1, <3>2
  <2>3. CASE <<n, c>> \in left'
    BY <2>3 DEF OnTheWay
  <2>. QED  BY <2>1, <2>2, <2>3 DEF Owes
<1>4. NoSilentLoss'
  BY <1>3 DEF NoSilentLoss, Accounted, OnTheWay, Doomed
<1>. QED  BY <1>1, <1>2, <1>4

\* Where a connection's events are depends on its buffers alone.
LEMMA SamePlaces ==
  ASSUME NEW c \in Conn, queue'[c] = queue[c], hand'[c] = hand[c], wire'[c] = wire[c],
         got'[c] = got[c]
  PROVE  Accepted(c)' = Accepted(c) /\ (Distinct(c)' <=> Distinct(c))
<1>1. Queued(c)' = Queued(c) /\ InHand(c)' = InHand(c) /\ Written(c)' = Written(c)
  BY DEF Queued, InHand, Written
<1>2. Accepted(c)' = Accepted(c)
  BY <1>1 DEF Accepted
<1>3. Distinct(c)' <=> Distinct(c)
  BY <1>1 DEF Distinct, NoRepeats
<1>. QED  BY <1>2, <1>3

\* A step that touches neither events nor queues.
LEMMA ConnectionsMove ==
  ASSUME IInv, Owes, UNCHANGED <<queue, hand, wire, got, published, left>>,
         hub' \subseteq Conn, phase' \in [Conn -> Phases],
         \A c \in Conn : phase'[c] = "none" => phase[c] = "none" /\ (c \in hub' => c \in hub),
         \A c \in Conn, n \in Seqno : phase[c] # "none" /\ Doomed(n, c) => Doomed(n, c)'
  PROVE  IInv'
<1>1. \A c \in Conn : Accepted(c)' = Accepted(c) /\ (Distinct(c)' <=> Distinct(c))
  BY SamePlaces
<1>2. \A c \in Conn, n \in Seqno : OnTheWay(n, c)' <=> OnTheWay(n, c)
  BY <1>1 DEF OnTheWay
<1>3. HubTyped' /\ NothingBeforeJoin' /\ NoSilentLoss'
  BY <1>2, StillOwed DEF IInv, HubTyped, NothingBeforeJoin
<1>4. OnePlace'
  BY <1>1 DEF IInv, OnePlace
<1>. QED  BY <1>3, <1>4 DEF IInv

\* A step that moves an event of one connection to its next place, or drops it and
\* closes the connection.
LEMMA EventMoves ==
  ASSUME IInv, Owes, NEW c \in Conn,
         UNCHANGED <<hub, closing, phase, published, left, slow, cut>>, open' \subseteq open,
         queue' \in [Conn -> Seq(Seqno)], hand' \in [Conn -> 0..MaxSeq],
         wire' \in [Conn -> Seq(Frame)], got' \in [Conn -> SUBSET Seqno],
         \A d \in Conn \ {c} : /\ queue'[d] = queue[d] /\ hand'[d] = hand[d]
                               /\ wire'[d] = wire[d] /\ got'[d] = got[d],
         Accepted(c)' \subseteq Accepted(c),
         Accepted(c)' = Accepted(c) \/ c \notin open',
         Distinct(c)'
  PROVE  IInv'
<1>1. \A d \in Conn \ {c} : Accepted(d)' = Accepted(d) /\ (Distinct(d)' <=> Distinct(d))
  BY SamePlaces
<1>2. ASSUME NEW d \in Conn, NEW n \in Seqno, OnTheWay(n, d) \/ Doomed(n, d)
      PROVE  OnTheWay(n, d)' \/ Doomed(n, d)'
  <2>1. Doomed(n, d) => Doomed(n, d)'
    BY DEF Doomed
  <2>2. CASE Accepted(d)' = Accepted(d)
    BY <1>2, <2>1, <2>2 DEF OnTheWay
  <2>3. CASE d = c /\ c \notin open'
    BY <2>3 DEF Doomed
  <2>. QED  BY <1>1, <2>2, <2>3
<1>3. HubTyped' /\ NothingBeforeJoin' /\ NoSilentLoss'
  BY <1>2, StillOwed DEF IInv, HubTyped, NothingBeforeJoin
<1>4. OnePlace'
  BY <1>1 DEF IInv, OnePlace
<1>. QED  BY <1>3, <1>4 DEF IInv

\* Publish: the event is owed to those registered, who have joined.
LEMMA PublishKeeps ==
  ASSUME IInv, Owes, got' = got, NEW n \in Seqno, Publish(n)
  PROVE  IInv'
<1>1. /\ n \notin published /\ published' = published \cup {n}
      /\ left' = left \cup ({n} \X hub)
      /\ UNCHANGED <<hub, open, closing, phase, queue, hand, wire, slow, cut>>
  BY DEF Publish
<1>2. \A c \in Conn : Accepted(c)' = Accepted(c) /\ (Distinct(c)' <=> Distinct(c))
  BY <1>1, SamePlaces
<1>3. \A c \in Conn, m \in Seqno : <<m, c>> \in left' <=> <<m, c>> \in left \/ (m = n /\ c \in hub)
  BY <1>1
<1>4. \A c \in Conn, m \in Seqno : OnTheWay(m, c) \/ Doomed(m, c) => OnTheWay(m, c)' \/ Doomed(m, c)'
  <2>1. \A c \in Conn, m \in Seqno : Doomed(m, c) => Doomed(m, c)'
    BY <1>1 DEF Doomed
  <2>2. \A c \in Conn, m \in Seqno : OnTheWay(m, c) => OnTheWay(m, c)'
    BY <1>2, <1>3 DEF OnTheWay
  <2>. QED  BY <2>1, <2>2
<1>5. left' \subseteq Seqno \X Conn
  BY <1>1 DEF IInv, HubTyped
<1>6. HubTyped' /\ NothingBeforeJoin' /\ NoSilentLoss'
  BY <1>1, <1>3, <1>4, <1>5, StillOwed DEF IInv, HubTyped, NothingBeforeJoin
<1>7. ASSUME NEW c \in Conn, NEW m \in Seqno
      PROVE  /\ <<m, c>> \in left' => m \in published' /\ m \notin Accepted(c)'
             /\ m \in Accepted(c)' => m \in published'
  <2>1. Accepted(c)' = Accepted(c) /\ (m \in Accepted(c) => m \in published)
    BY <1>2 DEF IInv, OnePlace
  <2>2. <<m, c>> \in left => m \in published /\ m \notin Accepted(c)
    BY DEF IInv, OnePlace
  <2>. QED  BY <1>1, <1>3, <2>1, <2>2
<1>8. OnePlace'
  BY <1>2, <1>7 DEF IInv, OnePlace
<1>. QED  BY <1>6, <1>8 DEF IInv

\* Send: the event joins the queue, or its publication will evict the connection.
LEMMA SendKeeps ==
  ASSUME IInv, Owes, got' = got, NEW n \in Seqno, NEW c \in Conn, Send(n, c)
  PROVE  IInv'
<1>1. /\ <<n, c>> \in left /\ left' = left \ {<<n, c>>}
      /\ UNCHANGED <<hub, open, closing, phase, hand, wire, published, cut>>
  BY DEF Send
<1>2. n \in published /\ n \notin Accepted(c)
  BY <1>1 DEF IInv, OnePlace
<1>3. \A d \in Conn, m \in Seqno :
        <<m, d>> \in left' <=> <<m, d>> \in left /\ ~ (m = n /\ d = c)
  BY <1>1
<1>4. CASE queue' = [queue EXCEPT ![c] = Append(@, n)] /\ UNCHANGED slow
  <2>1. /\ queue[c] \in Seq(Seqno) /\ queue'[c] = Append(queue[c], n)
        /\ Queued(c) = Elements(queue[c]) /\ NoRepeats(queue[c]) /\ Distinct(c)
    BY <1>4, WrittenFrames DEF IInv, HubTyped, OnePlace, Distinct
  <2>2. n \notin Queued(c)
    BY <1>2 DEF Accepted
  <2>3. /\ queue'[c] \in Seq(Seqno) /\ NoRepeats(queue'[c])
        /\ Elements(queue'[c]) = Elements(queue[c]) \cup {n}
    BY <2>1, <2>2, Appended
  <2>4. queue' \in [Conn -> Seq(Seqno)] /\ \A d \in Conn \ {c} : queue'[d] = queue[d]
    BY <1>4, <2>1, <2>3 DEF IInv, HubTyped
  <2>5. /\ Queued(c)' = Queued(c) \cup {n}
        /\ InHand(c)' = InHand(c) /\ Written(c)' = Written(c)
    BY <1>1, <2>1, <2>3 DEF Queued, Elements, InHand, Written
  <2>6. Accepted(c)' = Accepted(c) \cup {n}
    BY <2>5 DEF Accepted
  <2>7. Distinct(c)'
    BY <1>1, <1>2, <2>1, <2>3, <2>5 DEF Distinct, Accepted, NoRepeats
  <2>8. \A d \in Conn \ {c} : Accepted(d)' = Accepted(d) /\ (Distinct(d)' <=> Distinct(d))
    BY <1>1, <2>4, SamePlaces
  <2>9. \A d \in Conn, m \in Seqno : OnTheWay(m, d) \/ Doomed(m, d) => OnTheWay(m, d)' \/ Doomed(m, d)'
    BY <1>1, <1>3, <1>4, <2>6, <2>8 DEF OnTheWay, Doomed
  <2>10. HubTyped' /\ NothingBeforeJoin' /\ NoSilentLoss'
    BY <1>1, <2>4, <2>9, StillOwed DEF IInv, HubTyped, NothingBeforeJoin
  <2>11. OnePlace'
    BY <1>1, <1>2, <1>3, <2>6, <2>7, <2>8 DEF IInv, OnePlace
  <2>. QED  BY <2>10, <2>11 DEF IInv
<1>5. CASE slow' = slow \cup {<<n, c>>} /\ UNCHANGED queue
  <2>1. \A d \in Conn : Accepted(d)' = Accepted(d) /\ (Distinct(d)' <=> Distinct(d))
    BY <1>1, <1>5, SamePlaces
  <2>2. Doomed(n, c)' /\ \A d \in Conn, m \in Seqno : Doomed(m, d) => Doomed(m, d)'
    BY <1>1, <1>5 DEF Doomed
  <2>3. \A d \in Conn, m \in Seqno : OnTheWay(m, d) \/ Doomed(m, d) => OnTheWay(m, d)' \/ Doomed(m, d)'
    BY <1>3, <2>1, <2>2 DEF OnTheWay
  <2>4. HubTyped' /\ NothingBeforeJoin' /\ NoSilentLoss'
    BY <1>1, <1>5, <2>3, StillOwed DEF IInv, HubTyped, NothingBeforeJoin
  <2>5. OnePlace'
    BY <1>1, <1>3, <2>1 DEF IInv, OnePlace
  <2>. QED  BY <2>4, <2>5 DEF IInv
<1>. QED  BY <1>4, <1>5 DEF Send

\* The write pump takes the oldest event of the queue.
LEMMA PumpTakesKeeps ==
  ASSUME IInv, Owes, got' = got, NEW c \in Conn, PumpTakes(c)
  PROVE  IInv'
<1> DEFINE h == Head(queue[c])
<1>1. /\ hand[c] = 0 /\ queue[c] # << >>
      /\ hand' = [hand EXCEPT ![c] = h] /\ queue' = [queue EXCEPT ![c] = Tail(@)]
      /\ UNCHANGED <<hub, open, closing, phase, wire, published, left, slow, cut>>
  BY DEF PumpTakes, publicationVars
<1>2. /\ queue[c] \in Seq(Seqno) /\ Queued(c) = Elements(queue[c])
      /\ NoRepeats(queue[c]) /\ Distinct(c)
  BY WrittenFrames DEF IInv, HubTyped, OnePlace, Distinct
<1>3. /\ h \in Seqno /\ h \in Queued(c)
      /\ Tail(queue[c]) \in Seq(Seqno) /\ NoRepeats(Tail(queue[c]))
      /\ Elements(Tail(queue[c])) = Queued(c) \ {h}
  BY <1>1, <1>2, Tailed
<1>4. /\ queue'[c] = Tail(queue[c]) /\ hand'[c] = h
      /\ queue' \in [Conn -> Seq(Seqno)] /\ hand' \in [Conn -> 0..MaxSeq]
      /\ \A d \in Conn \ {c} : queue'[d] = queue[d] /\ hand'[d] = hand[d]
  BY <1>1, <1>3 DEF IInv, HubTyped, Seqno
<1>. HIDE DEF h
<1>5. /\ Queued(c)' = Queued(c) \ {h} /\ InHand(c)' = {h} /\ InHand(c) = {}
      /\ Written(c)' = Written(c)
  <2>1. Queued(c)' = Elements(queue'[c])
    BY DEF Queued, Elements
  <2>2. Written(c)' = Written(c)
    BY <1>1 DEF Written
  <2>3. InHand(c)' = {h} /\ InHand(c) = {}
    BY <1>1, <1>3, <1>4 DEF InHand, Seqno
  <2>. QED  BY <1>3, <1>4, <2>1, <2>2, <2>3
<1>6. Accepted(c)' = Accepted(c)
  BY <1>3, <1>5 DEF Accepted
<1>7. Distinct(c)'
  BY <1>1, <1>2, <1>3, <1>4, <1>5 DEF Distinct, NoRepeats
<1>. QED  BY <1>1, <1>4, <1>6, <1>7, EventMoves DEF IInv, HubTyped

\* and writes it, waits with it, or fails and closes the connection.
LEMMA PumpWriteJSONKeeps ==
  ASSUME IInv, Owes, got' = got, NEW c \in Conn, PumpWriteJSON(c)
  PROVE  IInv'
<1> DEFINE h == hand[c]
<1>1. /\ h \in Seqno /\ h \in InHand(c) /\ wire[c] \in Seq(Frame) /\ InHand(c) = {h}
      /\ Distinct(c)
  BY DEF PumpWriteJSON, PumpWrites, PumpWaits, PumpFails, IInv, HubTyped, InHand, Seqno, OnePlace
<1>2. CASE PumpWrites(c)
  <2>1. /\ wire' = [wire EXCEPT ![c] = Append(@, EventFrame(h))]
        /\ hand' = [hand EXCEPT ![c] = 0]
        /\ UNCHANGED <<hub, open, closing, phase, queue, published, left, slow, cut>>
    BY <1>2 DEF PumpWrites, WriteSucceeds, publicationVars
  <2>2. /\ wire'[c] = Append(wire[c], EventFrame(h)) /\ hand'[c] = 0
        /\ \A d \in Conn \ {c} : wire'[d] = wire[d] /\ hand'[d] = hand[d]
        /\ hand' \in [Conn -> 0..MaxSeq]
    BY <2>1 DEF IInv, HubTyped
  <2>. HIDE DEF h
  <2>3. EventFrame(h) \in Frame /\ EventFrame(h).seq = h /\ EventFrame(h) \notin Elements(wire[c])
    BY <1>1, WrittenFrames DEF IInv, Distinct
  <2>4. /\ wire'[c] \in Seq(Frame) /\ NoRepeats(wire'[c])
        /\ Elements(wire'[c]) = Elements(wire[c]) \cup {EventFrame(h)}
    BY <1>1, <2>2, <2>3, Appended DEF Distinct
  <2>5. wire' \in [Conn -> Seq(Frame)]
    BY <2>1, <2>2, <2>4 DEF IInv, HubTyped
  <2>6. Written(c)' = Written(c) \cup {h}
    <3>1. Written(c) = { f.seq : f \in Elements(wire[c]) }
      BY DEF Written, Elements
    <3>2. Written(c)' = { f.seq : f \in Elements(wire'[c]) }
      BY DEF Written, Elements
    <3>. QED  BY <2>3, <2>4, <3>1, <3>2
  <2>7. Queued(c)' = Queued(c) /\ InHand(c)' = {}
    BY <2>1, <2>2 DEF Queued, InHand
  <2>8. Accepted(c)' = Accepted(c)
    BY <1>1, <2>6, <2>7 DEF Accepted
  <2>9. Distinct(c)'
    BY <1>1, <2>1, <2>4, <2>6, <2>7 DEF Distinct, NoRepeats
  <2>. QED  BY <2>1, <2>2, <2>5, <2>8, <2>9, EventMoves DEF IInv, HubTyped
<1>3. CASE PumpWaits(c)
  <2>1. UNCHANGED <<hub, open, closing, phase, queue, hand, wire, published, left, slow, cut>>
    BY <1>3 DEF PumpWaits, WriteWaits, publicationVars
  <2>2. \A d \in Conn, n \in Seqno : Doomed(n, d) => Doomed(n, d)'
    BY <2>1 DEF Doomed
  <2>. QED  BY <2>1, <2>2, ConnectionsMove DEF IInv, HubTyped
<1>4. CASE PumpFails(c)
  <2>1. /\ hand' = [hand EXCEPT ![c] = 0] /\ open' = open \ {c}
        /\ UNCHANGED <<hub, closing, phase, queue, wire, published, left, slow, cut>>
    BY <1>4 DEF PumpFails, WriteFails, publicationVars
  <2>2. /\ hand'[c] = 0 /\ hand' \in [Conn -> 0..MaxSeq]
        /\ \A d \in Conn \ {c} : hand'[d] = hand[d]
    BY <2>1 DEF IInv, HubTyped
  <2>3. Queued(c)' = Queued(c) /\ InHand(c)' = {} /\ Written(c)' = Written(c)
    BY <2>1, <2>2 DEF Queued, InHand, Written
  <2>4. Accepted(c)' \subseteq Accepted(c)
    BY <2>3 DEF Accepted
  <2>5. Distinct(c)'
    BY <1>1, <2>1, <2>3 DEF Distinct, NoRepeats
  <2>. QED  BY <2>1, <2>2, <2>4, <2>5, EventMoves DEF IInv, HubTyped
<1>. QED  BY <1>2, <1>3, <1>4 DEF PumpWriteJSON

\* The peer reads the oldest frame.
LEMMA PeerReadsKeeps ==
  ASSUME IInv, NEW c \in Conn, PeerReads(c)
  PROVE  IInv'
<1> DEFINE f == Head(wire[c])
<1>1. /\ wire[c] # << >> /\ wire' = [wire EXCEPT ![c] = Tail(@)]
      /\ got' = [got EXCEPT ![c] = @ \cup {f.seq}]
      /\ UNCHANGED <<hub, open, closing, phase, queue, hand, published, left, slow, cut, owed>>
  BY DEF PeerReads, publicationVars
<1>2. Owes
  BY <1>1 DEF Owes, IInv, HubTyped
<1>3. wire[c] \in Seq(Frame) /\ NoRepeats(wire[c]) /\ Distinct(c)
  BY DEF IInv, HubTyped, OnePlace, Distinct
<1>4. /\ f \in Frame /\ f \in Elements(wire[c])
      /\ Tail(wire[c]) \in Seq(Frame) /\ NoRepeats(Tail(wire[c]))
      /\ Elements(Tail(wire[c])) = Elements(wire[c]) \ {f}
  BY <1>1, <1>3, Tailed
<1>5. /\ wire'[c] = Tail(wire[c]) /\ got'[c] = got[c] \cup {f.seq}
      /\ \A d \in Conn \ {c} : wire'[d] = wire[d] /\ got'[d] = got[d]
      /\ wire' \in [Conn -> Seq(Frame)]
  BY <1>1, <1>4 DEF IInv, HubTyped
<1>. HIDE DEF f
<1>6. f.seq \in Seqno /\ got' \in [Conn -> SUBSET Seqno]
  BY <1>1, <1>4 DEF Frame, IInv, HubTyped
<1>7. Written(c)' = Written(c) \ {f.seq} /\ f.seq \in Written(c)
  <2>1. Written(c) = { g.seq : g \in Elements(wire[c]) }
    BY DEF Written, Elements
  <2>2. Written(c)' = { g.seq : g \in Elements(wire'[c]) }
    BY DEF Written, Elements
  <2>3. \A g \in Elements(wire[c]) : g \in Frame
    BY <1>3 DEF Elements
  <2>4. \A g \in Frame : g.seq = f.seq => g = f
    BY <1>4 DEF Frame
  <2>. QED  BY <1>4, <1>5, <2>1, <2>2, <2>3, <2>4
<1>8. Queued(c)' = Queued(c) /\ InHand(c)' = InHand(c)
  BY <1>1 DEF Queued, InHand
<1>9. Accepted(c)' = Accepted(c)
  BY <1>5, <1>7, <1>8 DEF Accepted
<1>10. Distinct(c)'
  BY <1>1, <1>3, <1>4, <1>5, <1>7, <1>8 DEF Distinct, NoRepeats
<1>. QED  BY <1>1, <1>2, <1>5, <1>6, <1>9, <1>10, EventMoves DEF IInv, HubTyped

\* An eviction that panics takes the connection out of the hub, and the event is cut.
LEMMA EvictionPanicsKeeps ==
  ASSUME IInv, Owes, got' = got, NEW n \in Seqno, NEW c \in Conn, EvictionPanics(n, c)
  PROVE  IInv'
<1>1. /\ hub' = hub \ {c} /\ open' = open \ {c}
      /\ slow' = slow \ ({n} \X Conn) /\ cut' = cut \cup {n}
      /\ UNCHANGED <<closing, phase, queue, hand, wire, published, left>>
  BY DEF EvictionPanics
<1>2. ASSUME NEW d \in Conn, NEW m \in Seqno, Doomed(m, d) PROVE Doomed(m, d)'
  <2>1. CASE m = n
    BY <1>1, <2>1 DEF Doomed
  <2>2. CASE m # n
    BY <1>1, <1>2, <2>2 DEF Doomed
  <2>. QED  BY <2>1, <2>2
<1>. QED  BY <1>1, <1>2, ConnectionsMove DEF IInv, HubTyped

\* Every step of the hub and its connections.
LEMMA HubKeeps ==
  ASSUME IInv, Owes, got' = got, HubNext
  PROVE  IInv'
<1>1. ASSUME NEW c \in Conn, Join(c, "none", "serving")
      PROVE  IInv'
  <2>1. /\ phase[c] = "none" /\ phase' = [phase EXCEPT ![c] = "serving"]
        /\ hub' = hub \cup {c} /\ open' = open \cup {c}
        /\ UNCHANGED <<closing, queue, hand, wire, published, left, slow, cut>>
    BY <1>1 DEF Join, publicationVars
  <2>2. \A d \in Conn, n \in Seqno : phase[d] # "none" /\ Doomed(n, d) => Doomed(n, d)'
    BY <2>1 DEF Doomed
  <2>3. phase' \in [Conn -> Phases]
    BY <2>1 DEF IInv, HubTyped, Phases
  <2>. QED  BY <2>1, <2>2, <2>3, ConnectionsMove DEF IInv, HubTyped
<1>2. ASSUME NEW c \in Conn, CloseSink(c)
      PROVE  IInv'
  <2>1. /\ closing' = closing \ {c} /\ open' = open \ {c}
        /\ UNCHANGED <<hub, phase, queue, hand, wire, published, left, slow, cut>>
    BY <1>2 DEF CloseSink, publicationVars
  <2>2. \A d \in Conn, n \in Seqno : Doomed(n, d) => Doomed(n, d)'
    BY <2>1 DEF Doomed
  <2>. QED  BY <2>1, <2>2, ConnectionsMove DEF IInv, HubTyped
<1>3. ASSUME NEW c \in Conn, ReadPumpEnds(c) \/ ReadPumpPanics(c)
      PROVE  IInv'
  <2>1. /\ phase' = [phase EXCEPT ![c] = "leaving"] \/ phase' = [phase EXCEPT ![c] = "gone"]
        /\ open' = open \ {c}
        /\ UNCHANGED <<hub, closing, queue, hand, wire, published, left, slow, cut>>
    BY <1>3 DEF ReadPumpEnds, ReadPumpPanics, publicationVars
  <2>2. \A d \in Conn, n \in Seqno : Doomed(n, d) => Doomed(n, d)'
    BY <2>1 DEF Doomed
  <2>3. phase' \in [Conn -> Phases] /\ \A d \in Conn : phase'[d] = "none" => phase[d] = "none"
    BY <2>1 DEF IInv, HubTyped, Phases
  <2>. QED  BY <2>1, <2>2, <2>3, ConnectionsMove DEF IInv, HubTyped
<1>4. ASSUME NEW c \in Conn, LeaveHub(c)
      PROVE  IInv'
  <2>1. /\ phase' = [phase EXCEPT ![c] = "gone"] /\ hub' = hub \ {c}
        /\ UNCHANGED <<open, closing, queue, hand, wire, published, left, slow, cut>>
    BY <1>4 DEF LeaveHub, publicationVars
  <2>2. \A d \in Conn, n \in Seqno : Doomed(n, d) => Doomed(n, d)'
    BY <2>1 DEF Doomed
  <2>3. phase' \in [Conn -> Phases] /\ \A d \in Conn : phase'[d] = "none" => phase[d] = "none"
    BY <2>1 DEF IInv, HubTyped, Phases
  <2>. QED  BY <2>1, <2>2, <2>3, ConnectionsMove DEF IInv, HubTyped
<1>5. ASSUME NEW n \in Seqno, NEW c \in Conn, DropSlow(n, c)
      PROVE  IInv'
  <2>1. /\ slow' = slow \ {<<n, c>>} /\ hub' = hub \ {c} /\ closing' = closing \cup {c}
        /\ UNCHANGED <<open, phase, queue, hand, wire, published, left, cut>>
    BY <1>5 DEF DropSlow
  <2>2. ASSUME NEW d \in Conn, NEW m \in Seqno, Doomed(m, d)
        PROVE  Doomed(m, d)'
    <3>1. CASE d = c
      BY <2>1, <3>1 DEF Doomed
    <3>2. CASE d # c
      BY <2>1, <2>2, <3>2 DEF Doomed
    <3>. QED  BY <3>1, <3>2
  <2>. QED  BY <2>1, <2>2, ConnectionsMove DEF IInv, HubTyped
<1>6. ASSUME NEW d \in Elsewhere, WaitsElsewhere(d) \/ EndsElsewhere(d)
      PROVE  IInv'
  <2>1. UNCHANGED <<hub, open, closing, phase, queue, hand, wire, published, left, slow, cut>>
    BY <1>6 DEF WaitsElsewhere, EndsElsewhere, publicationVars
  <2>2. \A c \in Conn, n \in Seqno : Doomed(n, c) => Doomed(n, c)'
    BY <2>1 DEF Doomed
  <2>. QED  BY <2>1, <2>2, ConnectionsMove DEF IInv, HubTyped
<1>7. CASE CloseAll
  <2>1. /\ hub' = {} /\ closing' = closing \cup hub
        /\ UNCHANGED <<open, phase, queue, hand, wire, published, left, slow, cut>>
    BY <1>7 DEF CloseAll, publicationVars
  <2>2. \A c \in Conn, n \in Seqno : Doomed(n, c) => Doomed(n, c)'
    BY <2>1 DEF Doomed
  <2>. QED  BY <2>1, <2>2, ConnectionsMove DEF IInv, HubTyped
<1>8. ASSUME NEW n \in Seqno, FanOutStep(n)
      PROVE  IInv'
  BY <1>5, <1>8, SendKeeps, EvictionPanicsKeeps DEF FanOutStep
<1>9. ASSUME NEW c \in Conn, ConnStep(c)
      PROVE  IInv'
  BY <1>1, <1>2, <1>3, <1>4, <1>9, PumpTakesKeeps, PumpWriteJSONKeeps DEF ConnStep
<1>. QED  BY <1>6, <1>7, <1>8, <1>9, PublishKeeps DEF HubNext, PublishNext

\* Every reachable state satisfies the invariant: an event on its way to a
\* connection is in one place, and whoever was owed it can be shown where.
THEOREM HubInvariant == MCSpec => []IInv
<1>1. MCInit => IInv
  <2>. SUFFICES ASSUME MCInit PROVE IInv
    OBVIOUS
  <2>1. /\ hub = {} /\ left = {} /\ published = {}
        /\ phase = [c \in Conn |-> "none"] /\ owed = [c \in Conn |-> {}]
        /\ queue = [c \in Conn |-> << >>] /\ wire = [c \in Conn |-> << >>]
        /\ hand = [c \in Conn |-> 0] /\ got = [c \in Conn |-> {}]
    BY DEF MCInit, HubInit
  <2>2. \A c \in Conn : /\ queue[c] = << >> /\ wire[c] = << >> /\ got[c] = {}
                        /\ Queued(c) = {} /\ Written(c) = {} /\ InHand(c) = {}
    BY <2>1 DEF Queued, Written, InHand
  <2>3. HubTyped
    BY <2>1 DEF HubTyped, Phases
  <2>4. \A c \in Conn : Accepted(c) = {} /\ Distinct(c)
    BY <2>2 DEF Accepted, Distinct, NoRepeats
  <2>. QED  BY <2>1, <2>3, <2>4 DEF IInv, NothingBeforeJoin, NoSilentLoss, OnePlace
<1>2. IInv /\ [MCNext]_mcVars => IInv'
  <2>. SUFFICES ASSUME IInv, [MCNext]_mcVars PROVE IInv'
    OBVIOUS
  <2>1. CASE Recorded(HubNext)
    BY <2>1, HubKeeps DEF Recorded, Owes
  <2>2. ASSUME NEW c \in Conn, PeerReads(c)
        PROVE  IInv'
    BY <2>2, PeerReadsKeeps
  <2>3. CASE UNCHANGED mcVars
    <3>1. /\ UNCHANGED <<hub, open, closing, phase, queue, hand, wire, got, owed>>
          /\ UNCHANGED <<published, left, slow, cut>>
      BY <2>3 DEF mcVars, hubVars, publicationVars
    <3>2. Owes
      BY <3>1 DEF Owes, IInv, HubTyped
    <3>3. \A c \in Conn, n \in Seqno : Doomed(n, c) => Doomed(n, c)'
      BY <3>1 DEF Doomed
    <3>. QED  BY <3>1, <3>2, <3>3, ConnectionsMove DEF IInv, HubTyped
  <2>. QED  BY <2>1, <2>2, <2>3 DEF MCNext
<1>. QED  BY <1>1, <1>2, PTL DEF MCSpec

\* What a connection is owed has reached it, or is on its way to it or about to be
\* offered, unless it is being closed or the event's publication panicked.
THEOREM NothingIsLostSilently == MCSpec => []NoSilentLoss
<1>1. IInv => NoSilentLoss
  BY DEF IInv
<1>. QED  BY <1>1, HubInvariant, PTL

\* No event is queued, taken, written or read twice for one connection.
THEOREM EventsAreOfferedOnce == MCSpec => []AtMostOnce
<1>1. IInv => AtMostOnce
  BY DEF IInv, OnePlace, Distinct, NoRepeats, AtMostOnce
<1>. QED  BY <1>1, HubInvariant, PTL
=============================================================================
