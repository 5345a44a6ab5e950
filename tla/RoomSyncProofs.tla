--------------------------- MODULE RoomSyncProofs ---------------------------
(***************************************************************************)
(* Theorems about RoomSync: for every number of connections and events,    *)
(* every size of the buffers, every threshold, and retention, restarts and *)
(* lost frames at any moment.                                              *)
(***************************************************************************)
EXTENDS RoomSyncMC, Integers, FiniteSetTheorems, TLAPS

-----------------------------------------------------------------------------
(* The inductive invariant.  Each part bounds what one place holds by n,   *)
(* the room's current_seq: nothing anywhere is ahead of the log; and what  *)
(* a delta leaves out is older than o, the first event retained.           *)

\* A DELTA has every event it names, or retention has dropped all of them.
Fits(f, o) == Whole(f) \/ (f.events = << >> /\ f.to < o)

Frame(n, o) ==
  [type : {"HELLO"}, seq : 0..n] \cup [type : {"EVENT"}, seq : 1..n]
  \cup [type : {"ERROR"}]
  \cup [type : {"DELTA"}, applied : {FALSE}, events : {<< >>}]
  \cup { f \in [type : {"DELTA"}, applied : {TRUE}, from : Nat, to : Nat, events : Seq(1..n)] :
           Fits(f, o) }
  \cup { f \in [type : {"SNAPSHOT"}, seq : 0..n, rows : 0..n] : f.seq <= f.rows }

\* A RESYNC's locals; last is not ahead of cur, which was read after it.
JobNames == {"none", "floor", "answer", "snapshot", "write"}
Job(n, o) ==
  { j \in [job : JobNames, last : 0..n, cur : 0..n, floor : Nat, frame : Frame(n, o)] :
      j.last <= j.cur }

\* The rows are at least as new as the label of the snapshot they came with.
View(n) ==
  { v \in [base : 0..n, applied : Seq(1..n), snapshot : 0..n] : v.snapshot <= v.base }

Socket(positions) ==
  [pc : {"fetch", "ticket", "open", "backoff", "closed"},
   conn : Conn \cup {NoConn}, lastSeq : positions,
   closed : {"no", "disposed", "unauthenticated", "offline"}]

HubWithin(n) ==
  /\ hub \subseteq Conn
  /\ published \subseteq 1..n
  /\ left \subseteq (1..n) \X Conn
  /\ queue \in [Conn -> Seq(1..n)]
  /\ hand \in [Conn -> 0..n]
WireWithin(n, o) == wire \in [Conn -> Seq(Frame(n, o))]
UpWithin(n) == up \in [Conn -> Seq(0..n)]
HandlerWithin(n, o) == handler \in [Conn -> [hello : 0..n, resync : Job(n, o)]]
SocketWithin(n) == client \in Socket(0..n) /\ seen \in Seq(1..n)
ViewWithin(n) ==
  /\ view \in View(n)
  /\ act \in [pc : {"idle", "sent", "committed"}, sent : Nat, before : View(n), reply : 0..n]
LogTyped == seq \in Nat \ {0} /\ endSeq \in Nat /\ oldest \in Nat \ {0}

IInv ==
  /\ LogTyped
  /\ HubWithin(seq) /\ WireWithin(seq, oldest) /\ UpWithin(seq) /\ HandlerWithin(seq, oldest)
  /\ SocketWithin(seq) /\ ViewWithin(seq)

-----------------------------------------------------------------------------
(* What is within n is within n + 1.                                       *)

LEMMA SeqGrows ==
  ASSUME NEW S, NEW T, S \subseteq T
  PROVE  Seq(S) \subseteq Seq(T)
OBVIOUS

LEMMA FrameGrows ==
  ASSUME NEW n \in Nat, NEW m \in Nat, n <= m, NEW o \in Nat, NEW p \in Nat, o <= p
  PROVE  Frame(n, o) \subseteq Frame(m, p)
<1>1. 0..n \subseteq 0..m /\ 1..n \subseteq 1..m
  OBVIOUS
<1>2. Seq(1..n) \subseteq Seq(1..m)  BY <1>1, SeqGrows
<1> DEFINE a == 0..n  a1 == 0..m  b == 1..n  b1 == 1..m
<1> HIDE DEF a, a1, b, b1
<1>3. a \subseteq a1 /\ b \subseteq b1 /\ Seq(b) \subseteq Seq(b1)  BY <1>1, <1>2 DEF a, a1, b, b1
<1>4. /\ [type : {"HELLO"}, seq : a] \subseteq [type : {"HELLO"}, seq : a1]
      /\ [type : {"EVENT"}, seq : b] \subseteq [type : {"EVENT"}, seq : b1]
  BY <1>3
<1>5. [type : {"DELTA"}, applied : {TRUE}, from : Nat, to : Nat, events : Seq(b)]
        \subseteq [type : {"DELTA"}, applied : {TRUE}, from : Nat, to : Nat, events : Seq(b1)]
  BY <1>3
<1>6. ASSUME NEW f \in [type : {"DELTA"}, applied : {TRUE}, from : Nat, to : Nat, events : Seq(b)],
             Fits(f, o)
      PROVE  Fits(f, p)
  <2>1. f.to \in Nat  OBVIOUS
  <2>2. f.to < o => f.to < p  BY <2>1
  <2>3. QED  BY <1>6, <2>2 DEF Fits
<1>7. [type : {"SNAPSHOT"}, seq : a, rows : a]
        \subseteq [type : {"SNAPSHOT"}, seq : a1, rows : a1]
  BY <1>3
<1>8. QED  BY <1>4, <1>5, <1>6, <1>7 DEF Frame, a, a1, b, b1

LEMMA JobGrows ==
  ASSUME NEW n \in Nat, NEW m \in Nat, n <= m, NEW o \in Nat, NEW p \in Nat, o <= p
  PROVE  Job(n, o) \subseteq Job(m, p)
<1> DEFINE a == 0..n  a1 == 0..m  f == Frame(n, o)  f1 == Frame(m, p)
<1>1. a \subseteq a1 /\ f \subseteq f1  BY FrameGrows
<1> HIDE DEF a, a1, f, f1
<1>2. [job : JobNames, last : a, cur : a, floor : Nat, frame : f]
        \subseteq [job : JobNames, last : a1, cur : a1, floor : Nat, frame : f1]
  BY <1>1
<1>3. QED  BY <1>2 DEF Job, a, a1, f, f1

LEMMA ViewGrows ==
  ASSUME NEW n \in Nat  PROVE View(n) \subseteq View(n + 1)
<1> DEFINE a == 0..n  a1 == 0..(n + 1)  b == 1..n  b1 == 1..(n + 1)
<1>1. a \subseteq a1 /\ b \subseteq b1  OBVIOUS
<1> HIDE DEF a, a1, b, b1
<1>2. Seq(b) \subseteq Seq(b1)  BY <1>1, SeqGrows
<1>3. [base : a, applied : Seq(b), snapshot : a]
        \subseteq [base : a1, applied : Seq(b1), snapshot : a1]
  BY <1>1, <1>2
<1>4. QED  BY <1>3 DEF View, a, a1, b, b1

\* A function into sequences over S is one into sequences over a larger T.
LEMMA TableGrows ==
  ASSUME NEW S, NEW T, S \subseteq T, NEW f, f \in [Conn -> Seq(S)]
  PROVE  f \in [Conn -> Seq(T)]
  BY SeqGrows

\* The frames on the wire and the handlers stay within, as the log grows or ages.
LEMMA FramesAge ==
  ASSUME IInv, seq' \in Nat, seq <= seq', oldest' \in Nat, oldest <= oldest'
  PROVE  /\ UNCHANGED wire => WireWithin(seq, oldest)'
         /\ UNCHANGED handler => HandlerWithin(seq, oldest)'
<1>0. seq \in Nat /\ oldest \in Nat  BY DEF IInv, LogTyped
<1>1. /\ Frame(seq, oldest) \subseteq Frame(seq', oldest')
      /\ Job(seq, oldest) \subseteq Job(seq', oldest') /\ 0..seq \subseteq 0..seq'
  BY <1>0, FrameGrows, JobGrows
<1>2. UNCHANGED wire => WireWithin(seq, oldest)'
  BY <1>1, TableGrows DEF IInv, WireWithin
<1>3. UNCHANGED handler => HandlerWithin(seq, oldest)'
  <2> DEFINE a == 0..seq  b == 0..seq'  j == Job(seq, oldest)  k == Job(seq', oldest')
  <2>1. a \subseteq b /\ j \subseteq k  BY <1>1
  <2>2. handler \in [Conn -> [hello : a, resync : j]]  BY DEF IInv, HandlerWithin
  <2> HIDE DEF a, b, j, k
  <2>3. handler \in [Conn -> [hello : b, resync : k]]  BY <2>1, <2>2
  <2>4. QED  BY <2>3 DEF HandlerWithin, b, k
<1>4. QED  BY <1>2, <1>3

LEMMA Grows ==
  ASSUME IInv, seq' = seq + 1, oldest' = oldest
  PROVE  /\ UNCHANGED hubVars => HubWithin(seq)' /\ WireWithin(seq, oldest)'
         /\ UNCHANGED up => UpWithin(seq)'
         /\ UNCHANGED handler => HandlerWithin(seq, oldest)'
         /\ UNCHANGED <<client, seen>> => SocketWithin(seq)'
         /\ View(seq) \subseteq View(seq)'
<1>0. seq \in Nat /\ oldest \in Nat  BY DEF IInv, LogTyped
<1>1. 0..seq \subseteq 0..seq' /\ 1..seq \subseteq 1..seq'  BY <1>0
<1>2. UNCHANGED hubVars => HubWithin(seq)'
  <2>1. SUFFICES ASSUME UNCHANGED hubVars PROVE HubWithin(seq)'
    OBVIOUS
  <2>2. hub' = hub /\ published' = published /\ left' = left /\ queue' = queue /\ hand' = hand
    BY <2>1 DEF hubVars, publicationVars
  <2>3. queue' \in [Conn -> Seq(1..seq')]
    BY <1>1, <2>2, TableGrows DEF IInv, HubWithin
  <2>4. left' \subseteq (1..seq') \X Conn
    BY <1>1, <2>2 DEF IInv, HubWithin
  <2>5. hand' \in [Conn -> 0..seq']
    BY <1>1, <2>2 DEF IInv, HubWithin
  <2>6. QED  BY <1>1, <2>2, <2>3, <2>4, <2>5 DEF IInv, HubWithin
<1>3. /\ UNCHANGED hubVars => WireWithin(seq, oldest)'
      /\ UNCHANGED handler => HandlerWithin(seq, oldest)'
  BY <1>0, FramesAge DEF hubVars
<1>4. UNCHANGED up => UpWithin(seq)'  BY <1>1, TableGrows DEF IInv, UpWithin
<1>5. UNCHANGED <<client, seen>> => SocketWithin(seq)'
  <2>1. SUFFICES ASSUME UNCHANGED <<client, seen>> PROVE SocketWithin(seq)'
    OBVIOUS
  <2>2. seen' \in Seq(1..seq')  BY <1>1, <2>1, SeqGrows DEF IInv, SocketWithin
  <2>3. client' \in Socket(0..seq')
    <3> DEFINE a == 0..seq  b == 0..seq'
    <3>1. a \subseteq b /\ client \in Socket(a)  BY <1>1 DEF IInv, SocketWithin
    <3> HIDE DEF a, b
    <3>2. client \in Socket(b)  BY <3>1 DEF Socket
    <3>3. QED  BY <2>1, <3>2 DEF b
  <2>4. QED  BY <2>2, <2>3 DEF SocketWithin
<1>6. View(seq) \subseteq View(seq)'  BY <1>0, ViewGrows
<1>7. QED  BY <1>2, <1>3, <1>4, <1>5, <1>6

-----------------------------------------------------------------------------
(* Frames, one type at a time.                                             *)

LEMMA WrittenFrames ==
  ASSUME NEW n \in Nat, NEW o \in Nat
  PROVE  /\ \A k \in 0..n : HelloFrame(k) \in Frame(n, o)
         /\ \A k \in 1..n : EventFrame(k) \in Frame(n, o)
         /\ ErrorFrame \in Frame(n, o) /\ UpToDateFrame \in Frame(n, o)
         /\ \A k \in 0..n, r \in 0..n : k <= r => SnapshotFrame(k, r) \in Frame(n, o)
         /\ \A from, to \in Nat, s \in Seq(1..n) :
              Range(s) = from..to \/ (s = << >> /\ to < o) => DeltaFrame(from, to, s) \in Frame(n, o)
<1>1. \A k \in 0..n : HelloFrame(k) \in Frame(n, o)  BY DEF HelloFrame, Frame
<1>2. \A k \in 1..n : EventFrame(k) \in Frame(n, o)  BY DEF EventFrame, Frame
<1>3. ErrorFrame \in Frame(n, o)  BY DEF ErrorFrame, Frame
<1>4. UpToDateFrame \in Frame(n, o)  BY DEF UpToDateFrame, Frame
<1>5. \A k \in 0..n, r \in 0..n : k <= r => SnapshotFrame(k, r) \in Frame(n, o)
  BY DEF SnapshotFrame, Frame
<1>6. ASSUME NEW from \in Nat, NEW to \in Nat, NEW s \in Seq(1..n),
             Range(s) = from..to \/ (s = << >> /\ to < o)
      PROVE  DeltaFrame(from, to, s) \in Frame(n, o)
  <2> DEFINE f == DeltaFrame(from, to, s)
  <2>1. f \in [type : {"DELTA"}, applied : {TRUE}, from : Nat, to : Nat, events : Seq(1..n)]
    BY DEF DeltaFrame
  <2>2. f.events = s /\ f.from = from /\ f.to = to  BY DEF DeltaFrame
  <2> HIDE DEF f
  <2>3. Fits(f, o)  BY <1>6, <2>2 DEF Fits, Whole
  <2>4. f \in Frame(n, o)  BY <2>1, <2>3 DEF Frame
  <2>5. QED  BY <2>4 DEF f
<1>7. QED  BY <1>1, <1>2, <1>3, <1>4, <1>5, <1>6

LEMMA FrameFacts ==
  ASSUME NEW n \in Nat, NEW o \in Nat, NEW f \in Frame(n, o)
  PROVE  /\ f.type = "EVENT" => f.seq \in 1..n
         /\ f.type = "SNAPSHOT" => f.seq \in 0..n /\ f.rows \in 0..n /\ f.seq <= f.rows
         /\ f.type = "DELTA" => f.events \in Seq(1..n)
         /\ f.type = "DELTA" /\ f.applied => Fits(f, o)
<1>1. f.type = "EVENT" => f.seq \in 1..n  BY DEF Frame
<1>2. f.type = "SNAPSHOT" => f.seq \in 0..n /\ f.rows \in 0..n /\ f.seq <= f.rows
  BY DEF Frame
<1>3. f.type = "DELTA" => f.events \in Seq(1..n)
  <2>1. << >> \in Seq(1..n)  OBVIOUS
  <2>2. QED  BY <2>1 DEF Frame
<1>4. f.type = "DELTA" /\ f.applied => Fits(f, o)
  BY DEF Frame
<1>5. QED  BY <1>1, <1>2, <1>3, <1>4

\* Writing and reading one frame of one connection.
LEMMA Appended ==
  ASSUME NEW S, NEW t, t \in [Conn -> Seq(S)], NEW c \in Conn, NEW e \in S
  PROVE  [t EXCEPT ![c] = Append(@, e)] \in [Conn -> Seq(S)]
OBVIOUS

LEMMA Tailed ==
  ASSUME NEW S, NEW t, t \in [Conn -> Seq(S)], NEW c \in Conn, t[c] # << >>
  PROVE  [t EXCEPT ![c] = Tail(@)] \in [Conn -> Seq(S)] /\ Head(t[c]) \in S
OBVIOUS

LEMMA Emptied ==
  ASSUME NEW S, NEW t, t \in [Conn -> Seq(S)], NEW c \in Conn
  PROVE  [t EXCEPT ![c] = << >>] \in [Conn -> Seq(S)]
OBVIOUS

-----------------------------------------------------------------------------
(* The server.                                                             *)

LEMMA Stays ==
  ASSUME IInv, seq' = seq, oldest' = oldest
  PROVE  /\ UNCHANGED <<hub, published, left, queue, hand>> => HubWithin(seq)'
         /\ UNCHANGED wire => WireWithin(seq, oldest)'
         /\ UNCHANGED up => UpWithin(seq)'
         /\ UNCHANGED handler => HandlerWithin(seq, oldest)'
         /\ UNCHANGED <<client, seen>> => SocketWithin(seq)'
         /\ UNCHANGED <<view, act>> => ViewWithin(seq)'
         /\ UNCHANGED endSeq => LogTyped'
<1>1. UNCHANGED <<hub, published, left, queue, hand>> => HubWithin(seq)'
  BY DEF IInv, HubWithin
<1>2. UNCHANGED wire => WireWithin(seq, oldest)'  BY DEF IInv, WireWithin
<1>3. UNCHANGED up => UpWithin(seq)'  BY DEF IInv, UpWithin
<1>4. UNCHANGED handler => HandlerWithin(seq, oldest)'  BY DEF IInv, HandlerWithin
<1>5. UNCHANGED <<client, seen>> => SocketWithin(seq)'  BY DEF IInv, SocketWithin
<1>6. UNCHANGED <<view, act>> => ViewWithin(seq)'  BY DEF IInv, ViewWithin
<1>7. UNCHANGED endSeq => LogTyped'  BY DEF IInv, LogTyped
<1>8. QED  BY <1>1, <1>2, <1>3, <1>4, <1>5, <1>6, <1>7

\* Whoever writes, and however the write ends, the wire gets one frame or none.
LEMMA WriteKeeps ==
  ASSUME IInv, seq' = seq, oldest' = oldest, NEW c \in Conn, NEW by, NEW frame \in Frame(seq, oldest),
         WriteSucceeds(c, by, frame) \/ WriteWaits(c, by) \/ WriteFails(c, by)
  PROVE  WireWithin(seq, oldest)'
<1>1. wire \in [Conn -> Seq(Frame(seq, oldest))]  BY DEF IInv, WireWithin
<1>2. CASE WriteSucceeds(c, by, frame)
  <2>1. wire' = [wire EXCEPT ![c] = Append(@, frame)]  BY <1>2 DEF WriteSucceeds
  <2>2. wire' \in [Conn -> Seq(Frame(seq, oldest))]  BY <1>1, <2>1, Appended
  <2>3. QED  BY <2>2 DEF WireWithin
<1>3. CASE WriteWaits(c, by) \/ WriteFails(c, by)
  BY <1>1, <1>3 DEF WriteWaits, WriteFails, WireWithin
<1>4. QED  BY <1>2, <1>3

LEMMA JobSet ==
  ASSUME IInv, seq' = seq, oldest' = oldest, NEW c \in Conn, NEW j \in Job(seq, oldest), Goes(c, j)
  PROVE  HandlerWithin(seq, oldest)'
<1> DEFINE h == 0..seq  k == Job(seq, oldest)
<1>1. handler \in [Conn -> [hello : h, resync : k]] /\ j \in k
  BY DEF IInv, HandlerWithin
<1>2. handler' = [handler EXCEPT ![c].resync = j]  BY DEF Goes
<1> HIDE DEF h, k
<1>3. handler' \in [Conn -> [hello : h, resync : k]]  BY <1>1, <1>2
<1>4. QED  BY <1>3 DEF HandlerWithin, h, k

LEMMA NoJobIsJob ==
  ASSUME NEW n \in Nat, NEW o \in Nat
  PROVE  NoJob \in Job(n, o) /\ \A f \in Frame(n, o) : Writing(f) \in Job(n, o)
<1> DEFINE F == Frame(n, o)
<1>1. ErrorFrame \in F /\ 0 \in 0..n /\ 0 <= 0  BY WrittenFrames
<1> HIDE DEF F
<1>2. QED  BY <1>1 DEF NoJob, Writing, Job, JobNames, F

LEMMA JobFacts ==
  ASSUME IInv, NEW c \in Conn
  PROVE  /\ Resync(c) \in Job(seq, oldest)
         /\ Resync(c).job \in JobNames
         /\ Resync(c).last \in 0..seq /\ Resync(c).cur \in 0..seq /\ Resync(c).floor \in Nat
         /\ Resync(c).last <= Resync(c).cur /\ Resync(c).frame \in Frame(seq, oldest)
<1> DEFINE h == 0..seq  k == Job(seq, oldest)
<1>1. handler \in [Conn -> [hello : h, resync : k]]
  BY DEF IInv, HandlerWithin
<1> HIDE DEF h, k
<1>2. Resync(c) \in k  BY <1>1 DEF Resync
<1>3. QED  BY <1>2 DEF k, Job

LEMMA IntervalIsSeq ==
  ASSUME NEW n \in Nat, NEW from \in 1..(n + 1), NEW to \in 0..n
  PROVE  Interval(from, to) \in Seq(1..n)
<1>1. CASE to < from
  <2>1. 0 \in Nat  OBVIOUS
  <2>2. Interval(from, to) = << >>  BY <1>1 DEF Interval
  <2>3. QED  BY <2>2
<1>2. CASE ~(to < from)
  <2> DEFINE k == to - from + 1
  <2>1. k \in Nat /\ Interval(from, to) = [i \in 1..k |-> from + i - 1]
    BY <1>2 DEF Interval
  <2>2. ASSUME NEW i \in 1..k  PROVE from + i - 1 \in 1..n
    BY <1>2
  <2> HIDE DEF k
  <2>3. [i \in 1..k |-> from + i - 1] \in Seq(1..n)  BY <2>1, <2>2
  <2>4. QED  BY <2>1, <2>3
<1>3. QED  BY <1>1, <1>2

\* The events read for a delta that fits are all that were asked for, or, because
\* retention has passed the position told, none.
LEMMA DeltaIsFrame ==
  ASSUME IInv, NEW c \in Conn, Mode(c) = "DELTA", DeltaFits(c)
  PROVE  DeltaFrame(Resync(c).last + 1, Resync(c).cur, DeltaEvents(c)) \in Frame(seq, oldest)
<1> DEFINE l == Resync(c).last  m == Resync(c).cur  e == DeltaEvents(c)  f == Larger(l + 1, oldest)
<1>0. seq \in Nat /\ oldest \in Nat \ {0}  BY DEF IInv, LogTyped
<1>1. l \in 0..seq /\ m \in 0..seq /\ e = Interval(f, m)
  BY JobFacts DEF DeltaEvents, EventsSince
<1>2. l < m
  <2> DEFINE q == Resync(c).floor
  <2>1. DecideResync(l, m, q) = "DELTA"  BY DEF Mode
  <2> HIDE DEF l, m, q
  <2>2. ~(l > m) /\ l # m  BY <2>1 DEF DecideResync
  <2>3. QED  BY <1>0, <1>1, <2>2
<1>3. \A k \in DOMAIN e : e[k] = (l + 1) + k - 1
  BY DEF DeltaFits, VerifyContiguous
<1>4. f \in Nat /\ f >= 1 /\ (f = l + 1 \/ f = oldest)
  BY <1>0, <1>1 DEF Larger
<1>. HIDE DEF l, m, e, f
<1>5. CASE m < f
  <2>1. e = << >>  BY <1>1, <1>5 DEF Interval
  <2>2. m < oldest  BY <1>0, <1>1, <1>2, <1>4, <1>5
  <2>3. l + 1 \in Nat /\ m \in Nat /\ e \in Seq(1..seq)  BY <1>0, <1>1, <2>1
  <2> DEFINE k == l + 1
  <2>4. k \in Nat  BY <2>3
  <2> HIDE DEF k
  <2>5. DeltaFrame(k, m, e) \in Frame(seq, oldest)
    BY <1>0, <2>1, <2>2, <2>3, <2>4, WrittenFrames
  <2>6. QED  BY <2>5 DEF k, l, m, e
<1>6. CASE ~(m < f)
  <2> DEFINE k == m - f + 1
  <2>1. k \in Nat \ {0} /\ e = [i \in 1..k |-> f + i - 1]
    BY <1>0, <1>1, <1>4, <1>6 DEF Interval
  <2>2. 1 \in DOMAIN e /\ e[1] = f  BY <1>4, <2>1
  <2>3. f = l + 1  BY <1>0, <1>1, <1>3, <1>4, <2>2
  <2>4. Range(e) = (l + 1)..m
    <3>1. ASSUME NEW x \in (l + 1)..m  PROVE x \in Range(e)
      <4>1. x - l \in DOMAIN e /\ e[x - l] = x  BY <1>0, <1>1, <2>1, <2>3
      <4>2. QED  BY <4>1 DEF Range
    <3>2. ASSUME NEW i \in DOMAIN e  PROVE e[i] \in (l + 1)..m
      BY <1>0, <1>1, <2>1, <2>3
    <3>3. QED  BY <3>1, <3>2 DEF Range
  <2>5. f \in 1..(seq + 1)  BY <1>0, <1>1, <1>4, <1>6
  <2>6. e \in Seq(1..seq)  BY <1>0, <1>1, <2>5, IntervalIsSeq
  <2>7. DeltaFrame(l + 1, m, e) \in Frame(seq, oldest)
    BY <1>0, <1>1, <2>4, <2>6, WrittenFrames
  <2>8. QED  BY <2>7 DEF l, m, e
<1>7. QED  BY <1>5, <1>6

LEMMA FailureKeeps ==
  ASSUME IInv, seq' = seq, oldest' = oldest, NEW c \in Conn, QueryFails(c)
  PROVE  HandlerWithin(seq, oldest)'
<1>1. seq \in Nat /\ oldest \in Nat  BY DEF IInv, LogTyped
<1>2. Writing(ErrorFrame) \in Job(seq, oldest)
  BY <1>1, WrittenFrames, NoJobIsJob
<1>3. QED  BY <1>2, JobSet DEF QueryFails

\* Whatever handleResync goes on to write is within the log, has rows at least as
\* new as its label, or has the events it names.
LEMMA AnswerKeeps ==
  ASSUME IInv, NEW c \in Conn, AnswerResync(c)
  PROVE  HandlerWithin(seq, oldest)'
<1>0. /\ seq \in Nat /\ oldest \in Nat /\ seq' = seq /\ oldest' = oldest /\ seq \in 0..seq
      /\ Resync(c).cur \in 0..seq /\ Resync(c).cur <= seq
  BY JobFacts DEF IInv, LogTyped, AnswerResync, logVars
<1>1. CASE UpToDate(c)
  <2>1. Writing(UpToDateFrame) \in Job(seq, oldest)  BY <1>0, WrittenFrames, NoJobIsJob
  <2>2. QED  BY <1>0, <1>1, <2>1, JobSet DEF UpToDate
<1>2. CASE ReadEvents(c)
  <2> DEFINE f == DeltaFrame(Resync(c).last + 1, Resync(c).cur, DeltaEvents(c))
             j == [Resync(c) EXCEPT !.job = "snapshot"]
  <2>1. DeltaFits(c) => f \in Frame(seq, oldest)
    BY <1>2, DeltaIsFrame DEF ReadEvents
  <2>2. j \in Job(seq, oldest)
    <3> DEFINE F == Frame(seq, oldest)
    <3>1. Resync(c) \in { r \in [job : JobNames, last : 0..seq, cur : 0..seq, floor : Nat, frame : F] :
                            r.last <= r.cur }
      BY JobFacts DEF Job
    <3> HIDE DEF F
    <3>2. QED  BY <3>1 DEF Job, JobNames, F
  <2>3. (DeltaFits(c) /\ Goes(c, Writing(f))) \/ Goes(c, j)
    BY <1>2 DEF ReadEvents
  <2> HIDE DEF f, j
  <2>4. DeltaFits(c) => Writing(f) \in Job(seq, oldest)  BY <1>0, <2>1, NoJobIsJob
  <2>5. QED  BY <1>0, <2>2, <2>3, <2>4, JobSet
<1>3. CASE ReadSnapshot(c)
  <2>1. SnapshotRead(c) \in Frame(seq, oldest)  BY <1>0, WrittenFrames DEF SnapshotRead
  <2>2. Writing(SnapshotRead(c)) \in Job(seq, oldest)  BY <1>0, <2>1, NoJobIsJob
  <2>3. QED  BY <1>0, <1>3, <2>2, FailureKeeps, JobSet DEF ReadSnapshot
<1>4. QED  BY <1>1, <1>2, <1>3 DEF AnswerResync

\* Every step of a connection's handler and pumps.
LEMMA ServerStepKeeps ==
  ASSUME IInv, NEW c \in Conn, ServerStep(c)
  PROVE  IInv'
<1>0. /\ seq \in Nat /\ seq \in 0..seq /\ oldest \in Nat
      /\ wire \in [Conn -> Seq(Frame(seq, oldest))] /\ up \in [Conn -> Seq(0..seq)]
      /\ NoJob \in Job(seq, oldest) /\ Writing(ErrorFrame) \in Job(seq, oldest)
  <2>1. seq \in Nat /\ oldest \in Nat  BY DEF IInv, LogTyped
  <2>2. QED  BY <2>1, NoJobIsJob, WrittenFrames DEF IInv, WireWithin, UpWithin
<1>1. seq' = seq /\ oldest' = oldest /\ LogTyped' /\ ViewWithin(seq)'
  <2>1. UNCHANGED <<logVars, view, act>>
    BY DEF ServerStep, Accept, Refuse, Register, Hello, Expire, ResyncStep, ReadMembership,
           ReadFloor, AnswerResync, WriteControl, ConnectionStep, HubOnly, clientVars
  <2>2. QED  BY <2>1, Stays DEF logVars
<1>2. CASE Accept(c)
  <2>1. /\ UNCHANGED <<hub, published, left, queue, hand>> /\ UNCHANGED <<wire, up, client, seen>>
        /\ handler' = [handler EXCEPT ![c].hello = seq]
    BY <1>2 DEF Accept, clientVars, publicationVars
  <2>2. HandlerWithin(seq, oldest)'
    <3> DEFINE h == 0..seq  k == Job(seq, oldest)
    <3>1. handler \in [Conn -> [hello : h, resync : k]] /\ seq \in h
      BY <1>0 DEF IInv, HandlerWithin
    <3> HIDE DEF h, k
    <3>2. handler' \in [Conn -> [hello : h, resync : k]]  BY <2>1, <3>1
    <3>3. QED  BY <1>1, <3>2 DEF HandlerWithin, h, k
  <2>3. QED  BY <1>1, <2>1, <2>2, Stays DEF IInv
<1>3. CASE Refuse(c)
  <2>1. /\ UNCHANGED <<hub, published, left, queue, hand>> /\ UNCHANGED <<wire, up, handler, seen>>
        /\ client' = [client EXCEPT !.conn = NoConn,
             !.pc = IF client.closed = "disposed" THEN "closed" ELSE "backoff"]
    BY <1>3 DEF Refuse, hubVars, serverVars, publicationVars
  <2>2. SocketWithin(seq)'
    <3> DEFINE a == 0..seq
    <3>1. client \in Socket(a)  BY DEF IInv, SocketWithin
    <3> HIDE DEF a
    <3>2. client' \in Socket(a)  BY <2>1, <3>1 DEF Socket
    <3>3. QED  BY <1>1, <2>1, <3>2 DEF SocketWithin, IInv, a
  <2>3. QED  BY <1>1, <2>1, <2>2, Stays DEF IInv
\* The hub's part of a step, with the wire or without.
<1>4. /\ hub \subseteq Conn /\ queue \in [Conn -> Seq(1..seq)] /\ hand \in [Conn -> 0..seq]
  BY DEF IInv, HubWithin
<1>5. ASSUME UNCHANGED <<up, handler, client, seen, published, left>>,
             hub' \subseteq Conn, queue' \in [Conn -> Seq(1..seq)], hand' \in [Conn -> 0..seq],
             WireWithin(seq, oldest)'
      PROVE  IInv'
  <2>1. HubWithin(seq)'  BY <1>1, <1>5 DEF IInv, HubWithin
  <2>2. QED  BY <1>1, <1>5, <2>1, Stays DEF IInv
<1>6. ASSUME UNCHANGED <<up, handler, client, seen, published, left, wire>>,
             hub' \subseteq Conn, queue' \in [Conn -> Seq(1..seq)], hand' \in [Conn -> 0..seq]
      PROVE  IInv'
  BY <1>1, <1>5, <1>6, Stays
<1>7. CASE Register(c)
  BY <1>4, <1>6, <1>7 DEF Register, HubOnly, Join, clientVars, serverVars, publicationVars
<1>8. CASE Expire(c)
  BY <1>4, <1>6, <1>8 DEF Expire, clientVars, hubVars, publicationVars
<1>9. CASE Hello(c)
  <2>1. handler[c].hello \in 0..seq
    <3> DEFINE h == 0..seq  k == Job(seq, oldest)
    <3>1. handler \in [Conn -> [hello : h, resync : k]]  BY DEF IInv, HandlerWithin
    <3> HIDE DEF h, k
    <3>2. handler[c].hello \in h  BY <3>1
    <3>3. QED  BY <3>2 DEF h
  <2>2. HelloFrame(handler[c].hello) \in Frame(seq, oldest)  BY <1>0, <2>1, WrittenFrames
  <2>3. WireWithin(seq, oldest)'
    <3> DEFINE f == HelloFrame(handler[c].hello)
    <3>1. f \in Frame(seq, oldest)  BY <2>2
    <3>2. WriteSucceeds(c, "control", f) \/ WriteWaits(c, "control") \/ WriteFails(c, "control")
      BY <1>9 DEF Hello
    <3> HIDE DEF f
    <3>3. QED  BY <1>1, <3>1, <3>2, WriteKeeps
  <2>4. /\ hub' \subseteq hub
        /\ UNCHANGED <<published, left, queue, hand, client, seen, up>>
        /\ UNCHANGED handler \/ handler' = [handler EXCEPT ![c].hello = 0]
    BY <1>9 DEF Hello, clientVars, publicationVars
  <2>5. HubWithin(seq)'  BY <1>1, <1>4, <2>4 DEF IInv, HubWithin
  <2>6. HandlerWithin(seq, oldest)'
    <3> DEFINE h == 0..seq  k == Job(seq, oldest)
    <3>1. handler \in [Conn -> [hello : h, resync : k]] /\ 0 \in h
      BY <1>0 DEF IInv, HandlerWithin
    <3> HIDE DEF h, k
    <3>2. handler' \in [Conn -> [hello : h, resync : k]]  BY <2>4, <3>1
    <3>3. QED  BY <1>1, <3>2 DEF HandlerWithin, h, k
  <2>7. QED  BY <1>1, <2>3, <2>4, <2>5, <2>6, Stays DEF IInv
<1>10. CASE ConnectionStep(c)
  <2>1. UNCHANGED <<up, handler, client, seen>>
    BY <1>10 DEF ConnectionStep, HubOnly, clientVars, serverVars
  <2>2. CASE CloseSink(c)
    BY <1>4, <1>6, <2>1, <2>2 DEF CloseSink, publicationVars
  <2>3. CASE PumpTakes(c)
    <3>1. /\ queue[c] # << >> /\ queue' = [queue EXCEPT ![c] = Tail(@)]
          /\ hand' = [hand EXCEPT ![c] = Head(queue[c])]
          /\ UNCHANGED <<hub, published, left, wire>>
      BY <2>3 DEF PumpTakes, publicationVars
    <3>2. queue' \in [Conn -> Seq(1..seq)] /\ Head(queue[c]) \in 1..seq
      BY <1>4, <3>1, Tailed
    <3>3. hand' \in [Conn -> 0..seq]  BY <1>0, <1>4, <3>1, <3>2
    <3>4. QED  BY <1>4, <1>6, <2>1, <3>1, <3>2, <3>3
  <2>4. CASE PumpWriteJSON(c)
    <3> DEFINE f == EventFrame(hand[c])
    <3>1. /\ hand[c] # 0 /\ UNCHANGED <<hub, queue, published, left>>
          /\ hand' = hand \/ hand' = [hand EXCEPT ![c] = 0]
      BY <2>4 DEF PumpWriteJSON, PumpWrites, PumpWaits, PumpFails, publicationVars
    <3>2. WriteSucceeds(c, "pump", f) \/ WriteWaits(c, "pump") \/ WriteFails(c, "pump")
      BY <2>4 DEF PumpWriteJSON, PumpWrites, PumpWaits, PumpFails
    <3>3. hand[c] \in 1..seq  BY <1>0, <1>4, <3>1
    <3>4. f \in Frame(seq, oldest)  BY <1>0, <3>3, WrittenFrames
    <3> HIDE DEF f
    <3>5. WireWithin(seq, oldest)'  BY <1>1, <3>2, <3>4, WriteKeeps
    <3>6. hand' \in [Conn -> 0..seq]
      <4> DEFINE a == 0..seq
      <4>1. 0 \in a /\ hand \in [Conn -> a]  BY <1>0, <1>4
      <4> HIDE DEF a
      <4>2. hand' \in [Conn -> a]  BY <3>1, <4>1
      <4>3. QED  BY <4>2 DEF a
    <3>7. QED  BY <1>4, <1>5, <2>1, <3>1, <3>5, <3>6
  <2>5. CASE ReadPumpEnds(c) \/ ReadPumpPanics(c)
    BY <1>4, <1>6, <2>1, <2>5 DEF ReadPumpEnds, ReadPumpPanics, publicationVars
  <2>6. CASE LeaveHub(c)
    BY <1>4, <1>6, <2>1, <2>6 DEF LeaveHub, publicationVars
  <2>7. QED
    BY <1>10, <2>2, <2>3, <2>4, <2>5, <2>6 DEF ConnectionStep, HubOnly
\* handleResync: its locals move on, or its answer is written.
<1>11. ASSUME UNCHANGED <<hub, published, left, queue, hand>>, UNCHANGED <<client, seen>>,
              WireWithin(seq, oldest)', HandlerWithin(seq, oldest)', UpWithin(seq)'
       PROVE  IInv'
  BY <1>1, <1>11, Stays DEF IInv
<1>12. CASE ReadMembership(c)
  <2>1. /\ up[c] # << >> /\ up' = [up EXCEPT ![c] = Tail(@)]
        /\ UNCHANGED <<hub, published, left, queue, hand>> /\ UNCHANGED wire
        /\ UNCHANGED <<client, seen>>
    BY <1>12 DEF ReadMembership, clientVars, hubVars, publicationVars
  <2>2. up' \in [Conn -> Seq(0..seq)] /\ Head(up[c]) \in 0..seq
    BY <1>0, <2>1, Tailed
  <2>3. UpWithin(seq)' /\ WireWithin(seq, oldest)'  BY <1>1, <2>1, <2>2, Stays DEF UpWithin
  <2>4. HandlerWithin(seq, oldest)'
    <3>1. CASE QueryFails(c)  BY <1>1, <3>1, FailureKeeps
    <3>2. CASE Goes(c, Writing(ErrorFrame))  BY <1>0, <1>1, <3>2, JobSet
    <3>3. CASE Goes(c, [NoJob EXCEPT !.job = "floor", !.last = Head(up[c]), !.cur = seq])
      <4> DEFINE j == [NoJob EXCEPT !.job = "floor", !.last = Head(up[c]), !.cur = seq]
      <4>1. j \in Job(seq, oldest)
        <5> DEFINE F == Frame(seq, oldest)
        <5>1. Head(up[c]) <= seq /\ NoJob \in [job : JobNames, last : 0..seq, cur : 0..seq,
                                               floor : Nat, frame : F]
          BY <1>0, <2>2 DEF Job
        <5> HIDE DEF F
        <5>2. QED  BY <1>0, <2>2, <5>1 DEF Job, JobNames, F
      <4> HIDE DEF j
      <4>2. Goes(c, j)  BY <3>3 DEF j
      <4>3. QED  BY <1>1, <4>1, <4>2, JobSet
    <3>4. QED  BY <1>12, <3>1, <3>2, <3>3 DEF ReadMembership
  <2>5. QED  BY <1>11, <2>1, <2>3, <2>4
<1>13. CASE ReadFloor(c)
  <2>1. HandlerWithin(seq, oldest)'
    <3>1. CASE QueryFails(c)  BY <1>1, <3>1, FailureKeeps
    <3>2. CASE Goes(c, [Resync(c) EXCEPT !.job = "answer", !.floor = OldestRetainedSeq])
      <4> DEFINE j == [Resync(c) EXCEPT !.job = "answer", !.floor = OldestRetainedSeq]
      <4>1. OldestRetainedSeq \in Nat  BY DEF OldestRetainedSeq, IInv, LogTyped
      <4>2. j \in Job(seq, oldest)
        <5> DEFINE F == Frame(seq, oldest)
        <5>1. Resync(c) \in { r \in [job : JobNames, last : 0..seq, cur : 0..seq, floor : Nat,
                                     frame : F] : r.last <= r.cur }
          BY JobFacts DEF Job
        <5> HIDE DEF F
        <5>2. QED  BY <4>1, <5>1 DEF Job, JobNames, F
      <4> HIDE DEF j
      <4>3. Goes(c, j)  BY <3>2 DEF j
      <4>4. QED  BY <1>1, <4>2, <4>3, JobSet
    <3>3. QED  BY <1>13, <3>1, <3>2 DEF ReadFloor
  <2>2. /\ UNCHANGED <<hub, published, left, queue, hand>> /\ UNCHANGED wire /\ UNCHANGED up
        /\ UNCHANGED <<client, seen>>
    BY <1>13 DEF ReadFloor, clientVars, hubVars, publicationVars
  <2>3. QED  BY <1>1, <1>11, <2>1, <2>2, Stays
<1>14. CASE AnswerResync(c)
  <2>1. HandlerWithin(seq, oldest)'  BY <1>14, AnswerKeeps
  <2>2. /\ UNCHANGED <<hub, published, left, queue, hand>> /\ UNCHANGED wire /\ UNCHANGED up
        /\ UNCHANGED <<client, seen>>
    BY <1>14 DEF AnswerResync, clientVars, hubVars, publicationVars
  <2>3. QED  BY <1>1, <1>11, <2>1, <2>2, Stays
<1>15. CASE WriteControl(c)
  <2>1. Resync(c).frame \in Frame(seq, oldest)  BY JobFacts
  <2>2. /\ \/ WriteSucceeds(c, "control", Resync(c).frame)
           \/ WriteWaits(c, "control") \/ WriteFails(c, "control")
        /\ Goes(c, NoJob) \/ UNCHANGED handler
        /\ UNCHANGED <<hub, published, left, queue, hand>> /\ UNCHANGED up
        /\ UNCHANGED <<client, seen>>
    BY <1>15 DEF WriteControl, clientVars, publicationVars
  <2>3. WireWithin(seq, oldest)'  BY <1>1, <2>1, <2>2, WriteKeeps
  <2>4. HandlerWithin(seq, oldest)'  BY <1>0, <1>1, <2>2, JobSet, Stays
  <2>5. QED  BY <1>1, <1>11, <2>2, <2>3, <2>4, Stays
<1>16. QED
  BY <1>2, <1>3, <1>7, <1>8, <1>9, <1>10, <1>12, <1>13, <1>14, <1>15 DEF ServerStep, ResyncStep

\* Commits, publications, retention and restarts.
LEMMA LogStepKeeps ==
  ASSUME IInv, LogStep
  PROVE  IInv'
<1>0. seq \in Nat \ {0} /\ endSeq \in Nat /\ oldest \in Nat \ {0}  BY DEF IInv, LogTyped
<1>1. CASE Commit
  <2>1. /\ seq' = seq + 1 /\ endSeq' \in {0, seq + 1} /\ oldest' = oldest
        /\ UNCHANGED hubVars /\ UNCHANGED up /\ UNCHANGED handler
        /\ UNCHANGED <<client, seen>> /\ UNCHANGED <<view, act>>
    BY <1>1 DEF Commit, serverVars, clientVars
  <2>2. LogTyped'  BY <1>0, <2>1 DEF LogTyped
  <2>3. /\ HubWithin(seq)' /\ WireWithin(seq, oldest)' /\ UpWithin(seq)'
        /\ HandlerWithin(seq, oldest)' /\ SocketWithin(seq)' /\ View(seq) \subseteq View(seq)'
    BY <2>1, Grows
  <2>4. ViewWithin(seq)'
    <3> DEFINE V == View(seq)  W == View(seq)'  a == 0..seq  b == 0..seq'
    <3>1. view \in V /\ act \in [pc : {"idle", "sent", "committed"}, sent : Nat,
                                 before : V, reply : a]
      BY DEF IInv, ViewWithin
    <3>2. V \subseteq W /\ a \subseteq b  BY <1>0, <2>1, <2>3
    <3> HIDE DEF V, W, a, b
    <3>3. view \in W /\ act \in [pc : {"idle", "sent", "committed"}, sent : Nat,
                                 before : W, reply : b]
      BY <3>1, <3>2
    <3>4. QED  BY <2>1, <3>3 DEF ViewWithin, W, b
  <2>5. QED  BY <2>2, <2>3, <2>4 DEF IInv
<1>2. ASSUME seq' = seq, oldest' = oldest, UNCHANGED endSeq, HubWithin(seq)', UNCHANGED wire,
             UNCHANGED up, HandlerWithin(seq, oldest)', UNCHANGED clientVars
      PROVE  IInv'
  BY <1>2, Stays DEF IInv, clientVars
\* A step of the hub that no handler takes.
<1>3. ASSUME UNCHANGED <<logVars, serverVars, up, clientVars>>, UNCHANGED wire, HubWithin(seq)'
      PROVE  IInv'
  BY <1>2, <1>3, Stays DEF logVars, serverVars
<1>4. /\ hub \subseteq Conn /\ published \subseteq 1..seq /\ left \subseteq (1..seq) \X Conn
      /\ queue \in [Conn -> Seq(1..seq)] /\ hand \in [Conn -> 0..seq]
  BY DEF IInv, HubWithin
<1>5. ASSUME NEW n \in Seqno, PublishCommitted(n)  PROVE IInv'
  <2>1. /\ n \in 1..seq /\ published' = published \cup {n}
        /\ left' = left \cup ({n} \X hub) /\ UNCHANGED <<hub, queue, hand, wire>> /\ seq' = seq
    BY <1>0, <1>5 DEF PublishCommitted, HubOnly, Publish, Seqno, logVars
  <2>2. HubWithin(seq)'  BY <1>4, <2>1 DEF HubWithin
  <2>3. QED  BY <1>3, <1>5, <2>1, <2>2 DEF PublishCommitted, HubOnly
<1>6. ASSUME NEW n \in Seqno, FanOut(n)  PROVE IInv'
  <2>1. UNCHANGED <<logVars, serverVars, up, clientVars>> /\ seq' = seq
    BY <1>6 DEF FanOut, HubOnly, logVars
  <2>2. PICK c \in Conn : Send(n, c) \/ DropSlow(n, c) \/ EvictionPanics(n, c)
    BY <1>6 DEF FanOut, HubOnly, FanOutStep
  <2>3. CASE Send(n, c)
    <3>1. n \in 1..seq  BY <1>4, <2>3 DEF Send
    <3>2. [queue EXCEPT ![c] = Append(@, n)] \in [Conn -> Seq(1..seq)]
      BY <1>4, <3>1, Appended
    <3>3. queue' \in [Conn -> Seq(1..seq)]  BY <1>4, <2>3, <3>2 DEF Send
    <3>4. left' \subseteq left /\ UNCHANGED <<hub, published, hand, wire>>  BY <2>3 DEF Send
    <3>5. HubWithin(seq)'  BY <1>4, <2>1, <3>3, <3>4 DEF HubWithin
    <3>6. QED  BY <1>3, <2>1, <3>4, <3>5
  <2>4. CASE DropSlow(n, c) \/ EvictionPanics(n, c)
    <3>1. hub' \subseteq hub /\ UNCHANGED <<published, left, queue, hand, wire>>
      BY <2>4 DEF DropSlow, EvictionPanics
    <3>2. HubWithin(seq)'  BY <1>4, <2>1, <3>1 DEF HubWithin
    <3>3. QED  BY <1>3, <2>1, <3>1, <3>2
  <2>5. QED  BY <2>2, <2>3, <2>4
<1>7. ASSUME NEW d \in Elsewhere, OtherRooms(d)  PROVE IInv'
  <2>1. /\ UNCHANGED <<hub, published, left, queue, hand, wire>> /\ seq' = seq
        /\ UNCHANGED <<logVars, serverVars, up, clientVars>>
    BY <1>7 DEF OtherRooms, HubOnly, WaitsElsewhere, EndsElsewhere, publicationVars, logVars
  <2>2. HubWithin(seq)'  BY <1>4, <2>1 DEF HubWithin
  <2>3. QED  BY <1>3, <2>1, <2>2
<1>8. ASSUME NEW to \in 2..MaxSeq + 1, Purge(to)  PROVE IInv'
  <2>1. /\ oldest' = to /\ oldest < to /\ to \in Nat \ {0} /\ seq' = seq /\ endSeq' = endSeq
        /\ UNCHANGED hubVars /\ UNCHANGED up /\ UNCHANGED handler /\ UNCHANGED clientVars
    BY <1>8, HubAssumption DEF Purge, serverVars
  <2>2. LogTyped'  BY <1>0, <2>1 DEF LogTyped
  <2>3. WireWithin(seq, oldest)' /\ HandlerWithin(seq, oldest)'
    BY <1>0, <2>1, FramesAge DEF hubVars
  <2>4. /\ HubWithin(seq)' /\ UpWithin(seq)' /\ SocketWithin(seq)' /\ ViewWithin(seq)'
    BY <2>1 DEF IInv, HubWithin, UpWithin, SocketWithin, ViewWithin, hubVars, publicationVars,
                clientVars
  <2>5. QED  BY <2>2, <2>3, <2>4 DEF IInv
<1>9. CASE Restart
  <2>1. /\ hub' = {} /\ left' = {} /\ published' = 1..seq /\ queue' = [c \in Conn |-> << >>]
        /\ hand' = [c \in Conn |-> 0] /\ seq' = seq /\ oldest' = oldest
        /\ handler' = [c \in Conn |-> [hello |-> 0, resync |-> NoJob]]
        /\ UNCHANGED wire /\ UNCHANGED endSeq /\ UNCHANGED up /\ UNCHANGED clientVars
    BY <1>9 DEF Restart, logVars
  <2>2. HubWithin(seq)'
    <3>1. queue' \in [Conn -> Seq(1..seq)] /\ hand' \in [Conn -> 0..seq]  BY <1>0, <2>1
    <3>2. QED  BY <2>1, <3>1 DEF HubWithin
  <2>3. HandlerWithin(seq, oldest)'
    <3> DEFINE h == 0..seq  k == Job(seq, oldest)
    <3>1. handler \in [Conn -> [hello : h, resync : k]] /\ NoJob \in k
      BY <1>0, NoJobIsJob DEF IInv, HandlerWithin
    <3>4. 0 \in h  BY <1>0
    <3> HIDE DEF h, k
    <3>2. handler' \in [Conn -> [hello : h, resync : k]]  BY <2>1, <3>1, <3>4
    <3>3. QED  BY <2>1, <3>2 DEF HandlerWithin, h, k
  <2>4. QED  BY <1>2, <2>1, <2>2, <2>3
<1>10. CASE Shutdown
  <2>1. /\ hub' = {} /\ UNCHANGED <<published, left, queue, hand, wire>> /\ seq' = seq
        /\ UNCHANGED <<logVars, serverVars, up, clientVars>>
    BY <1>10 DEF Shutdown, HubOnly, CloseAll, publicationVars, logVars
  <2>2. HubWithin(seq)'  BY <1>4, <2>1 DEF HubWithin
  <2>3. QED  BY <1>3, <2>1, <2>2
<1>11. QED  BY <1>1, <1>5, <1>6, <1>7, <1>8, <1>9, <1>10 DEF LogStep

-----------------------------------------------------------------------------
(* The phone.                                                              *)

\* The dedupe window keeps a suffix.
LEMMA WindowType ==
  ASSUME NEW S, NEW s \in Seq(S)
  PROVE  Window(s) \in Seq(S)
<1> DEFINE k == 1 + (IF Len(s) > DedupeCapacity THEN Len(s) - DedupeCapacity ELSE 0)
<1>1. Len(s) \in Nat /\ DedupeCapacity \in Nat  BY SyncAssumption
<1>2. k \in Nat /\ k >= 1 /\ k <= Len(s) + 1  BY <1>1, SyncAssumption
<1> HIDE DEF k
<1>3. SubSeq(s, k, Len(s)) \in Seq(S)  BY <1>1, <1>2
<1>4. QED  BY <1>3 DEF Window, k

\* What _apply keeps of a frame's events: events of it that the window does not
\* hold, each once.
LEMMA FreshFacts ==
  ASSUME NEW n \in Nat, NEW events \in Seq(1..n), NEW window \in Seq(1..n),
         NEW fresh \in Ascending(Range(events) \ Range(window))
  PROVE  /\ fresh \in Seq(1..n)
         /\ \A i \in DOMAIN fresh : fresh[i] \in 1..n /\ fresh[i] \notin Range(window)
         /\ \A i, j \in DOMAIN fresh : fresh[i] = fresh[j] => i = j
<1> DEFINE S == Range(events) \ Range(window)
<1>1. S \subseteq 1..n  BY DEF Range
<1>2. IsFiniteSet(1..n)
  <2>1. 1 \in Int /\ n \in Int  OBVIOUS
  <2>2. QED  BY <2>1, FS_Interval
<1>3. Cardinality(S) \in Nat  BY <1>1, <1>2, FS_Subset, FS_CardinalityType
<1> DEFINE k == Cardinality(S)
<1>4. fresh \in [1..k -> S] /\ \A i, j \in DOMAIN fresh : i < j => fresh[i] < fresh[j]
  BY DEF Ascending
<1>5. \A x \in S : x \in 1..n /\ x \notin Range(window)  BY <1>1
<1> HIDE DEF S, k
<1>6. k \in Nat  BY <1>3 DEF k
<1>7. fresh \in Seq(1..n)
  <2>1. fresh \in [1..k -> 1..n]  BY <1>4, <1>5
  <2>2. QED  BY <1>6, <2>1
<1>8. ASSUME NEW i \in DOMAIN fresh, NEW j \in DOMAIN fresh, fresh[i] = fresh[j]
      PROVE  i = j
  <2>1. i \in 1..k /\ j \in 1..k /\ fresh[i] \in 1..n /\ fresh[j] \in 1..n
    BY <1>4, <1>5, <1>6
  <2>2. ~(fresh[i] < fresh[j]) /\ ~(fresh[j] < fresh[i])  BY <1>8, <2>1
  <2>3. ~(i < j) /\ ~(j < i)  BY <1>4, <2>2
  <2>4. QED  BY <1>6, <2>1, <2>3
<1>9. QED  BY <1>4, <1>5, <1>7, <1>8

LEMMA ViewFacts ==
  ASSUME NEW n \in Nat, NEW v \in View(n)
  PROVE  /\ v.base \in 0..n /\ v.snapshot \in 0..n /\ v.snapshot <= v.base
         /\ v.applied \in Seq(1..n)
         /\ \A s \in Seq(1..n) : [v EXCEPT !.applied = @ \o s] \in View(n)
         /\ \A k \in 0..n : Rows(k) \in View(n)
         /\ \A k \in 0..n, r \in 0..n :
              k <= r => [Rows(r) EXCEPT !.snapshot = k] \in View(n)
<1> DEFINE a == 0..n  b == Seq(1..n)
<1>1. v.base \in a /\ v.snapshot \in a /\ v.snapshot <= v.base /\ v.applied \in b
  BY DEF View
<1>2. \A s \in b : v.applied \o s \in b  BY <1>1
<1>3. 0 \in a /\ << >> \in b  OBVIOUS
<1>4. \A k \in a : 0 <= k  OBVIOUS
<1>5. View(n) = { w \in [base : a, applied : b, snapshot : a] : w.snapshot <= w.base }
  BY DEF View
<1>6. v \in [base : a, applied : b, snapshot : a]  BY <1>5
<1> HIDE DEF a, b
<1>7. ASSUME NEW s \in b  PROVE [v EXCEPT !.applied = @ \o s] \in View(n)
  BY <1>1, <1>2, <1>5, <1>6
<1>8. ASSUME NEW k \in a  PROVE Rows(k) \in View(n)
  BY <1>3, <1>4, <1>5, <1>8 DEF Rows
<1>9. ASSUME NEW k \in a, NEW r \in a, k <= r
      PROVE  [Rows(r) EXCEPT !.snapshot = k] \in View(n)
  BY <1>3, <1>5, <1>9 DEF Rows
<1>10. QED  BY <1>1, <1>7, <1>8, <1>9 DEF a, b

LEMMA ShowsType ==
  ASSUME IInv, seq' = seq, NEW v \in View(seq), Shows(v), UNCHANGED act
  PROVE  ViewWithin(seq)'
  BY DEF Shows, IInv, ViewWithin

LEMMA ApplyKeeps ==
  ASSUME IInv, seq' = seq, NEW events \in Seq(1..seq), Apply(events), UNCHANGED act
  PROVE  SocketWithin(seq)' /\ ViewWithin(seq)'
<1>0. seq \in Nat /\ seen \in Seq(1..seq) /\ view \in View(seq)
  BY DEF IInv, LogTyped, SocketWithin, ViewWithin
<1>1. PICK fresh \in Ascending(Range(events) \ Range(seen)) :
        /\ seen' = Window(seen \o fresh)
        /\ client' = [client EXCEPT !.lastSeq = Reaches(fresh)]
        /\ Shows([view EXCEPT !.applied = @ \o fresh])
  BY DEF Apply
<1>2. fresh \in Seq(1..seq) /\ \A i \in DOMAIN fresh : fresh[i] \in 1..seq
  BY <1>0, FreshFacts
<1>3. seen' \in Seq(1..seq)
  <2>1. seen \o fresh \in Seq(1..seq)  BY <1>0, <1>2
  <2>2. QED  BY <1>1, <2>1, WindowType
<1>4. client' \in Socket(0..seq)
  <2> DEFINE a == 0..seq
  <2>1. client \in Socket(a)  BY DEF IInv, SocketWithin
  <2>2. client.lastSeq \in 0..seq  BY <2>1 DEF Socket
  <2>3. Reaches(fresh) \in a
    <3>1. CASE fresh = << >>  BY <2>2, <3>1 DEF Reaches
    <3>2. CASE fresh # << >>
      <4>1. Len(fresh) \in DOMAIN fresh  BY <1>2, <3>2
      <4>2. fresh[Len(fresh)] \in 1..seq  BY <1>2, <4>1
      <4>3. Reaches(fresh) = Larger(client.lastSeq, fresh[Len(fresh)])
        BY <3>2 DEF Reaches
      <4>4. QED  BY <1>0, <2>2, <4>2, <4>3 DEF Larger
    <3>3. QED  BY <3>1, <3>2
  <2> HIDE DEF a
  <2>4. client' \in Socket(a)  BY <1>1, <2>1, <2>3 DEF Socket
  <2>5. QED  BY <2>4 DEF a
<1>5. [view EXCEPT !.applied = @ \o fresh] \in View(seq)  BY <1>0, <1>2, ViewFacts
<1>6. ViewWithin(seq)'  BY <1>1, <1>5, ShowsType
<1>7. QED  BY <1>3, <1>4, <1>6 DEF SocketWithin

\* A RESYNC asks from a position the phone has, or from 0.
LEMMA AskKeeps ==
  ASSUME IInv, seq' = seq, NEW c \in Conn, NEW n \in 0..seq, SendResync(c, n)
  PROVE  UpWithin(seq)'
<1>1. up \in [Conn -> Seq(0..seq)]  BY DEF IInv, UpWithin
<1>2. [up EXCEPT ![c] = Append(@, n)] \in [Conn -> Seq(0..seq)]  BY <1>1, Appended
<1>3. QED  BY <1>2 DEF SendResync, UpWithin

LEMMA SocketFacts ==
  ASSUME IInv
  PROVE  /\ client.lastSeq \in 0..seq /\ seq \in Nat
         /\ \A k \in 0..seq : [client EXCEPT !.lastSeq = k] \in Socket(0..seq)
<1> DEFINE a == 0..seq
<1>1. client \in Socket(a) /\ seq \in Nat  BY DEF IInv, SocketWithin, LogTyped
<1> HIDE DEF a
<1>2. client.lastSeq \in a /\ \A k \in a : [client EXCEPT !.lastSeq = k] \in Socket(a)
  BY <1>1 DEF Socket
<1>3. QED  BY <1>1, <1>2 DEF a

LEMMA OnFrameKeeps ==
  ASSUME IInv, NEW c \in Conn, OnFrame(c)
  PROVE  IInv'
<1> DEFINE frame == Head(wire[c])
<1>0. /\ wire[c] # << >> /\ wire' = [wire EXCEPT ![c] = Tail(@)]
      /\ UNCHANGED <<hub, published, left, queue, hand>> /\ UNCHANGED handler /\ UNCHANGED act
      /\ seq' = seq /\ UNCHANGED endSeq /\ oldest' = oldest
      /\ \/ frame.type = "HELLO" /\ OnHello(c, frame)
         \/ frame.type = "EVENT" /\ OnEvent(frame)
         \/ frame.type = "DELTA" /\ OnDelta(c, frame)
         \/ frame.type = "SNAPSHOT" /\ OnSnapshot(frame)
         \/ frame.type = "ERROR" /\ UNCHANGED <<up, client, seen, view>>
  BY DEF OnFrame, publicationVars, logVars, serverVars
<1>1. seq \in Nat /\ oldest \in Nat /\ wire \in [Conn -> Seq(Frame(seq, oldest))] /\ 0 \in 0..seq
  BY DEF IInv, LogTyped, WireWithin
<1>2. wire' \in [Conn -> Seq(Frame(seq, oldest))] /\ frame \in Frame(seq, oldest)
  BY <1>0, <1>1, Tailed
<1> HIDE DEF frame
<1>3. WireWithin(seq, oldest)'  BY <1>0, <1>2 DEF WireWithin
<1>4. HubWithin(seq)' /\ HandlerWithin(seq, oldest)' /\ LogTyped'  BY <1>0, Stays
<1>5. ASSUME UpWithin(seq)', SocketWithin(seq)', ViewWithin(seq)'  PROVE IInv'
  BY <1>3, <1>4, <1>5 DEF IInv
<1>6. ASSUME UNCHANGED <<client, seen, view>>, UNCHANGED up \/ UpWithin(seq)'  PROVE IInv'
  <2>1. SocketWithin(seq)' /\ ViewWithin(seq)'  BY <1>0, <1>6, Stays
  <2>2. UpWithin(seq)'  BY <1>0, <1>6, Stays
  <2>3. QED  BY <1>5, <2>1, <2>2
<1>7. CASE frame.type = "HELLO" /\ OnHello(c, frame)
  <2>1. UNCHANGED up \/ SendResync(c, client.lastSeq)  BY <1>7 DEF OnHello
  <2>2. UNCHANGED up \/ UpWithin(seq)'  BY <1>0, <2>1, SocketFacts, AskKeeps
  <2>3. QED  BY <1>6, <1>7, <2>2 DEF OnHello
<1>8. CASE frame.type = "EVENT" /\ OnEvent(frame)
  <2>1. frame.seq \in 1..seq  BY <1>1, <1>2, <1>8, FrameFacts
  <2>2. <<frame.seq>> \in Seq(1..seq)  BY <2>1
  <2>3. SocketWithin(seq)' /\ ViewWithin(seq)'
    BY <1>0, <1>8, <2>2, ApplyKeeps DEF OnEvent
  <2>4. UpWithin(seq)'  BY <1>0, <1>8, Stays DEF OnEvent
  <2>5. QED  BY <1>5, <2>3, <2>4
<1>9. CASE frame.type = "DELTA" /\ OnDelta(c, frame)
  <2>1. frame.events \in Seq(1..seq)  BY <1>1, <1>2, <1>9, FrameFacts
  <2>2. CASE Apply(frame.events) /\ UNCHANGED up
    <3>1. SocketWithin(seq)' /\ ViewWithin(seq)'  BY <1>0, <2>1, <2>2, ApplyKeeps
    <3>2. UpWithin(seq)'  BY <1>0, <2>2, Stays
    <3>3. QED  BY <1>5, <3>1, <3>2
  <2>3. CASE SendResync(c, 0) /\ UNCHANGED <<client, seen, view>>
    <3>1. UpWithin(seq)'  BY <1>0, <1>1, <2>3, AskKeeps
    <3>2. QED  BY <1>6, <2>3, <3>1
  <2>4. QED  BY <1>9, <2>2, <2>3 DEF OnDelta
<1>10. CASE frame.type = "SNAPSHOT" /\ OnSnapshot(frame)
  <2>1. frame.seq \in 0..seq /\ frame.rows \in 0..seq /\ frame.seq <= frame.rows
    BY <1>1, <1>2, <1>10, FrameFacts
  <2>2. client' \in Socket(0..seq)
    BY <1>10, <2>1, SocketFacts DEF OnSnapshot
  <2>3. SocketWithin(seq)'
    <3>1. seen' \in Seq(1..seq)  BY <1>10 DEF OnSnapshot
    <3>2. QED  BY <1>0, <2>2, <3>1 DEF SocketWithin
  <2>4. [Rows(frame.rows) EXCEPT !.snapshot = frame.seq] \in View(seq)
    BY <1>1, <2>1, ViewFacts DEF IInv, ViewWithin
  <2>5. ViewWithin(seq)'  BY <1>0, <1>10, <2>4, ShowsType DEF OnSnapshot
  <2>6. UpWithin(seq)'  BY <1>0, <1>10, Stays DEF OnSnapshot
  <2>7. QED  BY <1>5, <2>3, <2>5, <2>6
<1>11. CASE frame.type = "ERROR" /\ UNCHANGED <<up, client, seen, view>>
  BY <1>6, <1>11
<1>12. QED  BY <1>0, <1>7, <1>8, <1>9, <1>10, <1>11

LEMMA HangsKeeps ==
  ASSUME IInv, NEW c \in Conn, Hangs(c)
  PROVE  WireWithin(seq, oldest)' /\ UpWithin(seq)' /\ HubWithin(seq)' /\ HandlerWithin(seq, oldest)' /\ LogTyped'
<1>1. /\ wire' = [wire EXCEPT ![c] = << >>] /\ up' = [up EXCEPT ![c] = << >>]
      /\ UNCHANGED <<hub, published, left, queue, hand>> /\ UNCHANGED handler
      /\ UNCHANGED endSeq /\ oldest' = oldest /\ seq' = seq
  BY DEF Hangs, publicationVars, logVars, serverVars
<1>2. wire \in [Conn -> Seq(Frame(seq, oldest))] /\ up \in [Conn -> Seq(0..seq)]
  BY DEF IInv, WireWithin, UpWithin
<1>3. WireWithin(seq, oldest)'  BY <1>1, <1>2, Emptied DEF WireWithin
<1>4. UpWithin(seq)'  BY <1>1, <1>2, Emptied DEF UpWithin
<1>5. QED  BY <1>1, <1>3, <1>4, Stays

\* A member of the state of the socket, with some of its fields replaced.
LEMMA SocketSet ==
  ASSUME NEW n, NEW s \in Socket(n),
         NEW pc \in {"fetch", "ticket", "open", "backoff", "closed"},
         NEW conn \in Conn \cup {NoConn}, NEW k \in n,
         NEW closed \in {"no", "disposed", "unauthenticated", "offline"}
  PROVE  /\ s.closed \in {"no", "disposed", "unauthenticated", "offline"}
         /\ s.pc \in {"fetch", "ticket", "open", "backoff", "closed"}
         /\ s.conn \in Conn \cup {NoConn}
         /\ [s EXCEPT !.pc = pc, !.lastSeq = k] \in Socket(n)
         /\ [s EXCEPT !.pc = pc, !.conn = conn] \in Socket(n)
         /\ [s EXCEPT !.conn = conn, !.pc = pc] \in Socket(n)
         /\ [s EXCEPT !.pc = pc, !.closed = closed] \in Socket(n)
         /\ [s EXCEPT !.pc = pc] \in Socket(n)
         /\ [s EXCEPT !.closed = closed, !.conn = conn, !.pc = pc] \in Socket(n)
  BY DEF Socket

\* Every step of the phone, its HTTP mutations included.
LEMMA ClientStepKeeps ==
  ASSUME IInv, ClientStep
  PROVE  IInv'
<1> DEFINE a == 0..seq
<1> DEFINE Pcs == {"fetch", "ticket", "open", "backoff", "closed"}
<1> DEFINE Why == {"no", "disposed", "unauthenticated", "offline"}
<1>0. /\ client \in Socket(a) /\ seq \in Nat /\ seq \in a /\ seen \in Seq(1..seq)
      /\ view \in View(seq) /\ act.before \in View(seq) /\ act.reply \in a
  <2> DEFINE V == View(seq)
  <2>1. act \in [pc : {"idle", "sent", "committed"}, sent : Nat, before : V, reply : a]
    BY DEF IInv, ViewWithin
  <2> HIDE DEF V, a
  <2>2. act.before \in V /\ act.reply \in a  BY <2>1
  <2>3. QED  BY <2>2 DEF V, a, IInv, LogTyped, SocketWithin, ViewWithin
<1>1. \A n \in 0..seq : Rows(n) \in View(seq)  BY <1>0, ViewFacts
<1> HIDE DEF a
<1>2. ASSUME UNCHANGED <<hubVars, logVars, serverVars, up, seen, view, act>>,
             client' \in Socket(a)
      PROVE  IInv'
  <2>1. seq' = seq /\ UNCHANGED endSeq /\ oldest' = oldest
        /\ UNCHANGED <<hub, published, left, queue, hand>>
        /\ UNCHANGED wire /\ UNCHANGED up /\ UNCHANGED handler /\ UNCHANGED <<view, act>>
        /\ UNCHANGED seen
    BY <1>2 DEF hubVars, publicationVars, logVars, serverVars
  <2>2. SocketWithin(seq)'  BY <1>0, <1>2, <2>1 DEF SocketWithin, a
  <2>3. QED  BY <2>1, <2>2, Stays DEF IInv
<1>3. ASSUME UNCHANGED <<hubVars, logVars, serverVars, up, client, seen>>,
             ViewWithin(seq)'
      PROVE  IInv'
  <2>1. seq' = seq /\ UNCHANGED endSeq /\ oldest' = oldest
        /\ UNCHANGED <<hub, published, left, queue, hand>>
        /\ UNCHANGED wire /\ UNCHANGED up /\ UNCHANGED handler /\ UNCHANGED <<client, seen>>
    BY <1>3 DEF hubVars, publicationVars, logVars, serverVars
  <2>2. QED  BY <1>3, <2>1, Stays DEF IInv
<1>4. CASE Fetch
  <2>1. /\ view' = Rows(seq) /\ client' = [client EXCEPT !.pc = "ticket", !.lastSeq = seq]
        /\ seq' = seq /\ UNCHANGED endSeq /\ oldest' = oldest
        /\ UNCHANGED <<hub, published, left, queue, hand>>
        /\ UNCHANGED wire /\ UNCHANGED up /\ UNCHANGED handler /\ UNCHANGED seen /\ UNCHANGED act
    BY <1>4 DEF Fetch, hubVars, publicationVars, logVars, serverVars
  <2>2. client' \in Socket(a)  BY <1>0, <2>1, SocketSet
  <2>3. SocketWithin(seq)'  BY <1>0, <2>1, <2>2 DEF SocketWithin, a
  <2>4. view' \in View(seq)  BY <1>0, <1>1, <2>1 DEF a
  <2>5. ViewWithin(seq)'  BY <2>1, <2>4 DEF IInv, ViewWithin
  <2>6. QED  BY <2>1, <2>3, <2>5, Stays DEF IInv
<1>5. CASE Retry
  <2>1. client' \in Socket(a)
    <3>1. client' = [client EXCEPT !.pc = IF Disposed THEN "closed" ELSE "ticket"]
      BY <1>5 DEF Retry
    <3>2. (IF Disposed THEN "closed" ELSE "ticket") \in Pcs  OBVIOUS
    <3>3. QED  BY <1>0, <3>1, <3>2, SocketSet
  <2>2. QED  BY <1>2, <1>5, <2>1 DEF Retry
<1>6. ASSUME NEW why \in {"unauthenticated", "offline"}, NoTicket(why)  PROVE IInv'
  <2>1. client' = [client EXCEPT !.pc = "closed", !.closed = IF Disposed THEN @ ELSE why]
    BY <1>6 DEF NoTicket
  <2>2. client' \in Socket(a)  BY <1>0, <1>6, <2>1 DEF Socket
  <2>3. QED  BY <1>2, <1>6, <2>2 DEF NoTicket
<1>7. ASSUME NEW c \in Conn, TicketArrives(c)  PROVE IInv'
  <2>1. client' \in Socket(a)
    BY <1>0, <1>7, SocketSet DEF TicketArrives
  <2>2. QED  BY <1>2, <1>7, <2>1 DEF TicketArrives
<1>8. ASSUME seq' = seq, oldest' = oldest, NEW c \in Conn, Hangs(c), client' \in Socket(a),
             UNCHANGED <<seen, view, act>>
      PROVE  IInv'
  <2>1. /\ WireWithin(seq, oldest)' /\ UpWithin(seq)' /\ HubWithin(seq)' /\ HandlerWithin(seq, oldest)'
        /\ LogTyped'
    BY <1>8, HangsKeeps
  <2>2. SocketWithin(seq)'  BY <1>0, <1>8 DEF SocketWithin, a
  <2>3. ViewWithin(seq)'  BY <1>8, Stays
  <2>4. QED  BY <2>1, <2>2, <2>3 DEF IInv
<1>9. ASSUME NEW c \in Conn, Disconnected(c)  PROVE IInv'
  <2>1. client' \in Socket(a)
    <3>1. client' = [client EXCEPT !.conn = NoConn,
                                   !.pc = IF Disposed THEN "closed" ELSE "backoff"]
      BY <1>9 DEF Disconnected
    <3>2. (IF Disposed THEN "closed" ELSE "backoff") \in Pcs /\ NoConn \in Conn \cup {NoConn}
      OBVIOUS
    <3>3. QED  BY <1>0, <3>1, <3>2, SocketSet
  <2>2. seq' = seq /\ oldest' = oldest  BY <1>9 DEF Disconnected, Hangs, logVars
  <2>3. QED  BY <1>8, <1>9, <2>1, <2>2 DEF Disconnected
<1>10. CASE Dispose
  <2>1. client' = [client EXCEPT !.closed = "disposed", !.conn = NoConn,
                     !.pc = IF client.pc \in {"ticket", "backoff"} THEN @ ELSE "closed"]
    BY <1>10 DEF Dispose
  <2>2. client' \in Socket(a)  BY <1>0, <2>1 DEF Socket
  <2>3. CASE client.pc = "open" /\ Hangs(client.conn) /\ client.conn \in Conn
    <3>1. seq' = seq /\ oldest' = oldest /\ UNCHANGED <<seen, view, act>>
      BY <1>10, <2>3 DEF Dispose, Hangs, logVars
    <3>2. QED  BY <1>8, <2>2, <2>3, <3>1
  <2>4. CASE client.pc = "open" /\ Hangs(client.conn) /\ client.conn = NoConn
    <3>1. /\ wire' = [wire EXCEPT ![NoConn] = << >>] /\ up' = [up EXCEPT ![NoConn] = << >>]
          /\ UNCHANGED <<hub, published, left, queue, hand>> /\ UNCHANGED handler
          /\ UNCHANGED endSeq /\ oldest' = oldest /\ seq' = seq /\ UNCHANGED <<seen, view, act>>
      BY <1>10, <2>4 DEF Dispose, Hangs, publicationVars, logVars, serverVars
    <3>2. wire' = wire /\ up' = up
      BY <3>1, SyncAssumption DEF IInv, WireWithin, UpWithin
    <3>3. SocketWithin(seq)'  BY <1>0, <2>2, <3>1 DEF SocketWithin, a
    <3>4. QED  BY <3>1, <3>2, <3>3, Stays DEF IInv
  <2>5. CASE UNCHANGED <<hubVars, logVars, serverVars, up>>
    BY <1>2, <1>10, <2>2, <2>5 DEF Dispose
  <2>6. client.conn \in Conn \cup {NoConn}  BY <1>0 DEF Socket
  <2>7. QED  BY <1>10, <2>3, <2>4, <2>5, <2>6 DEF Dispose
<1>11. ASSUME NEW c \in Conn, OnFrame(c)  PROVE IInv'
  BY <1>11, OnFrameKeeps
<1>12. ASSUME NEW V, V = View(seq)
       PROVE  act \in [pc : {"idle", "sent", "committed"}, sent : Nat, before : V, reply : a]
  BY <1>12 DEF IInv, ViewWithin, a
<1>13. CASE ActSends
  <2> DEFINE V == View(seq)
  <2>1. act \in [pc : {"idle", "sent", "committed"}, sent : Nat, before : V, reply : a]
    BY <1>12
  <2>2. view \in V /\ act' = [act EXCEPT !.pc = "sent", !.sent = @ + 1, !.before = view]
    BY <1>0, <1>13 DEF ActSends
  <2> HIDE DEF V
  <2>7. act.sent \in Nat  BY <2>1
  <2>8. act.sent + 1 \in Nat  BY <2>7
  <2>3. act' \in [pc : {"idle", "sent", "committed"}, sent : Nat, before : V, reply : a]
    BY <2>1, <2>2, <2>8
  <2>4. UNCHANGED <<hubVars, logVars, serverVars, up, client, seen>> /\ UNCHANGED view
        /\ seq' = seq
    BY <1>13 DEF ActSends, logVars
  <2>5. ViewWithin(seq)'  BY <2>2, <2>3, <2>4 DEF ViewWithin, V, a
  <2>6. QED  BY <1>3, <2>4, <2>5
<1>14. CASE ActCommits
  <2> DEFINE V == View(seq)  W == View(seq)'  b == 0..seq'
  <2>1. act \in [pc : {"idle", "sent", "committed"}, sent : Nat, before : V, reply : a]
    BY <1>12
  <2>2. /\ seq' = seq + 1 /\ endSeq' = endSeq /\ oldest' = oldest
        /\ act' = [act EXCEPT !.pc = "committed", !.reply = seq + 1]
        /\ UNCHANGED hubVars /\ UNCHANGED up /\ UNCHANGED handler
        /\ UNCHANGED <<client, seen>> /\ UNCHANGED view
    BY <1>14 DEF ActCommits, serverVars
  <2>3. /\ HubWithin(seq)' /\ WireWithin(seq, oldest)' /\ UpWithin(seq)' /\ HandlerWithin(seq, oldest)'
        /\ SocketWithin(seq)' /\ V \subseteq W
    BY <2>2, Grows
  <2>4. LogTyped'  BY <1>0, <2>2 DEF LogTyped, IInv
  <2>5. a \subseteq b /\ seq + 1 \in b /\ view \in V  BY <1>0, <2>2 DEF a
  <2> HIDE DEF V, W, b
  <2>6. /\ view' \in W
        /\ act' \in [pc : {"idle", "sent", "committed"}, sent : Nat, before : W, reply : b]
    BY <2>1, <2>2, <2>3, <2>5
  <2>7. ViewWithin(seq)'  BY <2>6 DEF ViewWithin, W, b
  <2>8. QED  BY <2>3, <2>4, <2>7 DEF IInv
<1>15. ASSUME act' = NoAct(act.sent), NEW v \in View(seq), Shows(v),
              UNCHANGED <<hubVars, logVars, serverVars, up, client, seen>>
       PROVE  IInv'
  <2> DEFINE V == View(seq)
  <2>1. act \in [pc : {"idle", "sent", "committed"}, sent : Nat, before : V, reply : a]
    BY <1>12
  <2>2. view' \in V  BY <1>0, <1>15 DEF Shows
  <2>7. 0 \in 0..seq  BY <1>0
  <2>8. Rows(0) \in V /\ 0 \in a  BY <1>1, <2>7 DEF a
  <2> HIDE DEF V
  <2>3. act' \in [pc : {"idle", "sent", "committed"}, sent : Nat, before : V, reply : a]
    BY <1>15, <2>1, <2>8 DEF NoAct
  <2>4. seq' = seq  BY <1>15 DEF logVars
  <2>5. ViewWithin(seq)'  BY <2>2, <2>3, <2>4 DEF ViewWithin, V, a
  <2>6. QED  BY <1>3, <1>15, <2>5
<1>16. CASE ActSucceeds
  <2>1. Rows(act.reply) \in View(seq)  BY <1>0, <1>1 DEF a
  <2>2. QED  BY <1>15, <1>16, <2>1 DEF ActSucceeds
<1>17. CASE ActFails
  BY <1>0, <1>15, <1>17 DEF ActFails
<1>18. QED
  BY <1>4, <1>5, <1>6, <1>7, <1>9, <1>10, <1>11, <1>13, <1>14, <1>16, <1>17 DEF ClientStep

-----------------------------------------------------------------------------
(* The invariant, and what it gives.                                       *)

LEMMA InitWithin ==
  ASSUME SyncInit  PROVE IInv
<1>1. seq = 1 /\ endSeq = 0 /\ oldest = 1  BY DEF SyncInit
<1>2. LogTyped  BY <1>1 DEF LogTyped
<1>3. /\ << >> \in Seq(1..seq) /\ << >> \in Seq(0..seq) /\ << >> \in Seq(Frame(seq, oldest))
      /\ 0 \in 0..seq
  BY <1>1
<1>4. HubWithin(seq)
  <2>1. /\ hub = {} /\ published = {} /\ left = {} /\ queue = [c \in Conn |-> << >>]
        /\ hand = [c \in Conn |-> 0]
    BY DEF SyncInit, HubInit
  <2>2. QED  BY <1>3, <2>1 DEF HubWithin
<1>5. WireWithin(seq, oldest)  BY <1>3 DEF SyncInit, HubInit, WireWithin
<1>6. UpWithin(seq)  BY <1>3 DEF SyncInit, UpWithin
<1>7. HandlerWithin(seq, oldest)
  <2>1. NoJob \in Job(seq, oldest)  BY <1>1, NoJobIsJob
  <2>2. QED  BY <1>3, <2>1 DEF SyncInit, HandlerWithin
<1>8. SocketWithin(seq)  BY <1>3 DEF SyncInit, SocketWithin, Socket
<1>9. ViewWithin(seq)
  <2> DEFINE V == View(seq)  a == 0..seq
  <2>1. Rows(0) \in V
    BY <1>1, <1>3 DEF View, Rows
  <2>2. 0 \in a  BY <1>3
  <2>3. view = Rows(0) /\ act = [pc |-> "idle", sent |-> 0, before |-> Rows(0), reply |-> 0]
    BY DEF SyncInit, NoAct
  <2> HIDE DEF V, a
  <2>4. act \in [pc : {"idle", "sent", "committed"}, sent : Nat, before : V, reply : a]
    BY <2>1, <2>2, <2>3
  <2>5. QED  BY <2>1, <2>3, <2>4 DEF ViewWithin, V, a
<1>10. QED  BY <1>2, <1>4, <1>5, <1>6, <1>7, <1>8, <1>9 DEF IInv

LEMMA StepWithin ==
  ASSUME IInv, [SyncNext]_syncVars  PROVE IInv'
<1>1. CASE UNCHANGED syncVars
  <2>1. /\ seq' = seq /\ UNCHANGED endSeq /\ oldest' = oldest
        /\ UNCHANGED <<hub, published, left, queue, hand>>
        /\ UNCHANGED wire /\ UNCHANGED up /\ UNCHANGED handler
        /\ UNCHANGED <<client, seen>> /\ UNCHANGED <<view, act>>
    BY <1>1 DEF syncVars, hubVars, publicationVars, logVars, serverVars, clientVars
  <2>2. QED  BY <2>1, Stays DEF IInv
<1>2. QED  BY <1>1, ServerStepKeeps, LogStepKeeps, ClientStepKeeps DEF SyncNext

\* Whatever the network, retention and restarts do, nothing the handler or the
\* phone holds is ahead of the room's log (handler.go, room_socket.dart).
THEOREM Invariant == SyncSpec => []IInv
<1>1. SyncInit => IInv  BY InitWithin
<1>2. IInv /\ [SyncNext]_syncVars => IInv'  BY StepWithin
<1>3. QED  BY <1>1, <1>2, PTL DEF SyncSpec

\* A phone never claims a position the log has not reached, so no RESYNC is
\* classified as invalid (decideResync).
THEOREM PhoneIsNeverAhead == SyncSpec => []NeverAhead
<1>1. IInv => NeverAhead
  <2>1. SUFFICES ASSUME IInv PROVE NeverAhead  OBVIOUS
  <2>2. client.lastSeq <= seq  BY <2>1, SocketFacts
  <2>3. ASSUME NEW c \in Conn  PROVE Mode(c) # "INVALID"
    <3> DEFINE l == Resync(c).last  m == Resync(c).cur  f == Resync(c).floor
    <3>1. l \in 0..seq /\ m \in 0..seq /\ l <= m  BY <2>1, JobFacts
    <3> HIDE DEF l, m, f
    <3>2. ~(l > m)  BY <3>1
    <3>3. DecideResync(l, m, f) # "INVALID"  BY <3>1, <3>2 DEF DecideResync
    <3>4. QED  BY <3>3 DEF Mode, l, m, f
  <2>4. QED  BY <2>2, <2>3 DEF NeverAhead
<1>2. QED  BY <1>1, Invariant, PTL

\* A snapshot's rows are at least as new as the position it is labelled with,
\* on the wire and in the phone's room (handleResync, Service.Snapshot).
THEOREM SnapshotsCover == SyncSpec => []SnapshotCoversItsPosition
<1>1. IInv => SnapshotCoversItsPosition
  <2>1. SUFFICES ASSUME IInv PROVE SnapshotCoversItsPosition  OBVIOUS
  <2>2. seq \in Nat /\ oldest \in Nat /\ wire \in [Conn -> Seq(Frame(seq, oldest))]
    BY <2>1 DEF IInv, LogTyped, WireWithin
  <2>3. ASSUME NEW c \in Conn, NEW i \in DOMAIN wire[c], wire[c][i].type = "SNAPSHOT"
        PROVE  wire[c][i].rows >= wire[c][i].seq
    <3>1. wire[c][i] \in Frame(seq, oldest)  BY <2>2
    <3>2. wire[c][i].seq \in 0..seq /\ wire[c][i].rows \in 0..seq
          /\ wire[c][i].seq <= wire[c][i].rows
      BY <2>2, <2>3, <3>1, FrameFacts
    <3>3. QED  BY <2>2, <3>2
  <2>4. view.base >= view.snapshot
    <3>1. view \in View(seq)  BY <2>1 DEF IInv, ViewWithin
    <3>2. view.base \in 0..seq /\ view.snapshot \in 0..seq /\ view.snapshot <= view.base
      BY <3>1 DEF View
    <3>3. QED  BY <2>2, <3>2
  <2>5. QED  BY <2>3, <2>4 DEF SnapshotCoversItsPosition
<1>2. QED  BY <1>1, Invariant, PTL

\* A delta has every event it names, or, of events that retention has dropped since
\* the handler asked for the oldest one, none: whatever is committed or dropped between
\* the queries of a RESYNC, and while the answer waits to be written and read.
THEOREM DeltasAreWholeOrGone == SyncSpec => []DeltaIsWholeOrGone
<1>1. IInv => DeltaIsWholeOrGone
  <2>1. SUFFICES ASSUME IInv, NEW c \in Conn, NEW i \in DOMAIN wire[c],
                        wire[c][i].type = "DELTA", wire[c][i].applied
                 PROVE  Fits(wire[c][i], oldest)
    BY DEF DeltaIsWholeOrGone, Fits
  <2>2. seq \in Nat /\ oldest \in Nat /\ wire \in [Conn -> Seq(Frame(seq, oldest))]
    BY <2>1 DEF IInv, LogTyped, WireWithin
  <2>3. wire[c][i] \in Frame(seq, oldest)  BY <2>2
  <2>4. QED  BY <2>1, <2>2, <2>3, FrameFacts
<1>2. QED  BY <1>1, Invariant, PTL

-----------------------------------------------------------------------------
(* Each event is folded once.  The window forgets an event only when it    *)
(* overflows or a snapshot clears it.  A window of distinct events of a    *)
(* log no longer than the window does not overflow, and a snapshot clears  *)
(* the room's events too: what is folded stays within what the window      *)
(* holds, unless _act puts back a room from before (act.sent # 0).         *)

Once ==
  /\ seq <= DedupeCapacity
  /\ IsInjective(seen)
  /\ act.sent = 0 => /\ act.pc = "idle"
                     /\ IsInjective(view.applied)
                     /\ Disposed \/ Range(view.applied) \subseteq Range(seen)

\* Distinct events of a log of n events are at most n.
LEMMA DistinctFit ==
  ASSUME NEW n \in Nat, NEW s \in Seq(1..n), IsInjective(s)
  PROVE  Len(s) <= n
<1> DEFINE k == Len(s)
<1>1. k \in Nat /\ s \in [1..k -> 1..n] /\ DOMAIN s = 1..k  OBVIOUS
<1> HIDE DEF k
<1>2. 1 \in Int /\ n \in Int /\ k \in Int  BY <1>1
<1>3. /\ IsFiniteSet(1..n) /\ IsFiniteSet(1..k)
      /\ Cardinality(1..n) = IF 1 > n THEN 0 ELSE n - 1 + 1
      /\ Cardinality(1..k) = IF 1 > k THEN 0 ELSE k - 1 + 1
  BY <1>2, FS_Interval
<1>4. s \in Injection(1..k, 1..n)  BY <1>1 DEF Injection
<1>5. Cardinality(1..k) <= Cardinality(1..n)  BY <1>3, <1>4, FS_Injection
<1>6. k <= n  BY <1>1, <1>3, <1>5
<1>7. QED  BY <1>6 DEF k

\* Distinct events after other distinct events that they do not repeat.
LEMMA DistinctAppended ==
  ASSUME NEW S, NEW s \in Seq(S), NEW t \in Seq(S), IsInjective(s), IsInjective(t),
         \A i \in DOMAIN t : t[i] \notin Range(s)
  PROVE  /\ s \o t \in Seq(S) /\ IsInjective(s \o t)
         /\ Range(s \o t) = Range(s) \cup Range(t)
<1> DEFINE u == s \o t
<1>1. /\ u \in Seq(S) /\ Len(u) = Len(s) + Len(t) /\ Len(s) \in Nat /\ Len(t) \in Nat
      /\ DOMAIN u = 1..Len(u) /\ DOMAIN s = 1..Len(s) /\ DOMAIN t = 1..Len(t)
  OBVIOUS
<1>2. \A i \in 1..Len(u) : u[i] = IF i <= Len(s) THEN s[i] ELSE t[i - Len(s)]
  OBVIOUS
<1>3. \A i \in 1..Len(u) : IF i <= Len(s) THEN i \in DOMAIN s ELSE i - Len(s) \in DOMAIN t
  BY <1>1
<1> HIDE DEF u
<1>4. ASSUME NEW i \in DOMAIN u, NEW j \in DOMAIN u, u[i] = u[j]  PROVE i = j
  <2>1. CASE i <= Len(s) /\ j <= Len(s)
    BY <1>1, <1>2, <1>4, <2>1 DEF IsInjective
  <2>2. CASE ~(i <= Len(s)) /\ ~(j <= Len(s))
    <3>1. i - Len(s) \in DOMAIN t /\ j - Len(s) \in DOMAIN t  BY <1>1, <1>3, <2>2
    <3>2. t[i - Len(s)] = t[j - Len(s)]  BY <1>1, <1>2, <1>4, <2>2
    <3>3. i - Len(s) = j - Len(s)  BY <3>1, <3>2 DEF IsInjective
    <3>4. QED  BY <1>1, <3>3
  <2>3. ASSUME NEW a \in DOMAIN u, NEW b \in DOMAIN u, a <= Len(s), ~(b <= Len(s)),
               u[a] = u[b]
        PROVE  FALSE
    <3>1. a \in DOMAIN s /\ b - Len(s) \in DOMAIN t  BY <1>1, <1>3, <2>3
    <3>2. s[a] = t[b - Len(s)]  BY <1>1, <1>2, <2>3
    <3>3. QED  BY <3>1, <3>2 DEF Range
  <2>4. QED  BY <1>4, <2>1, <2>2, <2>3
<1>5. Range(u) = Range(s) \cup Range(t)
  <2>1. ASSUME NEW i \in DOMAIN u  PROVE u[i] \in Range(s) \cup Range(t)
    BY <1>1, <1>2, <1>3 DEF Range
  <2>2. ASSUME NEW i \in DOMAIN s  PROVE s[i] \in Range(u)
    <3>1. i \in DOMAIN u /\ u[i] = s[i]  BY <1>1, <1>2
    <3>2. QED  BY <3>1 DEF Range
  <2>3. ASSUME NEW i \in DOMAIN t  PROVE t[i] \in Range(u)
    <3>1. i + Len(s) \in DOMAIN u /\ ~(i + Len(s) <= Len(s)) /\ (i + Len(s)) - Len(s) = i
      BY <1>1
    <3>2. u[i + Len(s)] = t[i]  BY <1>1, <1>2, <3>1
    <3>3. QED  BY <3>1, <3>2 DEF Range
  <2>4. QED  BY <2>1, <2>2, <2>3 DEF Range
<1>6. QED  BY <1>1, <1>4, <1>5 DEF u, IsInjective

LEMMA WindowIsWhole ==
  ASSUME NEW S, NEW s \in Seq(S), Len(s) <= DedupeCapacity
  PROVE  Window(s) = s
<1>1. Len(s) \in Nat /\ DedupeCapacity \in Nat  BY SyncAssumption
<1>2. 1 + (IF Len(s) > DedupeCapacity THEN Len(s) - DedupeCapacity ELSE 0) = 1  BY <1>1
<1>3. SubSeq(s, 1, Len(s)) = s  OBVIOUS
<1>4. QED  BY <1>2, <1>3 DEF Window

LEMMA EmptyFacts ==
  IsInjective(<< >>) /\ Range(<< >>) = {}
  BY DEF IsInjective, Range

\* _apply folds what the window does not hold, and remembers it.
LEMMA ApplyKeepsOnce ==
  ASSUME IInv, Once, seq' = seq, NEW events \in Seq(1..seq), Apply(events), UNCHANGED act
  PROVE  Once'
<1>0. /\ seq \in Nat /\ seen \in Seq(1..seq) /\ view \in View(seq)
      /\ client \in Socket(0..seq) /\ seq <= DedupeCapacity /\ DedupeCapacity \in Nat
  BY SyncAssumption DEF IInv, LogTyped, SocketWithin, ViewWithin, Once
<1>1. PICK fresh \in Ascending(Range(events) \ Range(seen)) :
        /\ seen' = Window(seen \o fresh)
        /\ client' = [client EXCEPT !.lastSeq = Reaches(fresh)]
        /\ Shows([view EXCEPT !.applied = @ \o fresh])
  BY DEF Apply
<1>2. /\ fresh \in Seq(1..seq) /\ IsInjective(fresh)
      /\ \A i \in DOMAIN fresh : fresh[i] \notin Range(seen)
  BY <1>0, <1>1, FreshFacts DEF IsInjective
<1>3. /\ seen \o fresh \in Seq(1..seq) /\ IsInjective(seen \o fresh)
      /\ Range(seen \o fresh) = Range(seen) \cup Range(fresh)
  BY <1>0, <1>2, DistinctAppended DEF Once
<1>4. seen' = seen \o fresh
  <2>1. Len(seen \o fresh) <= seq  BY <1>0, <1>3, DistinctFit
  <2>2. Len(seen \o fresh) \in Nat  BY <1>3
  <2>3. Len(seen \o fresh) <= DedupeCapacity  BY <1>0, <2>1, <2>2
  <2>4. QED  BY <1>1, <1>3, <2>3, WindowIsWhole
<1>5. Disposed' <=> Disposed
  BY <1>0, <1>1 DEF Disposed, Socket
<1>6. ASSUME act.sent = 0
      PROVE  /\ IsInjective(view'.applied)
             /\ Disposed' \/ Range(view'.applied) \subseteq Range(seen')
  <2>1. CASE Disposed
    BY <1>1, <1>5, <1>6, <2>1 DEF Shows, Once
  <2>2. CASE ~Disposed
    <3>1. view'.applied = view.applied \o fresh
      BY <1>0, <1>1, <2>2 DEF Shows, View
    <3>2. view.applied \in Seq(1..seq)  BY <1>0, ViewFacts
    <3>3. IsInjective(view.applied) /\ Range(view.applied) \subseteq Range(seen)
      BY <1>6, <2>2 DEF Once
    <3>4. \A i \in DOMAIN fresh : fresh[i] \notin Range(view.applied)
      BY <1>2, <3>3
    <3>5. /\ IsInjective(view.applied \o fresh)
          /\ Range(view.applied \o fresh) = Range(view.applied) \cup Range(fresh)
      BY <1>2, <3>2, <3>3, <3>4, DistinctAppended
    <3>6. QED  BY <1>3, <1>4, <3>1, <3>3, <3>5
  <2>3. QED  BY <2>1, <2>2
<1>7. QED  BY <1>0, <1>3, <1>4, <1>6 DEF Once

\* A step that leaves the window and the room alone.
LEMMA OnceStays ==
  ASSUME Once, UNCHANGED <<seen, view>>, seq' <= DedupeCapacity, Disposed => Disposed',
         act'.sent = 0 => act'.pc = act.pc /\ act.sent = 0
  PROVE  Once'
  BY DEF Once

LEMMA ServerStepKeepsOnce ==
  ASSUME IInv, Once, NEW c \in Conn, ServerStep(c)
  PROVE  Once'
<1>1. seq' = seq /\ UNCHANGED <<seen, view, act>>
  BY DEF ServerStep, Accept, Refuse, Register, Hello, Expire, ResyncStep, ReadMembership,
         ReadFloor, AnswerResync, WriteControl, ConnectionStep, HubOnly, logVars, clientVars
<1>2. Disposed => Disposed'
  <2>1. CASE client' = client  BY <2>1 DEF Disposed
  <2>2. CASE Refuse(c)
    <3>1. client' = [client EXCEPT !.conn = NoConn,
                              !.pc = IF client.closed = "disposed" THEN "closed" ELSE "backoff"]
      BY <2>2 DEF Refuse
    <3>2. client \in Socket(0..seq)  BY DEF IInv, SocketWithin
    <3>3. client'.closed = client.closed  BY <3>1, <3>2 DEF Socket
    <3>4. QED  BY <3>3 DEF Disposed
  <2>3. client' = client \/ Refuse(c)
    BY DEF ServerStep, Accept, Register, Hello, Expire, ResyncStep, ReadMembership,
           ReadFloor, AnswerResync, WriteControl, ConnectionStep, HubOnly, clientVars
  <2>4. QED  BY <2>1, <2>2, <2>3
<1>3. QED  BY <1>1, <1>2, OnceStays DEF Once

LEMMA LogStepKeepsOnce ==
  ASSUME IInv, Once, LogStep, MaxSeq <= DedupeCapacity
  PROVE  Once'
<1>1. UNCHANGED clientVars
  BY DEF LogStep, Commit, PublishCommitted, FanOut, OtherRooms, Purge, Restart, Shutdown, HubOnly
<1>2. \/ seq' = seq
      \/ seq < MaxSeq /\ seq' = seq + 1
  BY DEF LogStep, Commit, PublishCommitted, FanOut, OtherRooms, Purge, Restart, Shutdown,
         HubOnly, logVars
<1>3. seq \in Nat /\ MaxSeq \in Nat /\ DedupeCapacity \in Nat /\ seq <= DedupeCapacity
  BY SyncAssumption, HubAssumption DEF IInv, LogTyped, Once
<1>4. seq' <= DedupeCapacity  BY <1>2, <1>3
<1>5. QED  BY <1>1, <1>4, OnceStays DEF clientVars, Disposed

LEMMA ClientStepKeepsOnce ==
  ASSUME IInv, Once, ClientStep, MaxSeq <= DedupeCapacity
  PROVE  Once'
<1>0. /\ client \in Socket(0..seq) /\ seq \in Nat /\ oldest \in Nat /\ 0 \in 0..seq
      /\ MaxSeq \in Nat /\ DedupeCapacity \in Nat /\ seq <= DedupeCapacity
      /\ act.sent = 0 => act.pc = "idle"
  BY SyncAssumption, HubAssumption DEF IInv, LogTyped, SocketWithin, Once
<1>1. \E V, a : act \in [pc : {"idle", "sent", "committed"}, sent : Nat, before : V, reply : a]
  BY DEF IInv, ViewWithin
<1>2. /\ act.sent \in Nat
      /\ \A p : /\ [act EXCEPT !.pc = p].sent = act.sent
                /\ \A v : [act EXCEPT !.pc = p, !.sent = @ + 1, !.before = v].sent = act.sent + 1
                /\ \A v : [act EXCEPT !.pc = p, !.reply = v].sent = act.sent
  BY <1>1
<1>3. ASSUME UNCHANGED <<seen, view, act>>, seq' = seq, Disposed => Disposed'  PROVE Once'
  BY <1>0, <1>3, OnceStays
<1>4. CASE Fetch
  <2>1. view' = Rows(seq) /\ UNCHANGED <<seen, act>> /\ seq' = seq
    BY <1>4 DEF Fetch, logVars
  <2>2. view'.applied = << >>  BY <2>1 DEF Rows
  <2>3. QED  BY <2>1, <2>2, EmptyFacts DEF Once
<1>5. CASE Retry
  <2>1. Disposed => Disposed'  BY <1>0, <1>5 DEF Retry, Disposed, Socket
  <2>2. QED  BY <1>3, <1>5, <2>1 DEF Retry, logVars
<1>6. ASSUME NEW why \in {"unauthenticated", "offline"}, NoTicket(why)  PROVE Once'
  <2>1. Disposed => Disposed'  BY <1>0, <1>6 DEF NoTicket, Disposed, Socket
  <2>2. QED  BY <1>3, <1>6, <2>1 DEF NoTicket, logVars
<1>7. ASSUME NEW c \in Conn, TicketArrives(c)  PROVE Once'
  <2>1. Disposed => Disposed'  BY <1>0, <1>7 DEF TicketArrives, Disposed, Socket
  <2>2. QED  BY <1>3, <1>7, <2>1 DEF TicketArrives, logVars
<1>8. ASSUME NEW c \in Conn, Disconnected(c)  PROVE Once'
  <2>1. Disposed => Disposed'  BY <1>0, <1>8 DEF Disconnected, Disposed, Socket
  <2>2. QED  BY <1>3, <1>8, <2>1 DEF Disconnected, Hangs, logVars
<1>9. CASE Dispose
  <2>1. ~Disposed  BY <1>9 DEF Dispose
  <2>2. UNCHANGED <<seen, view, act>> /\ seq' = seq
    BY <1>9 DEF Dispose, Hangs, logVars
  <2>3. QED  BY <1>3, <2>1, <2>2
<1>10. ASSUME NEW c \in Conn, OnFrame(c)  PROVE Once'
  <2> DEFINE frame == Head(wire[c])
  <2>1. /\ wire[c] # << >> /\ UNCHANGED act /\ seq' = seq
        /\ \/ frame.type = "HELLO" /\ OnHello(c, frame)
           \/ frame.type = "EVENT" /\ OnEvent(frame)
           \/ frame.type = "DELTA" /\ OnDelta(c, frame)
           \/ frame.type = "SNAPSHOT" /\ OnSnapshot(frame)
           \/ frame.type = "ERROR" /\ UNCHANGED <<up, client, seen, view>>
    BY <1>10 DEF OnFrame, logVars
  <2>2. frame \in Frame(seq, oldest)  BY <2>1, Tailed DEF IInv, WireWithin
  <2> HIDE DEF frame
  <2>3. CASE UNCHANGED <<client, seen, view>>
    BY <1>3, <2>1, <2>3 DEF Disposed
  <2>4. ASSUME NEW events \in Seq(1..seq), Apply(events)  PROVE Once'
    BY <2>1, <2>4, ApplyKeepsOnce
  <2>5. CASE frame.type = "EVENT" /\ OnEvent(frame)
    <3>1. frame.seq \in 1..seq  BY <1>0, <2>2, <2>5, FrameFacts
    <3>2. <<frame.seq>> \in Seq(1..seq)  BY <3>1
    <3>3. QED  BY <2>4, <2>5, <3>2 DEF OnEvent
  <2>6. CASE frame.type = "DELTA" /\ OnDelta(c, frame)
    <3>1. frame.events \in Seq(1..seq)  BY <1>0, <2>2, <2>6, FrameFacts
    <3>2. QED  BY <2>3, <2>4, <2>6, <3>1 DEF OnDelta
  <2>7. CASE frame.type = "SNAPSHOT" /\ OnSnapshot(frame)
    <3>1. seen' = << >> /\ Shows([Rows(frame.rows) EXCEPT !.snapshot = frame.seq])
          /\ client' = [client EXCEPT !.lastSeq = frame.seq]
      BY <2>7 DEF OnSnapshot
    <3>2. Disposed' <=> Disposed  BY <1>0, <3>1 DEF Disposed, Socket
    <3>3. CASE Disposed
      BY <2>1, <3>1, <3>2, <3>3, EmptyFacts DEF Shows, Once
    <3>4. CASE ~Disposed
      <4>1. view'.applied = << >>  BY <3>1, <3>4 DEF Shows, Rows
      <4>2. QED  BY <2>1, <3>1, <4>1, EmptyFacts DEF Once
    <3>5. QED  BY <3>3, <3>4
  <2>8. QED  BY <2>1, <2>3, <2>5, <2>6, <2>7 DEF OnHello
<1>11. ASSUME seen' = seen, seq' <= DedupeCapacity, act'.sent # 0  PROVE Once'
  BY <1>11 DEF Once
<1>12. CASE ActSends
  <2>1. act'.sent = act.sent + 1  BY <1>2, <1>12 DEF ActSends
  <2>2. act'.sent # 0  BY <1>2, <2>1
  <2>3. QED  BY <1>0, <1>11, <1>12, <2>2 DEF ActSends, logVars
<1>13. CASE ActCommits
  <2>1. seq < MaxSeq /\ seq' = seq + 1 /\ act.pc = "sent" /\ seen' = seen
        /\ act' = [act EXCEPT !.pc = "committed", !.reply = seq + 1]
    BY <1>13 DEF ActCommits
  <2>2. seq' <= DedupeCapacity  BY <1>0, <2>1
  <2>3. act.sent # 0  BY <1>0, <2>1
  <2>4. act'.sent # 0  BY <1>2, <2>1, <2>3
  <2>5. QED  BY <1>11, <2>1, <2>2, <2>4
<1>14. ASSUME act' = NoAct(act.sent), act.pc # "idle", seen' = seen, seq' = seq
       PROVE  Once'
  <2>1. act.sent # 0  BY <1>0, <1>14
  <2>2. act'.sent # 0  BY <1>14, <2>1 DEF NoAct
  <2>3. QED  BY <1>0, <1>11, <1>14, <2>2
<1>15. CASE ActSucceeds
  BY <1>14, <1>15 DEF ActSucceeds, logVars
<1>16. CASE ActFails
  BY <1>14, <1>16 DEF ActFails, logVars
<1>17. QED
  BY <1>4, <1>5, <1>6, <1>7, <1>8, <1>9, <1>10, <1>12, <1>13, <1>15, <1>16 DEF ClientStep

\* FR-34: while the user sends no mutation, an event is folded over one snapshot
\* once, although the live stream, deltas and reconnections all deliver it; of
\* a log that the dedupe window can hold (RoomSocket._remember).
THEOREM EventsAreAppliedOnce ==
  ASSUME MaxSeq <= DedupeCapacity
  PROVE  SyncSpec => []AppliedOnce
<1>1. SyncInit => IInv /\ Once
  <2>1. SUFFICES ASSUME SyncInit PROVE Once  BY InitWithin
  <2>2. seq = 1 /\ seen = << >> /\ act.pc = "idle" /\ view.applied = << >>
    BY <2>1 DEF SyncInit, NoAct, Rows
  <2>3. 1 <= DedupeCapacity  BY SyncAssumption
  <2>4. QED  BY <2>2, <2>3, EmptyFacts DEF Once
<1>2. IInv /\ Once /\ [SyncNext]_syncVars => (IInv /\ Once)'
  <2>1. SUFFICES ASSUME IInv, Once, [SyncNext]_syncVars PROVE Once'  BY StepWithin
  <2>2. CASE UNCHANGED syncVars
    BY <2>1, <2>2, OnceStays DEF syncVars, logVars, clientVars, Disposed, Once
  <2>3. QED
    BY <2>1, <2>2, ServerStepKeepsOnce, LogStepKeepsOnce, ClientStepKeepsOnce DEF SyncNext
<1>3. Once => AppliedOnce  BY DEF Once, AppliedOnce
<1>4. QED  BY <1>1, <1>2, <1>3, PTL DEF SyncSpec
=============================================================================
