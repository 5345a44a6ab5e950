-------------------------- MODULE IdempotencyProofs --------------------------
(***************************************************************************)
(* Theorems about Idempotency, for every set of calls, keys and requests,  *)
(* either store, and all windows longer than a request may run.            *)
(***************************************************************************)
EXTENDS Idempotency, TLAPS

USE IdempotencyAssumption, NoRowAssumption

-----------------------------------------------------------------------------
(* Facts about a single state.                                             *)

\* What is known of a request that is not idle.
LEMMA BusyIsWorking ==
  ASSUME TypeOK, NEW r \in Request, req[r].pc # "idle"
  PROVE  req[r] \in Working /\ req[r] # Idle
BY DEF TypeOK, Idle

\* Executions and their keys.
LEMMA RunsAreTyped ==
  ASSUME TypeOK
  PROVE  \A m \in DOMAIN runs : runs[m] \in Run /\ m \in Nat /\ m # 0 /\ KeyOfRun(m) \in Key
<1>1. \A m \in DOMAIN runs : runs[m] \in Run /\ m \in Nat /\ m # 0
  BY DEF TypeOK
<1>. QED
  BY <1>1 DEF KeyOfRun, Run

\* The row a request holds is not up for taking, at the time of any request.
LEMMA HeldIsTaken ==
  ASSUME IInv, NEW r \in Request, AtWork(r), NEW t \in Int, t <= now
  PROVE  Taken(records[KeyOf[req[r].call]], t)
<1>1. req[r] \in Working /\ req[r] # Idle
  BY BusyIsWorking DEF IInv, AtWork
<1>2. req[r].run \in DOMAIN runs /\ runs \in Seq(Run) /\ now \in Nat
  BY DEF IInv, InOrder, TypeOK
<1>3. runs[req[r].run] \in Run
  BY <1>2
<1>4. /\ now <= req[r].at + Timeout
      /\ runs[req[r].run].until >= req[r].at + TTL
  BY <1>1 DEF IInv, InOrder
<1>5. runs[req[r].run].until > t
  BY <1>1, <1>2, <1>3, <1>4 DEF Run, Working
<1>6. records[KeyOf[req[r].call]]
        = Reservation(req[r].call, req[r].run, runs[req[r].run].until)
  BY DEF IInv, OwnReservation
<1>7. Reservation(req[r].call, req[r].run, runs[req[r].run].until) \in Row
  BY <1>1, <1>2, <1>3 DEF Reservation, Row, Working, Run, Status
<1>. QED
  BY <1>5, <1>6, <1>7 DEF Taken, Reservation

\* Two requests at work do not hold the same key.
LEMMA OneHolder ==
  ASSUME IInv, NEW r \in Request, NEW s \in Request, AtWork(r), AtWork(s),
         KeyOf[req[r].call] = KeyOf[req[s].call]
  PROVE  r = s
<1>1. Reservation(req[r].call, req[r].run, runs[req[r].run].until)
        = Reservation(req[s].call, req[s].run, runs[req[s].run].until)
  BY DEF IInv, OwnReservation
<1>2. req[r].run = req[s].run
  BY <1>1 DEF Reservation
<1>. QED
  BY <1>2 DEF IInv, InOrder

-----------------------------------------------------------------------------
(* Steps that leave the rows and the executions alone.                     *)

\* What AnswersOwnRequest asks of one request.
AnswerOK(q) ==
  /\ q.answer.kind = "replay" =>
       /\ q.answer.run \in DOMAIN runs
       /\ runs[q.answer.run].outcome = "answered"
       /\ Fingerprint[runs[q.answer.run].call] = Fingerprint[q.call]
  /\ q.answer.kind = "fresh" =>
       /\ q.answer.run \in DOMAIN runs
       /\ runs[q.answer.run].call = q.call

\* A step that gives one request another state, in which it is not at work.
LEMMA RequestStep ==
  ASSUME IInv, NEW r \in Request, NEW q \in Working \cup {Idle},
         req' = [req EXCEPT ![r] = q],
         UNCHANGED <<store, now, records, runs>>,
         call' \in [Call -> CallState], Attempts',
         q.pc \notin {"handler", "complete", "release"},
         q # Idle => q.at <= now /\ now <= q.at + Timeout,
         q.pc = "reserve" => q.answer = NoAnswer,
         q.seen # NoRow => TellsOf(q.seen, KeyOf[q.call]),
         AnswerOK(q)
  PROVE  IInv'
<1>1. req \in [Request -> Working \cup {Idle}]
  BY DEF IInv, TypeOK
<1>2. \A s \in Request : req'[s] = IF s = r THEN q ELSE req[s]
  BY <1>1
<1>3. \A s \in Request : AtWork(s)' => s # r /\ AtWork(s) /\ req'[s] = req[s]
  BY <1>2 DEF AtWork
<1>4. TypeOK'
  BY <1>1 DEF IInv, TypeOK
<1>5. OneExecution' /\ WindowHeld'
  BY DEF IInv, OneExecution, WindowHeld, KeyOfRun
<1>6. AnswersOwnRequest'
  BY <1>2 DEF IInv, AnswersOwnRequest, AnswerOK
<1>7. OwnReservation'
  BY <1>3 DEF IInv, OwnReservation
<1>8. RowsTell'
  BY <1>2 DEF IInv, RowsTell, TellsOf
<1>9. InOrder'
  BY <1>2, <1>3 DEF IInv, InOrder
<1>. QED
  BY <1>4, <1>5, <1>6, <1>7, <1>8, <1>9 DEF IInv

LEMMA IdleIsHarmless == AnswerOK(Idle) /\ Idle.seen = NoRow /\ Idle.pc = "idle"
BY DEF AnswerOK, Idle, NoAnswer

LEMMA SentStep ==
  ASSUME IInv, NEW c \in Call, NEW r \in Request, Sent(c, r),
         call[c].pc \in {"idle", "backoff"}
  PROVE  IInv'
<1>1. Arrived(c) \in Working
  <2>1. now \in Int /\ records[KeyOf[c]] \in Row \cup {NoRow}
    BY DEF IInv, TypeOK
  <2>. QED
    BY <2>1 DEF Arrived, Idle, Working, Answer, NoAnswer
<1>2. /\ Arrived(c).at = now
      /\ Arrived(c).pc \in {"reserve", "answered"}
      /\ Arrived(c).call = c
      /\ Arrived(c).answer.kind \notin {"replay", "fresh"}
      /\ Arrived(c).pc = "reserve" => Arrived(c).answer = NoAnswer
      /\ Arrived(c).seen \in {NoRow, records[KeyOf[c]]}
  BY DEF Arrived, Idle, NoAnswer
<1>3. Arrived(c).seen # NoRow => TellsOf(Arrived(c).seen, KeyOf[Arrived(c).call])
  BY <1>2 DEF IInv, RowsTell
<1>4. call' \in [Call -> CallState] /\ Attempts'
  <2>1. call \in [Call -> CallState] /\ call[c].attempt < 2
    BY DEF IInv, TypeOK, Attempts
  <2>2. call[c].attempt + 1 \in 0..2
    BY <2>1 DEF CallState
  <2>. QED
    BY <2>1, <2>2 DEF Sent, CallState, IInv, Attempts
<1>5. now \in Nat
  BY DEF IInv, TypeOK
<1> DEFINE q == Arrived(c)
<1>6. AnswerOK(q)
  BY <1>2 DEF AnswerOK
<1>7. req' = [req EXCEPT ![r] = q] /\ UNCHANGED <<store, now, records, runs>>
  BY DEF Sent
<1>8. q.at <= now /\ now <= q.at + Timeout
  BY <1>2, <1>5
<1>9. q \in Working /\ q.pc \notin {"handler", "complete", "release"}
      /\ (q.pc = "reserve" => q.answer = NoAnswer)
      /\ (q.seen # NoRow => TellsOf(q.seen, KeyOf[q.call]))
  BY <1>1, <1>2, <1>3
<1>. HIDE DEF q
<1>. QED
  BY <1>4, <1>6, <1>7, <1>8, <1>9, RequestStep

LEMMA ReceivesStep ==
  ASSUME IInv, NEW c \in Call, NEW r \in Request, Receives(c, r)
  PROVE  IInv'
<1>1. call \in [Call -> CallState]
  BY DEF IInv, TypeOK
<1>2. call' \in [Call -> CallState]
  BY <1>1 DEF Receives, CallState
<1>3. Attempts'
  BY <1>1 DEF Receives, CallState, MayRetry, IInv, Attempts
<1>. QED
  BY <1>2, <1>3 DEF Receives, IInv, TypeOK, OneExecution, AnswersOwnRequest, OwnReservation,
     WindowHeld, RowsTell, InOrder, KeyOfRun, AtWork, TellsOf

LEMMA MissesStep ==
  ASSUME IInv, NEW c \in Call, Misses(c)
  PROVE  IInv'
<1>1. call \in [Call -> CallState]
  BY DEF IInv, TypeOK
<1>2. call' \in [Call -> CallState]
  BY <1>1 DEF Misses, CallState
<1>3. Attempts'
  BY <1>1 DEF Misses, CallState, MayRetry, IInv, Attempts
<1>. QED
  BY <1>2, <1>3 DEF Misses, IInv, TypeOK, OneExecution, AnswersOwnRequest, OwnReservation,
     WindowHeld, RowsTell, InOrder, KeyOfRun, AtWork, TellsOf

LEMMA EndsStep ==
  ASSUME IInv, NEW r \in Request, Ends(r)
  PROVE  IInv'
<1>1. call' \in [Call -> CallState] /\ Attempts'
  BY DEF Ends, IInv, TypeOK, Attempts
<1>. QED
  BY <1>1, IdleIsHarmless, RequestStep DEF Ends

LEMMA ReserveFailsStep ==
  ASSUME IInv, NEW r \in Request, ReserveFails(r)
  PROVE  IInv'
<1> DEFINE q == Answered([req[r] EXCEPT !.seen = NoRow], "error", 0)
<1>1. req[r] \in Working /\ req[r] # Idle
  BY BusyIsWorking DEF ReserveFails, IInv
<1>2. q \in Working /\ q.at = req[r].at /\ q.pc = "answered" /\ q.seen = NoRow /\ q.answer.kind = "error"
  BY <1>1 DEF Answered, Working, Answer
<1>3. req[r].at <= now /\ now <= req[r].at + Timeout
  BY <1>1 DEF IInv, InOrder
<1>4. call' \in [Call -> CallState] /\ Attempts'
  BY DEF ReserveFails, IInv, TypeOK, Attempts
<1>5. AnswerOK(q)
  BY <1>2 DEF AnswerOK
<1>6. req' = [req EXCEPT ![r] = q] /\ UNCHANGED <<store, now, records, runs>>
  BY DEF ReserveFails
<1>. HIDE DEF q
<1>. QED
  BY <1>2, <1>3, <1>4, <1>5, <1>6, RequestStep

LEMMA StoreFailsStep ==
  ASSUME IInv, NEW r \in Request, StoreFails(r)
  PROVE  IInv'
<1> DEFINE q == [req[r] EXCEPT !.pc = "answered"]
<1>1. req[r] \in Working /\ req[r] # Idle
  BY BusyIsWorking DEF StoreFails, IInv
<1>2. q \in Working /\ q.at = req[r].at /\ q.pc = "answered" /\ q.seen = req[r].seen
      /\ q.call = req[r].call /\ q.answer = req[r].answer
  BY <1>1 DEF Working
<1>3. req[r].at <= now /\ now <= req[r].at + Timeout
  BY <1>1 DEF IInv, InOrder
<1>4. call' \in [Call -> CallState] /\ Attempts'
  BY DEF StoreFails, IInv, TypeOK, Attempts
<1>5. AnswerOK(q)
  BY <1>2 DEF AnswerOK, IInv, AnswersOwnRequest
<1>6. q.seen # NoRow => TellsOf(q.seen, KeyOf[q.call])
  BY <1>2 DEF IInv, RowsTell
<1>7. req' = [req EXCEPT ![r] = q] /\ UNCHANGED <<store, now, records, runs>>
  BY DEF StoreFails
<1>. HIDE DEF q
<1>. QED
  BY <1>2, <1>3, <1>4, <1>5, <1>6, <1>7, RequestStep

LEMMA TickStep ==
  ASSUME IInv, Tick
  PROVE  IInv'
<1>1. now \in Nat /\ now' = now + 1 /\ UNCHANGED <<store, records, runs, req, call>>
  BY DEF Tick, IInv, TypeOK
<1>2. TypeOK'
  BY <1>1 DEF IInv, TypeOK
<1>3. WindowHeld'
  <2> SUFFICES ASSUME NEW n \in DOMAIN runs, runs[n].outcome # "failed", now + 1 < runs[n].until
               PROVE  records[KeyOfRun(n)] # NoRow /\ records[KeyOfRun(n)].run = n
    BY <1>1 DEF WindowHeld, KeyOfRun
  <2>1. runs[n] \in Run
    BY DEF IInv, TypeOK
  <2>2. now < runs[n].until
    BY <1>1, <2>1 DEF Run
  <2>. QED
    BY <2>2 DEF IInv, WindowHeld
<1>4. InOrder'
  <2>1. ASSUME NEW r \in Request, req[r] # Idle
        PROVE  req[r].at <= now + 1 /\ now + 1 <= req[r].at + Timeout
    <3>1. req[r] \in Working
      BY <2>1 DEF IInv, TypeOK
    <3>. QED
      BY <1>1, <2>1, <3>1 DEF Tick, IInv, InOrder, Working
  <2>. QED
    BY <1>1, <2>1 DEF IInv, InOrder, AtWork
<1>5. OneExecution' /\ AnswersOwnRequest' /\ OwnReservation' /\ RowsTell' /\ Attempts'
  BY <1>1 DEF IInv, OneExecution, AnswersOwnRequest, OwnReservation, RowsTell, Attempts,
     KeyOfRun, AtWork, TellsOf
<1>. QED
  BY <1>2, <1>3, <1>4, <1>5 DEF IInv

-----------------------------------------------------------------------------
(* The reservation.                                                        *)

\* A key that may be taken is not held, and its executions are out of their
\* windows or failed.
LEMMA Takeable ==
  ASSUME IInv, NEW k \in Key, NEW t \in Int, t <= now, ~Taken(records[k], t)
  PROVE  /\ \A m \in DOMAIN runs :
              KeyOfRun(m) = k /\ runs[m].outcome # "failed" => now >= runs[m].until
         /\ \A s \in Request : AtWork(s) => KeyOf[req[s].call] # k
<1>1. ASSUME NEW m \in DOMAIN runs, KeyOfRun(m) = k, runs[m].outcome # "failed"
      PROVE  now >= runs[m].until
  <2>1. runs[m] \in Run /\ now \in Nat /\ m \in Nat /\ m # 0
    BY DEF IInv, TypeOK
  <2>2. SUFFICES ASSUME now < runs[m].until PROVE FALSE
    BY <2>1 DEF Run
  <2>3. records[k] # NoRow /\ records[k].run = m
    BY <1>1, <2>2 DEF IInv, WindowHeld
  <2>4. records[k].expires = runs[m].until
    BY <2>1, <2>3 DEF IInv, RowsTell, TellsOf
  <2>. QED
    BY <2>1, <2>2, <2>3, <2>4 DEF Taken, Run
<1>2. ASSUME NEW s \in Request, AtWork(s)
      PROVE  KeyOf[req[s].call] # k
  BY <1>2, HeldIsTaken
<1>. QED
  BY <1>1, <1>2

\* The row of a key that may be taken is replaced by one of no execution.
LEMMA OrphanStep ==
  ASSUME IInv, NEW r \in Request, NEW k \in Key, NEW t \in Int, t <= now,
         ~Taken(records[k], t), NEW row \in Row, row.status = "in_flight", row.run = 0,
         NEW q \in Working, req' = [req EXCEPT ![r] = q],
         records' = [records EXCEPT ![k] = row],
         UNCHANGED <<store, now, runs, call>>,
         q.pc = "answered", q.at <= now, now <= q.at + Timeout,
         q.seen = NoRow, AnswerOK(q)
  PROVE  IInv'
<1>1. /\ req \in [Request -> Working \cup {Idle}]
      /\ records \in [Key -> Row \cup {NoRow}]
  BY DEF IInv, TypeOK
<1>2. /\ \A s \in Request : req'[s] = IF s = r THEN q ELSE req[s]
      /\ \A j \in Key : records'[j] = IF j = k THEN row ELSE records[j]
  BY <1>1
<1>3. \A s \in Request : AtWork(s)' => s # r /\ AtWork(s) /\ req'[s] = req[s]
  BY <1>2 DEF AtWork
<1>4. TypeOK'
  BY <1>1 DEF IInv, TypeOK
<1>5. OneExecution' /\ Attempts'
  BY DEF IInv, OneExecution, KeyOfRun, Attempts
<1>6. WindowHeld'
  <2> SUFFICES ASSUME NEW m \in DOMAIN runs, runs[m].outcome # "failed", now < runs[m].until
               PROVE  records'[KeyOfRun(m)] # NoRow /\ records'[KeyOfRun(m)].run = m
    BY DEF WindowHeld, KeyOfRun
  <2>1. runs[m] \in Run /\ now \in Nat
    BY DEF IInv, TypeOK
  <2>2. KeyOfRun(m) # k
    BY <2>1, Takeable DEF Run
  <2>3. KeyOfRun(m) \in Key
    BY <2>1 DEF KeyOfRun, Run
  <2>. QED
    BY <1>2, <2>2, <2>3 DEF IInv, WindowHeld
<1>7. AnswersOwnRequest'
  BY <1>2 DEF IInv, AnswersOwnRequest, AnswerOK
<1>8. OwnReservation'
  <2> SUFFICES ASSUME NEW s \in Request, AtWork(s)'
               PROVE  records'[KeyOf[req[s].call]]
                        = Reservation(req[s].call, req[s].run, runs[req[s].run].until)
    BY <1>3 DEF OwnReservation
  <2>1. AtWork(s)
    BY <1>3
  <2>2. KeyOf[req[s].call] \in Key
    BY <1>1, <2>1, BusyIsWorking DEF AtWork, Working, IInv
  <2>3. KeyOf[req[s].call] # k
    BY <2>1, Takeable
  <2>. QED
    BY <1>2, <2>1, <2>2, <2>3 DEF IInv, OwnReservation
<1>9. RowsTell'
  BY <1>2 DEF IInv, RowsTell, TellsOf
<1>10. InOrder'
  BY <1>2, <1>3 DEF IInv, InOrder
<1>. QED
  BY <1>4, <1>5, <1>6, <1>7, <1>8, <1>9, <1>10 DEF IInv

\* TellsOf for any list of executions.
Tells(xs, row, k) ==
  /\ row.run # 0 =>
       /\ row.run \in DOMAIN xs
       /\ xs[row.run].call = row.by
       /\ xs[row.run].until = row.expires
       /\ KeyOf[row.by] = k
  /\ row.status = "completed" => row.run # 0 /\ xs[row.run].outcome = "answered"

\* The row is replaced by one of a new execution, and the handler runs.
LEMMA FreshStep ==
  ASSUME IInv, NEW r \in Request, NEW c \in Call, NEW t \in Int, t <= now,
         ~Taken(records[KeyOf[c]], t),
         NEW q \in Working, req' = [req EXCEPT ![r] = q],
         records' = [records EXCEPT ![KeyOf[c]] = Reservation(c, Len(runs) + 1, t + TTL)],
         runs' = Append(runs, [call |-> c, began |-> now, until |-> t + TTL,
                               outcome |-> "running"]),
         UNCHANGED <<store, now, call>>,
         q.pc = "handler", q.call = c, q.run = Len(runs) + 1, q.answer = NoAnswer,
         q.at <= t, now <= q.at + Timeout, q.seen = NoRow
  PROVE  IInv'
<1> DEFINE n == Len(runs) + 1
           k == KeyOf[c]
           row == Reservation(c, n, t + TTL)
           run == [call |-> c, began |-> now, until |-> t + TTL, outcome |-> "running"]
<1>1. /\ req \in [Request -> Working \cup {Idle}]
      /\ records \in [Key -> Row \cup {NoRow}]
      /\ runs \in Seq(Run) /\ now \in Nat /\ k \in Key /\ n \in Nat \ {0}
  BY DEF IInv, TypeOK
<1>2. row \in Row /\ run \in Run /\ row # NoRow /\ row.run = n /\ row.status = "in_flight"
      /\ row.by = c /\ row.expires = t + TTL
  BY <1>1 DEF Reservation, Row, Run, Status, Outcome
<1>3. /\ \A s \in Request : req'[s] = IF s = r THEN q ELSE req[s]
      /\ \A j \in Key : records'[j] = IF j = k THEN row ELSE records[j]
  BY <1>1
<1>4. /\ DOMAIN runs = 1..(n - 1) /\ DOMAIN runs' = 1..n
      /\ runs'[n] = run
      /\ \A m \in DOMAIN runs : m \in DOMAIN runs' /\ m # n /\ runs'[m] = runs[m] /\ runs[m] \in Run
  BY <1>1, <1>2
<1>. HIDE DEF n, k, row, run
<1>5. ASSUME NEW s \in Request, AtWork(s)', s # r
      PROVE  /\ AtWork(s) /\ req'[s] = req[s]
             /\ req[s].run \in DOMAIN runs
             /\ KeyOf[req[s].call] \in Key /\ KeyOf[req[s].call] # k
  <2>1. AtWork(s) /\ req'[s] = req[s]
    BY <1>3, <1>5 DEF AtWork
  <2>2. req[s] \in Working
    BY <2>1, BusyIsWorking DEF AtWork, IInv
  <2>. QED
    BY <1>1, <2>1, <2>2, Takeable DEF Working, IInv, InOrder, k
<1>6. TypeOK'
  BY <1>1, <1>2 DEF IInv, TypeOK, k, row, run, n
<1>7. OneExecution'
  <2> SUFFICES ASSUME NEW l \in DOMAIN runs', NEW m \in DOMAIN runs', l < m,
                      KeyOfRun(l)' = KeyOfRun(m)', runs'[l].outcome # "failed"
               PROVE  runs'[m].began >= runs'[l].until
    BY DEF OneExecution
  <2>1. l \in DOMAIN runs
    BY <1>1, <1>4
  <2>2. CASE m = n
    <3>1. KeyOfRun(l) = k /\ runs'[m].began = now
      BY <1>4, <2>1, <2>2 DEF KeyOfRun, run, k
    <3>. QED
      BY <1>1, <1>4, <2>1, <2>2, <3>1, Takeable DEF k
  <2>3. CASE m \in DOMAIN runs
    BY <1>4, <2>1, <2>3 DEF IInv, OneExecution, KeyOfRun
  <2>. QED
    BY <1>1, <1>4, <2>2, <2>3
<1>8. AnswersOwnRequest'
  BY <1>3, <1>4 DEF IInv, AnswersOwnRequest, NoAnswer
<1>9. OwnReservation'
  <2> SUFFICES ASSUME NEW s \in Request, AtWork(s)'
               PROVE  records'[KeyOf[req'[s].call]]
                        = Reservation(req'[s].call, req'[s].run, runs'[req'[s].run].until)
    BY DEF OwnReservation
  <2>1. CASE s = r
    BY <1>1, <1>3, <1>4, <2>1 DEF row, run, k, n
  <2>2. CASE s # r
    BY <1>3, <1>4, <1>5, <2>2 DEF IInv, OwnReservation
  <2>. QED
    BY <2>1, <2>2
<1>10. WindowHeld'
  <2> SUFFICES ASSUME NEW m \in DOMAIN runs', runs'[m].outcome # "failed", now < runs'[m].until
               PROVE  records'[KeyOfRun(m)'] # NoRow /\ records'[KeyOfRun(m)'].run = m
    BY DEF WindowHeld, KeyOfRun
  <2>1. CASE m = n
    BY <1>1, <1>2, <1>3, <1>4, <2>1 DEF KeyOfRun, run, k
  <2>2. CASE m \in DOMAIN runs
    <3>1. KeyOfRun(m) \in Key /\ KeyOfRun(m)' = KeyOfRun(m) /\ runs'[m] = runs[m]
      BY <1>4, <2>2 DEF KeyOfRun, Run
    <3>2. KeyOfRun(m) # k
      BY <1>1, <1>4, <2>2, <3>1, Takeable DEF k, Run
    <3>. QED
      BY <1>3, <2>2, <3>1, <3>2 DEF IInv, WindowHeld
  <2>. QED
    BY <1>1, <1>4, <2>1, <2>2
<1>11. RowsTell'
  <2>1. RowsTell' <=>
          /\ \A j \in Key : records'[j] # NoRow => Tells(runs', records'[j], j)
          /\ \A s \in Request : req'[s].seen # NoRow
               => Tells(runs', req'[s].seen, KeyOf[req'[s].call])
    BY DEF RowsTell, TellsOf, Tells
  <2>2. \A x, j : Tells(runs, x, j) => Tells(runs', x, j)
    BY <1>4 DEF Tells
  <2>3. Tells(runs', row, k)
    BY <1>1, <1>2, <1>4 DEF Tells, run, k
  <2>4. \A j \in Key : records[j] # NoRow => Tells(runs, records[j], j)
    BY DEF IInv, RowsTell, TellsOf, Tells
  <2>5. \A s \in Request : req[s].seen # NoRow => Tells(runs, req[s].seen, KeyOf[req[s].call])
    BY DEF IInv, RowsTell, TellsOf, Tells
  <2>. QED
    BY <1>3, <2>1, <2>2, <2>3, <2>4, <2>5
<1>12. InOrder'
  <2> SUFFICES ASSUME NEW s \in Request
               PROVE  /\ req'[s] # Idle => req'[s].at <= now /\ now <= req'[s].at + Timeout
                      /\ req'[s].pc \in {"reserve", "handler"} => req'[s].answer = NoAnswer
                      /\ AtWork(s)' =>
                           /\ req'[s].run \in DOMAIN runs'
                           /\ runs'[req'[s].run].call = req'[s].call
                           /\ runs'[req'[s].run].until >= req'[s].at + TTL
                           /\ runs'[req'[s].run].outcome = OutcomeAt(req'[s].pc)
                           /\ \A v \in Request : AtWork(v)' /\ req'[v].run = req'[s].run => s = v
    BY DEF InOrder
  <2>1. CASE s = r
    <3>1. req'[s] = q /\ q.run = n
      BY <1>3, <2>1 DEF n
    <3>2. \A v \in Request : AtWork(v)' /\ v # r => req'[v].run # n
      BY <1>4, <1>5
    <3>3. q.at <= now
      BY <1>1 DEF Working
    <3>4. t + TTL >= q.at + TTL
      BY <1>1 DEF Working
    <3>. QED
      BY <1>1, <1>4, <2>1, <3>1, <3>2, <3>3, <3>4 DEF run, OutcomeAt, n
  <2>2. CASE s # r
    <3>1. req'[s] = req[s]
      BY <1>3, <2>2
    <3>2. ASSUME AtWork(s)', NEW v \in Request, AtWork(v)', req'[v].run = req'[s].run
          PROVE  s = v
      BY <1>3, <1>4, <1>5, <2>2, <3>1, <3>2 DEF IInv, InOrder, n
    <3>. QED
      BY <1>4, <1>5, <2>2, <3>1, <3>2 DEF IInv, InOrder
  <2>. QED
    BY <2>1, <2>2
<1>13. Attempts'
  BY DEF IInv, Attempts
<1>. QED
  BY <1>6, <1>7, <1>8, <1>9, <1>10, <1>11, <1>12, <1>13 DEF IInv

LEMMA ReserveStep ==
  ASSUME IInv, NEW r \in Request, Reserve(r)
  PROVE  IInv'
<1> DEFINE q == [req[r] EXCEPT !.seen = NoRow]
           k == KeyOf[q.call]
           t == IF store = "memory" THEN now ELSE q.at
           n == Len(runs) + 1
           res == Reserved(records[k], req[r].seen, t)
           row == Reservation(q.call, IF res.tells = "fresh" THEN n ELSE 0, t + TTL)
<1>1. req[r] \in Working /\ req[r] # Idle /\ req[r].pc = "reserve"
  <2>1. req[r].pc = "reserve"
    BY DEF Reserve, Working
  <2>. QED
    BY <2>1, BusyIsWorking DEF IInv
<1>2. /\ q \in Working /\ q.pc = "reserve" /\ q.seen = NoRow
      /\ q.call = req[r].call /\ q.at = req[r].at /\ q.answer = req[r].answer
  BY <1>1 DEF Reserve, Working
<1>3. /\ q.at \in Int /\ now \in Nat /\ q.at <= now /\ now <= q.at + Timeout
      /\ q.call \in Call /\ k \in Key /\ runs \in Seq(Run) /\ n \in Nat
      /\ records[k] \in Row \cup {NoRow}
  BY <1>1, <1>2 DEF IInv, InOrder, TypeOK, Working
<1>4. t \in Int /\ q.at <= t /\ t <= now
  BY <1>3
<1>5. /\ records' = IF Taken(records[k], t) THEN records ELSE [records EXCEPT ![k] = row]
      /\ \/ /\ res.tells = "fresh"
            /\ runs' = Append(runs, [call |-> q.call, began |-> now, until |-> t + TTL,
                                     outcome |-> "running"])
            /\ req' = [req EXCEPT ![r] = [q EXCEPT !.pc = "handler", !.run = n]]
         \/ /\ res.tells = "existing"
            /\ req' = [req EXCEPT ![r] = Existing(q, res.row)]
            /\ UNCHANGED runs
         \/ /\ res.tells = "vanished"
            /\ req' = [req EXCEPT ![r] = Answered(q, "vanished", 0)]
            /\ UNCHANGED runs
      /\ UNCHANGED <<store, now, call>>
  BY DEF Reserve
<1>6. /\ res.tells = "fresh" => ~Taken(records[k], t)
      /\ res.tells = "existing" =>
           /\ Taken(records[k], t)
           /\ res.row # NoRow
           /\ res.row \in {records[k], req[r].seen}
  BY DEF Reserved, Taken
<1>7. req[r].seen # NoRow => TellsOf(req[r].seen, k) /\ req[r].seen \in Row
  BY <1>1, <1>2 DEF IInv, RowsTell, Working
<1>8. records[k] # NoRow => TellsOf(records[k], k)
  BY <1>3 DEF IInv, RowsTell
<1>. HIDE DEF q, k, t, n, res
<1>9. call' \in [Call -> CallState] /\ Attempts'
  BY <1>5 DEF IInv, TypeOK, Attempts
<1>10. CASE res.tells = "fresh"
  <2> DEFINE w == [q EXCEPT !.pc = "handler", !.run = n]
  <2>1. /\ w \in Working /\ w.pc = "handler" /\ w.run = n /\ w.call = q.call
        /\ w.at = q.at /\ w.seen = NoRow /\ w.answer = q.answer
    BY <1>2, <1>3 DEF Working
  <2>2. q.answer = NoAnswer
    BY <1>1, <1>2 DEF IInv, InOrder
  <2>3. row = Reservation(q.call, n, t + TTL)
    BY <1>10
  <2>. HIDE DEF w, row
  <2>4. req' = [req EXCEPT ![r] = w]
    BY <1>5, <1>10 DEF w
  <2>5. /\ runs' = Append(runs, [call |-> q.call, began |-> now, until |-> t + TTL,
                                  outcome |-> "running"])
        /\ records' = [records EXCEPT ![KeyOf[q.call]] = Reservation(q.call, Len(runs) + 1, t + TTL)]
        /\ ~Taken(records[KeyOf[q.call]], t)
        /\ UNCHANGED <<store, now, call>>
    BY <1>5, <1>6, <1>10, <2>3 DEF k, n
  <2>. QED
    BY <1>3, <1>4, <2>1, <2>2, <2>4, <2>5, FreshStep DEF n
<1>11. CASE res.tells = "existing"
  <2> DEFINE w == Existing(q, res.row)
  <2>1. TellsOf(res.row, k) /\ res.row \in Row
    BY <1>3, <1>6, <1>7, <1>8, <1>11
  <2>2. /\ w \in Working /\ w.pc = "answered" /\ w.call = q.call
        /\ w.at = q.at /\ w.seen = NoRow
        /\ w.answer.kind \in {"reused", "in_flight", "replay"}
        /\ w.answer.kind = "replay" =>
             /\ w.answer.run = res.row.run /\ res.row.status = "completed"
             /\ Fingerprint[res.row.by] = Fingerprint[q.call]
    BY <1>2, <2>1 DEF Existing, Answered, Working, Answer, Row, Status
  <2>3. AnswerOK(w)
    <3> HIDE DEF w
    <3>. QED
      BY <2>1, <2>2 DEF AnswerOK, TellsOf
  <2>. HIDE DEF w, row
  <2>4. req' = [req EXCEPT ![r] = w] /\ UNCHANGED <<store, now, records, runs>>
    BY <1>5, <1>6, <1>11 DEF w
  <2>. QED
    BY <1>3, <1>9, <2>2, <2>3, <2>4, RequestStep
<1>12. CASE res.tells = "vanished"
  <2> DEFINE w == Answered(q, "vanished", 0)
  <2>1. /\ w \in Working /\ w.pc = "answered" /\ w.call = q.call
        /\ w.at = q.at /\ w.seen = NoRow /\ w.answer.kind = "vanished"
    BY <1>2 DEF Answered, Working, Answer
  <2>2. row \in Row /\ row.status = "in_flight" /\ row.run = 0
    BY <1>3, <1>4, <1>12 DEF Reservation, Row, Status
  <2>. HIDE DEF w, row
  <2>3. AnswerOK(w)
    BY <2>1 DEF AnswerOK
  <2>4. req' = [req EXCEPT ![r] = w] /\ UNCHANGED <<store, now, runs, call>>
    BY <1>5, <1>12 DEF w
  <2>5. CASE Taken(records[k], t)
    <3>1. UNCHANGED records
      BY <1>5, <2>5
    <3>. QED
      BY <1>3, <1>9, <2>1, <2>3, <2>4, <3>1, RequestStep
  <2>6. CASE ~Taken(records[k], t)
    <3>1. records' = [records EXCEPT ![k] = row]
      BY <1>5, <2>6
    <3>. QED
      BY <1>3, <1>4, <2>1, <2>2, <2>3, <2>4, <2>6, <3>1, OrphanStep
  <2>. QED
    BY <2>5, <2>6
<1>. QED
  BY <1>5, <1>10, <1>11, <1>12

-----------------------------------------------------------------------------
(* The end of an execution, and of a reservation.                          *)

\* Executions that were running have ended: what else is known of them stays.
LEMMA OutcomesStep ==
  ASSUME IInv, runs' \in Seq(Run), DOMAIN runs' = DOMAIN runs,
         \A m \in DOMAIN runs :
           /\ runs'[m].call = runs[m].call
           /\ runs'[m].began = runs[m].began
           /\ runs'[m].until = runs[m].until
           /\ runs'[m].outcome = runs[m].outcome \/ runs[m].outcome = "running",
         UNCHANGED <<now, records>>
  PROVE  /\ OneExecution' /\ WindowHeld'
         /\ \A row, k : Tells(runs, row, k) => Tells(runs', row, k)
         /\ \A k \in Key : records[k] # NoRow => Tells(runs', records[k], k)
<1>1. OneExecution'
  BY DEF IInv, OneExecution, KeyOfRun
<1>2. WindowHeld'
  BY DEF IInv, WindowHeld, KeyOfRun
<1>3. \A row, k : Tells(runs, row, k) => Tells(runs', row, k)
  BY DEF Tells
<1>4. \A k \in Key : records[k] # NoRow => Tells(runs, records[k], k)
  BY DEF IInv, RowsTell, TellsOf, Tells
<1>. QED
  BY <1>1, <1>2, <1>3, <1>4

\* A list of executions of which one is given another outcome.
LEMMA SetOutcome ==
  ASSUME NEW xs \in Seq(Run), NEW n \in DOMAIN xs, NEW o \in Outcome,
         NEW ys, ys = [xs EXCEPT ![n] = [xs[n] EXCEPT !.outcome = o]]
  PROVE  /\ ys \in Seq(Run)
         /\ \A m \in DOMAIN xs :
              /\ ys[m].call = xs[m].call
              /\ ys[m].began = xs[m].began
              /\ ys[m].until = xs[m].until
              /\ ys[m].outcome = IF m = n THEN o ELSE xs[m].outcome
<1> DEFINE x == [xs[n] EXCEPT !.outcome = o]
<1>1. xs[n] \in Run /\ \A m \in DOMAIN xs : xs[m] \in Run
  OBVIOUS
<1>2. /\ x \in Run /\ x.call = xs[n].call /\ x.began = xs[n].began
      /\ x.until = xs[n].until /\ x.outcome = o
  BY <1>1 DEF Run
<1>3. ys = [xs EXCEPT ![n] = x]
  OBVIOUS
<1>. HIDE DEF x
<1>4. DOMAIN ys = DOMAIN xs /\ \A m \in DOMAIN xs : ys[m] = IF m = n THEN x ELSE xs[m]
  BY <1>3
<1>5. PICK l \in Nat : DOMAIN xs = 1..l
  OBVIOUS
<1>6. ys = [m \in 1..l |-> ys[m]]
  BY <1>3, <1>5
<1>7. ys \in Seq(Run)
  BY <1>1, <1>2, <1>4, <1>5, <1>6
<1>8. ASSUME NEW m \in DOMAIN xs
      PROVE  /\ ys[m].call = xs[m].call
             /\ ys[m].began = xs[m].began
             /\ ys[m].until = xs[m].until
             /\ ys[m].outcome = IF m = n THEN o ELSE xs[m].outcome
  <2>1. CASE m = n
    BY <1>2, <1>4, <2>1
  <2>2. CASE m # n
    BY <1>4, <2>2
  <2>. QED
    BY <2>1, <2>2
<1>. QED
  BY <1>7, <1>8

\* The execution of one request ends.
LEMMA ExecutionEndsStep ==
  ASSUME IInv, NEW r \in Request, req[r].pc = "handler",
         NEW o \in {"answered", "failed", "cut"},
         NEW q \in Working, req' = [req EXCEPT ![r] = q],
         runs' = [runs EXCEPT ![req[r].run].outcome = o],
         UNCHANGED <<store, now, records, call>>,
         q.call = req[r].call, q.at = req[r].at, q.seen = req[r].seen, q.run = req[r].run,
         \/ q.pc = "answered"
         \/ (q.pc = "complete" /\ o = "answered")
         \/ (q.pc = "release" /\ o = "failed"),
         q.answer.kind # "replay",
         q.answer.kind = "fresh" => q.answer.run = req[r].run
  PROVE  IInv'
<1> DEFINE n == req[r].run
<1>1. /\ req \in [Request -> Working \cup {Idle}] /\ runs \in Seq(Run)
      /\ AtWork(r) /\ req[r] # Idle
  BY DEF IInv, TypeOK, AtWork, Idle
<1>2. /\ n \in DOMAIN runs /\ runs[n].call = req[r].call
      /\ runs[n].until >= req[r].at + TTL /\ runs[n].outcome = "running"
      /\ req[r].at <= now /\ now <= req[r].at + Timeout
  BY <1>1 DEF IInv, InOrder, OutcomeAt
<1>3. \A m \in DOMAIN runs : runs[m] \in Run
  BY <1>1
<1>. HIDE DEF n
<1>4. runs' = [runs EXCEPT ![n] = [runs[n] EXCEPT !.outcome = o]]
  BY DEF n
<1>5. DOMAIN runs' = DOMAIN runs
  BY <1>4
<1>6. /\ runs' \in Seq(Run)
      /\ \A m \in DOMAIN runs :
           /\ runs'[m].call = runs[m].call
           /\ runs'[m].began = runs[m].began
           /\ runs'[m].until = runs[m].until
           /\ runs'[m].outcome = IF m = n THEN o ELSE runs[m].outcome
  BY <1>1, <1>2, <1>4, SetOutcome DEF Outcome
<1>7. runs' \in Seq(Run)
  BY <1>6
<1>9. /\ OneExecution' /\ WindowHeld'
      /\ \A row, k : Tells(runs, row, k) => Tells(runs', row, k)
      /\ \A k \in Key : records[k] # NoRow => Tells(runs', records[k], k)
  BY <1>2, <1>5, <1>7, <1>6, OutcomesStep
<1>10. \A s \in Request : req'[s] = IF s = r THEN q ELSE req[s]
  BY <1>1
<1>11. TypeOK'
  BY <1>1, <1>7 DEF IInv, TypeOK
<1>12. AnswersOwnRequest'
  BY <1>2, <1>5, <1>6, <1>10 DEF IInv, AnswersOwnRequest, n
<1>13. ASSUME NEW s \in Request, AtWork(s)'
       PROVE  /\ AtWork(s) /\ req'[s].call = req[s].call /\ req'[s].run = req[s].run
              /\ req'[s].at = req[s].at
              /\ s # r => req'[s] = req[s]
  BY <1>1, <1>10, <1>13 DEF AtWork
<1>14. OwnReservation'
  <2> SUFFICES ASSUME NEW s \in Request, AtWork(s)'
               PROVE  records[KeyOf[req[s].call]]
                        = Reservation(req[s].call, req[s].run, runs'[req[s].run].until)
    BY <1>13 DEF OwnReservation
  <2>1. AtWork(s) /\ req[s].run \in DOMAIN runs
    BY <1>13 DEF IInv, InOrder
  <2>. QED
    BY <1>6, <2>1 DEF IInv, OwnReservation
<1>15. RowsTell'
  <2>1. RowsTell' <=>
          /\ \A j \in Key : records'[j] # NoRow => Tells(runs', records'[j], j)
          /\ \A s \in Request : req'[s].seen # NoRow
               => Tells(runs', req'[s].seen, KeyOf[req'[s].call])
    BY DEF RowsTell, TellsOf, Tells
  <2>2. \A s \in Request : req[s].seen # NoRow => Tells(runs, req[s].seen, KeyOf[req[s].call])
    BY DEF IInv, RowsTell, TellsOf, Tells
  <2>3. \A s \in Request : req'[s].seen = req[s].seen /\ req'[s].call = req[s].call
    BY <1>10
  <2>4. \A s \in Request : req'[s].seen # NoRow
          => Tells(runs', req'[s].seen, KeyOf[req'[s].call])
    <3> HIDE DEF Tells
    <3>. QED
      BY <1>9, <2>2, <2>3
  <2>5. \A j \in Key : records'[j] # NoRow => Tells(runs', records'[j], j)
    BY <1>9
  <2>. QED
    BY <2>1, <2>4, <2>5
<1>16. InOrder'
  <2> SUFFICES ASSUME NEW s \in Request
               PROVE  /\ req'[s] # Idle => req'[s].at <= now /\ now <= req'[s].at + Timeout
                      /\ req'[s].pc \in {"reserve", "handler"} => req'[s].answer = NoAnswer
                      /\ AtWork(s)' =>
                           /\ req'[s].run \in DOMAIN runs'
                           /\ runs'[req'[s].run].call = req'[s].call
                           /\ runs'[req'[s].run].until >= req'[s].at + TTL
                           /\ runs'[req'[s].run].outcome = OutcomeAt(req'[s].pc)
                           /\ \A v \in Request : AtWork(v)' /\ req'[v].run = req'[s].run => s = v
    BY DEF InOrder
  <2>1. \A v \in Request : AtWork(s)' /\ AtWork(v)' /\ req'[v].run = req'[s].run => s = v
    BY <1>13 DEF IInv, InOrder
  <2>2. CASE s = r
    <3>1. req'[s] = q /\ q.run = n
      BY <1>10, <2>2 DEF n
    <3>2. AtWork(s)' => runs'[n].outcome = OutcomeAt(q.pc)
      BY <1>2, <1>6, <3>1 DEF OutcomeAt, AtWork
    <3>3. q.pc \notin {"reserve", "handler"}
      OBVIOUS
    <3>4. q.at <= now /\ now <= q.at + Timeout
      BY <1>2
    <3>5. /\ n \in DOMAIN runs' /\ runs'[n].call = q.call
          /\ runs'[n].until >= q.at + TTL
      BY <1>2, <1>5, <1>6
    <3>. QED
      BY <2>1, <3>1, <3>2, <3>3, <3>4, <3>5
  <2>3. CASE s # r
    <3>1. req'[s] = req[s]
      BY <1>10, <2>3
    <3>2. AtWork(s)' => AtWork(s) /\ req[s].run # n
      BY <1>1, <1>13, <2>3 DEF IInv, InOrder, n
    <3>. QED
      BY <1>5, <1>6, <2>1, <3>1, <3>2 DEF IInv, InOrder
  <2>. QED
    BY <2>2, <2>3
<1>17. Attempts'
  BY DEF IInv, Attempts
<1>. QED
  BY <1>9, <1>11, <1>12, <1>14, <1>15, <1>16, <1>17 DEF IInv

LEMMA HandlerReturnsStep ==
  ASSUME IInv, NEW r \in Request, NEW failed \in BOOLEAN, HandlerReturns(r, failed)
  PROVE  IInv'
<1> DEFINE o == IF failed THEN "failed" ELSE "answered"
           a == [kind |-> IF failed THEN "error" ELSE "fresh", run |-> req[r].run]
           q == [req[r] EXCEPT !.pc = IF failed THEN "release" ELSE "complete", !.answer = a]
<1>1. req[r] \in Working
  BY BusyIsWorking DEF HandlerReturns, IInv
<1>2. /\ a.kind # "replay" /\ a.run = req[r].run /\ a \in Answer
  BY <1>1 DEF Answer, Working
<1>3. /\ q \in Working /\ q.call = req[r].call /\ q.at = req[r].at /\ q.seen = req[r].seen
      /\ q.run = req[r].run /\ q.answer = a
  BY <1>1, <1>2 DEF Working
<1>4. (q.pc = "complete" /\ o = "answered") \/ (q.pc = "release" /\ o = "failed")
  BY <1>1 DEF Working
<1>5. req' = [req EXCEPT ![r] = q]
  BY DEF HandlerReturns
<1>6. /\ req[r].pc = "handler" /\ UNCHANGED <<store, now, records, call>>
      /\ runs' = [runs EXCEPT ![req[r].run].outcome = o] /\ o \in {"answered", "failed", "cut"}
  BY DEF HandlerReturns
<1>. HIDE DEF o, a, q
<1>. QED
  BY <1>2, <1>3, <1>4, <1>5, <1>6, ExecutionEndsStep

LEMMA HandlerPanicsStep ==
  ASSUME IInv, NEW r \in Request, HandlerPanics(r)
  PROVE  IInv'
<1> DEFINE q == Answered(req[r], "error", 0)
<1>1. req[r] \in Working
  BY BusyIsWorking DEF HandlerPanics, IInv
<1>2. /\ q \in Working /\ q.call = req[r].call /\ q.at = req[r].at /\ q.seen = req[r].seen
      /\ q.run = req[r].run /\ q.answer.kind = "error" /\ q.pc = "answered"
  BY <1>1 DEF Answered, Working, Answer
<1>3. /\ req' = [req EXCEPT ![r] = q] /\ req[r].pc = "handler"
      /\ UNCHANGED <<store, now, records, call>>
      /\ runs' = [runs EXCEPT ![req[r].run].outcome = "cut"]
  BY DEF HandlerPanics
<1>. HIDE DEF q
<1>. QED
  BY <1>2, <1>3, ExecutionEndsStep

\* A request completes or gives back the reservation that is its own.
LEMMA SettleStep ==
  ASSUME IInv, NEW r \in Request, AtWork(r), req[r].pc # "handler",
         NEW row \in Row \cup {NoRow},
         records' = [records EXCEPT ![KeyOf[req[r].call]] = row],
         req' = [req EXCEPT ![r].pc = "answered"],
         UNCHANGED <<store, now, runs, call>>,
         row # NoRow => row.run = req[r].run /\ TellsOf(row, KeyOf[req[r].call]),
         row = NoRow => runs[req[r].run].outcome = "failed"
  PROVE  IInv'
<1> DEFINE k == KeyOf[req[r].call]
           q == [req[r] EXCEPT !.pc = "answered"]
<1>1. /\ req \in [Request -> Working \cup {Idle}]
      /\ records \in [Key -> Row \cup {NoRow}]
      /\ req[r] \in Working /\ req[r] # Idle
  BY BusyIsWorking DEF IInv, TypeOK, AtWork
<1>2. k \in Key
  BY <1>1 DEF Working
<1>3. /\ q \in Working /\ q.call = req[r].call /\ q.at = req[r].at /\ q.seen = req[r].seen
      /\ q.answer = req[r].answer /\ q.pc = "answered"
  BY <1>1 DEF Working
<1>4. req' = [req EXCEPT ![r] = q]
  OBVIOUS
<1>. HIDE DEF q
<1>5. /\ \A s \in Request : req'[s] = IF s = r THEN q ELSE req[s]
      /\ \A j \in Key : records'[j] = IF j = k THEN row ELSE records[j]
  BY <1>1, <1>4
<1>6. ASSUME NEW s \in Request, AtWork(s)'
      PROVE  /\ s # r /\ AtWork(s) /\ req'[s] = req[s]
             /\ KeyOf[req[s].call] \in Key /\ KeyOf[req[s].call] # k
  <2>1. s # r /\ AtWork(s) /\ req'[s] = req[s]
    BY <1>3, <1>5, <1>6 DEF AtWork
  <2>2. req[s] \in Working
    BY <2>1, BusyIsWorking DEF AtWork, IInv
  <2>. QED
    BY <2>1, <2>2, OneHolder DEF Working
<1>7. TypeOK'
  BY <1>1, <1>3, <1>4 DEF IInv, TypeOK
<1>8. OneExecution' /\ Attempts'
  BY DEF IInv, OneExecution, KeyOfRun, Attempts
<1>9. AnswersOwnRequest'
  BY <1>3, <1>5 DEF IInv, AnswersOwnRequest
<1>10. OwnReservation'
  BY <1>5, <1>6 DEF IInv, OwnReservation
<1>11. WindowHeld'
  <2> SUFFICES ASSUME NEW m \in DOMAIN runs, runs[m].outcome # "failed", now < runs[m].until
               PROVE  records'[KeyOfRun(m)] # NoRow /\ records'[KeyOfRun(m)].run = m
    BY DEF WindowHeld, KeyOfRun
  <2>1. KeyOfRun(m) \in Key
    BY RunsAreTyped DEF IInv
  <2>2. records[KeyOfRun(m)] # NoRow /\ records[KeyOfRun(m)].run = m
    BY DEF IInv, WindowHeld
  <2>3. records[k] = Reservation(req[r].call, req[r].run, runs[req[r].run].until)
    BY DEF IInv, OwnReservation
  <2>4. records[k].run = req[r].run
    BY <2>3 DEF Reservation
  <2>. QED
    BY <1>5, <2>1, <2>2, <2>4
<1>12. RowsTell'
  <2>1. \A j \in Key : records'[j] # NoRow => TellsOf(records'[j], j)
    BY <1>5 DEF IInv, RowsTell
  <2>2. \A s \in Request : req'[s].seen # NoRow => TellsOf(req'[s].seen, KeyOf[req'[s].call])
    BY <1>3, <1>5 DEF IInv, RowsTell
  <2>. QED
    BY <2>1, <2>2 DEF RowsTell, TellsOf
<1>13. InOrder'
  <2>1. \A s \in Request : req'[s] # Idle => req'[s].at <= now /\ now <= req'[s].at + Timeout
    BY <1>1, <1>3, <1>5 DEF IInv, InOrder
  <2>2. \A s \in Request : req'[s].pc \in {"reserve", "handler"} => req'[s].answer = NoAnswer
    BY <1>3, <1>5 DEF IInv, InOrder
  <2>. QED
    BY <1>6, <2>1, <2>2 DEF IInv, InOrder
<1>. QED
  BY <1>7, <1>8, <1>9, <1>10, <1>11, <1>12, <1>13 DEF IInv

\* The row of a request at work, and its execution.
LEMMA HolderFacts ==
  ASSUME IInv, NEW r \in Request, AtWork(r)
  PROVE  LET n == req[r].run
             k == KeyOf[req[r].call] IN
         /\ req[r] \in Working /\ req[r].call \in Call /\ k \in Key
         /\ n \in DOMAIN runs /\ n \in Nat /\ n # 0 /\ runs[n] \in Run
         /\ runs[n].call = req[r].call /\ runs[n].outcome = OutcomeAt(req[r].pc)
         /\ records[k] = Reservation(req[r].call, n, runs[n].until)
         /\ records[k] \in Row /\ records[k] # NoRow
<1>1. req[r] \in Working /\ runs \in Seq(Run)
  BY BusyIsWorking DEF AtWork, IInv, TypeOK
<1>2. req[r].run \in DOMAIN runs /\ runs[req[r].run].outcome = OutcomeAt(req[r].pc)
      /\ runs[req[r].run].call = req[r].call
  BY DEF IInv, InOrder
<1>3. records[KeyOf[req[r].call]]
        = Reservation(req[r].call, req[r].run, runs[req[r].run].until)
  BY DEF IInv, OwnReservation
<1>4. runs[req[r].run] \in Run
  BY <1>1, <1>2
<1>5. Reservation(req[r].call, req[r].run, runs[req[r].run].until) \in Row
  BY <1>1, <1>4 DEF Reservation, Row, Status, Working, Run
<1>. QED
  BY <1>1, <1>2, <1>3, <1>4, <1>5 DEF Working

LEMMA CompleteStep ==
  ASSUME IInv, NEW r \in Request, Complete(r)
  PROVE  IInv'
<1> DEFINE k == KeyOf[req[r].call]
           n == req[r].run
           row == [records[k] EXCEPT !.status = "completed", !.run = n]
<1>1. AtWork(r) /\ req[r].pc = "complete"
  BY DEF Complete, AtWork
<1>2. /\ k \in Key /\ n \in DOMAIN runs /\ n \in Nat /\ n # 0
      /\ req[r].call \in Call
      /\ runs[n].call = req[r].call /\ runs[n].outcome = "answered"
      /\ records[k] = Reservation(req[r].call, n, runs[n].until)
      /\ records[k] \in Row /\ records[k] # NoRow
  BY <1>1, HolderFacts DEF OutcomeAt
<1>3. /\ row \in Row /\ row.run = n /\ row.by = req[r].call /\ row.expires = runs[n].until
  <2>1. /\ records[k].by = req[r].call /\ records[k].expires = runs[n].until
    BY <1>2 DEF Reservation
  <2>. QED
    BY <1>2, <2>1 DEF Row, Status
<1>4. records' = [records EXCEPT ![k] = row]
  BY <1>2 DEF Complete
<1>5. req' = [req EXCEPT ![r].pc = "answered"] /\ UNCHANGED <<store, now, runs, call>>
  BY DEF Complete
<1>. HIDE DEF row
<1>6. TellsOf(row, k)
  BY <1>2, <1>3 DEF TellsOf
<1>. QED
  BY <1>1, <1>3, <1>4, <1>5, <1>6, SettleStep

LEMMA ReleaseStep ==
  ASSUME IInv, NEW r \in Request, Release(r)
  PROVE  IInv'
<1>1. AtWork(r) /\ req[r].pc = "release"
  BY DEF Release, AtWork
<1>2. /\ runs[req[r].run].outcome = "failed"
      /\ records[KeyOf[req[r].call]].status = "in_flight"
  <2>1. /\ runs[req[r].run].outcome = OutcomeAt("release")
        /\ records[KeyOf[req[r].call]]
             = Reservation(req[r].call, req[r].run, runs[req[r].run].until)
    BY <1>1, HolderFacts
  <2>. QED
    BY <2>1 DEF OutcomeAt, Reservation
<1>3. /\ records' = [records EXCEPT ![KeyOf[req[r].call]] = NoRow]
      /\ req' = [req EXCEPT ![r].pc = "answered"] /\ UNCHANGED <<store, now, runs, call>>
  BY <1>2 DEF Release
<1>. QED
  BY <1>1, <1>2, <1>3, SettleStep

-----------------------------------------------------------------------------
(* The process stops; old rows are removed.                                *)

LEMMA CrashStep ==
  ASSUME IInv, Crash
  PROVE  IInv'
<1>1. /\ runs \in Seq(Run) /\ req' = [r \in Request |-> Idle]
      /\ UNCHANGED <<store, now, records, call>>
  BY DEF IInv, TypeOK, Crash
<1>2. /\ DOMAIN runs' = DOMAIN runs
      /\ \A m \in DOMAIN runs :
           runs'[m] = IF runs[m].outcome = "running" THEN [runs[m] EXCEPT !.outcome = "cut"]
                      ELSE runs[m]
  BY DEF Crash
<1>3. \A m \in DOMAIN runs : runs'[m] \in Run
  <2>1. \A m \in DOMAIN runs : runs[m] \in Run
    BY RunsAreTyped DEF IInv
  <2>. QED
    BY <1>2, <2>1 DEF Run, Outcome
<1>4. runs' \in Seq(Run)
  <2>1. PICK l \in Nat : DOMAIN runs = 1..l
    BY <1>1
  <2>2. runs' = [m \in 1..l |-> runs'[m]]
    BY <2>1 DEF Crash
  <2>. QED
    BY <1>2, <1>3, <2>1, <2>2
<1>5. \A m \in DOMAIN runs :
        /\ runs'[m].call = runs[m].call
        /\ runs'[m].began = runs[m].began
        /\ runs'[m].until = runs[m].until
        /\ runs'[m].outcome = runs[m].outcome \/ runs[m].outcome = "running"
  <2>1. \A m \in DOMAIN runs : runs[m] \in Run
    BY RunsAreTyped DEF IInv
  <2>. QED
    BY <1>2, <2>1 DEF Run
<1>6. /\ OneExecution' /\ WindowHeld'
      /\ \A k \in Key : records[k] # NoRow => Tells(runs', records[k], k)
  BY <1>1, <1>2, <1>4, <1>5, OutcomesStep
<1>7. \A r \in Request : ~AtWork(r)' /\ req'[r] = Idle
  BY <1>1 DEF AtWork, Idle
<1>8. TypeOK'
  BY <1>1, <1>4 DEF IInv, TypeOK
<1>9. AnswersOwnRequest' /\ OwnReservation'
  BY <1>7 DEF AnswersOwnRequest, OwnReservation, Idle, NoAnswer
<1>10. RowsTell'
  BY <1>1, <1>6, <1>7 DEF RowsTell, TellsOf, Tells, Idle
<1>11. InOrder'
  BY <1>7 DEF InOrder, Idle
<1>12. Attempts'
  BY <1>1 DEF IInv, Attempts
<1>. QED
  BY <1>6, <1>8, <1>9, <1>10, <1>11, <1>12 DEF IInv

LEMMA PurgeExpiredStep ==
  ASSUME IInv, PurgeExpired
  PROVE  IInv'
<1>1. /\ records \in [Key -> Row \cup {NoRow}] /\ now \in Nat
      /\ UNCHANGED <<store, now, runs, req, call>>
      /\ records' = [k \in Key |-> IF Taken(records[k], now) THEN records[k] ELSE NoRow]
  BY DEF IInv, TypeOK, PurgeExpired
<1>2. TypeOK'
  BY <1>1 DEF IInv, TypeOK
<1>3. OwnReservation'
  <2> SUFFICES ASSUME NEW s \in Request, AtWork(s)
               PROVE  records'[KeyOf[req[s].call]]
                        = Reservation(req[s].call, req[s].run, runs[req[s].run].until)
    BY <1>1 DEF OwnReservation, AtWork
  <2>. QED
    BY <1>1, HolderFacts, HeldIsTaken
<1>4. WindowHeld'
  <2> SUFFICES ASSUME NEW m \in DOMAIN runs, runs[m].outcome # "failed", now < runs[m].until
               PROVE  records'[KeyOfRun(m)] # NoRow /\ records'[KeyOfRun(m)].run = m
    BY <1>1 DEF WindowHeld, KeyOfRun
  <2>1. records[KeyOfRun(m)] # NoRow /\ records[KeyOfRun(m)].run = m
    BY DEF IInv, WindowHeld
  <2>2. KeyOfRun(m) \in Key /\ m # 0 /\ runs[m] \in Run
    BY RunsAreTyped DEF IInv
  <2>3. records[KeyOfRun(m)].expires = runs[m].until
    BY <2>1, <2>2 DEF IInv, RowsTell, TellsOf
  <2>4. runs[m].until \in Int /\ runs[m].until > now
    BY <1>1, <2>2 DEF Run
  <2>. QED
    BY <1>1, <2>1, <2>2, <2>3, <2>4 DEF Taken
<1>5. RowsTell'
  BY <1>1 DEF IInv, RowsTell, TellsOf
<1>6. OneExecution' /\ AnswersOwnRequest' /\ InOrder' /\ Attempts'
  BY <1>1 DEF IInv, OneExecution, AnswersOwnRequest, InOrder, Attempts, KeyOfRun, AtWork
<1>. QED
  BY <1>2, <1>3, <1>4, <1>5, <1>6 DEF IInv

-----------------------------------------------------------------------------
(* The theorems.                                                           *)

LEMMA InitHolds ==
  ASSUME Init
  PROVE  IInv
<1>1. TypeOK
  BY DEF Init, TypeOK, CallState
<1>2. OneExecution /\ WindowHeld
  BY DEF Init, OneExecution, WindowHeld
<1>3. AnswersOwnRequest /\ OwnReservation /\ RowsTell /\ InOrder
  BY DEF Init, AnswersOwnRequest, OwnReservation, RowsTell, InOrder, AtWork, Idle, NoAnswer
<1>4. Attempts
  BY DEF Init, Attempts
<1>. QED
  BY <1>1, <1>2, <1>3, <1>4 DEF IInv

LEMMA NextKeeps ==
  ASSUME IInv, [Next]_vars
  PROVE  IInv'
<1>1. ASSUME NEW r \in Request, Middleware(r)
      PROVE  IInv'
  BY <1>1, ReserveStep, ReserveFailsStep, HandlerReturnsStep, HandlerPanicsStep, CompleteStep,
     ReleaseStep, StoreFailsStep, EndsStep DEF Middleware
<1>2. ASSUME NEW c \in Call, Client(c)
      PROVE  IInv'
  <2>1. ASSUME NEW r \in Request, Send(c, r) \/ Retry(c, r)
        PROVE  IInv'
    BY <2>1, SentStep DEF Send, Retry
  <2>. QED
    BY <1>2, <2>1, ReceivesStep, MissesStep DEF Client
<1>3. CASE UNCHANGED vars
  BY <1>3 DEF vars, IInv, TypeOK, OneExecution, AnswersOwnRequest, OwnReservation,
     WindowHeld, RowsTell, InOrder, KeyOfRun, AtWork, TellsOf, Attempts
<1>. QED
  BY <1>1, <1>2, <1>3, CrashStep, PurgeExpiredStep, TickStep DEF Next

\* The conjunction of the properties with what makes them inductive holds in
\* every reachable state of the middleware and its stores.
THEOREM Invariant == Spec => []IInv
<1>1. Init => IInv
  BY InitHolds
<1>2. IInv /\ [Next]_vars => IInv'
  BY NextKeeps
<1>. QED
  BY <1>1, <1>2, PTL DEF Spec

\* A keyed mutation is executed once in its window unless its execution failed
\* (idempotency.go, Idempotency; idempotency_pg.go, Reserve).
THEOREM KeyedRunsOnce == Spec => []OneExecution
<1>1. IInv => OneExecution
  BY DEF IInv
<1>. QED
  BY <1>1, Invariant, PTL

\* No request is answered with the answer of another (Idempotency).
THEOREM NoForeignAnswer == Spec => []AnswersOwnRequest
<1>1. IInv => AnswersOwnRequest
  BY DEF IInv
<1>. QED
  BY <1>1, Invariant, PTL

\* Complete and Release touch only the row of their own request.
THEOREM ReservationIsOwn == Spec => []OwnReservation
<1>1. IInv => OwnReservation
  BY DEF IInv
<1>. QED
  BY <1>1, Invariant, PTL

=============================================================================
