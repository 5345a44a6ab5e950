----------------------------- MODULE Idempotency -----------------------------
(***************************************************************************)
(* FR-57: the middleware that runs a keyed mutation once and replays its   *)
(* answer, over either of its two stores, with the app's RetryInterceptor  *)
(* as client.                                                              *)
(*                                                                         *)
(* A request is a handler goroutine under the middleware.  It reserves the *)
(* key, runs the handler, and then completes or releases the reservation;  *)
(* other requests run between these steps, the handler may panic, a        *)
(* statement may fail, the process may stop.  The reservation in Postgres  *)
(* is one statement but two moments: it reads a snapshot when it starts,   *)
(* and upserts the row as that is when it gets the row's lock.             *)
(*                                                                         *)
(* A key stands for a pair of actor and key.  `runs` is history: the       *)
(* handler executions, in order.                                           *)
(***************************************************************************)
EXTENDS Integers, Sequences, FiniteSets

CONSTANTS
  Call,        \* mutations of the app, each with one key
  Keyed,       \* the calls with an actor, a key within the schema's bounds
               \* and a body below the cap
  Request,     \* slots for requests at the server
  Key,
  KeyOf,       \* the key of a call; a client bug may give two calls one key
  Fingerprint, \* the hash of method, path and body of a call
  Store,       \* the stores to consider: "memory", "postgres"
  TTL,         \* how long a key is owed a replay: 24 h
  Timeout,     \* how long a request may run: 30 s
  MaxTime,     \* bound on the clock
  MaxRuns,     \* bound on handler executions
  NoRow

ASSUME IdempotencyAssumption ==
  /\ KeyOf \in [Call -> Key]
  /\ Keyed \subseteq Call
  /\ NoRow \notin Call /\ NoRow \notin Request
  /\ DOMAIN Fingerprint = Call
  /\ Store \subseteq {"memory", "postgres"}
  /\ TTL \in Nat /\ Timeout \in Nat /\ Timeout < TTL
  /\ MaxTime \in Nat /\ MaxRuns \in Nat

VARIABLES
  store,    \* which store the server was started with
  now,
  records,  \* idempotency_keys: at most one row for each key
  runs,
  req,
  call      \* what the app's interceptor holds of each call

vars == <<store, now, records, runs, req, call>>

-----------------------------------------------------------------------------
(* Types                                                                   *)

Status == {"in_flight", "completed"}

\* `run` stands for the response, and for the execution that it is of.
Row == [status : Status, by : Call, run : Nat, expires : Int]

NoAnswer == [kind |-> "none", run |-> 0]
Answer == [kind : {"none", "fresh", "replay", "refused", "in_flight", "reused",
                   "error", "vanished"},
           run : Nat]

\* NoRow is the absence of a row.
ASSUME NoRowAssumption == NoRow \notin Row

\* How an execution ended.  "failed" is a 5xx: the effect may have been
\* committed or not, since a commit whose reply is lost is also an error.
Outcome == {"running", "answered", "failed", "cut"}
Run == [call : Call, began : Int, until : Int, outcome : Outcome]

Idle == [pc |-> "idle", call |-> NoRow, at |-> 0, seen |-> NoRow, run |-> 0,
         answer |-> NoAnswer]
Working == [pc : {"reserve", "handler", "complete", "release", "answered"},
            call : Call, at : Int, seen : Row \cup {NoRow}, run : Nat, answer : Answer]

CallState == [pc : {"idle", "waiting", "backoff", "done"}, attempt : 0..2,
              at : Request \cup {NoRow}]

TypeOK ==
  /\ store \in {"memory", "postgres"}
  /\ now \in Nat
  /\ records \in [Key -> Row \cup {NoRow}]
  /\ runs \in Seq(Run)
  /\ req \in [Request -> Working \cup {Idle}]
  /\ call \in [Call -> CallState]

-----------------------------------------------------------------------------
(* The store.                                                              *)

Reservation(c, n, until) ==
  [status |-> "in_flight", by |-> c, run |-> n, expires |-> until]

\* A row stands in the way until it expires.
Taken(row, t) == row # NoRow /\ row.expires > t

\* What the caller of Reserve is told: that the key is its own, what row was
\* in the way, or that the reservation vanished.  The in-memory store answers
\* from the row it holds the lock on.  Postgres answers with a SELECT in the
\* same statement as the INSERT, which sees the statement's snapshot: neither
\* the row just inserted nor one committed since.
Reserved(row, seen, t) ==
  IF store = "memory"
  THEN [tells |-> IF Taken(row, t) THEN "existing" ELSE "fresh", row |-> row]
  ELSE [tells |-> IF seen = NoRow THEN "vanished"
                  ELSE IF Taken(row, t) THEN "existing" ELSE "fresh",
        row |-> seen]

-----------------------------------------------------------------------------
(* The middleware.                                                         *)

Answered(q, kind, n) == [q EXCEPT !.pc = "answered", !.answer = [kind |-> kind, run |-> n]]

\* Mutant: the fingerprint is not compared.
Existing_AnyRequest(q, row) ==
  IF row.status = "in_flight" THEN Answered(q, "in_flight", 0)
  ELSE Answered(q, "replay", row.run)

\* What the middleware does with a row that was there before.
Existing(q, row) ==
  IF Fingerprint[row.by] # Fingerprint[q.call] THEN Answered(q, "reused", 0)
  ELSE IF row.status = "in_flight" THEN Answered(q, "in_flight", 0)
  ELSE Answered(q, "replay", row.run)

\* The row is inserted or reclaimed, whatever the caller is then told.  The
\* store in memory reads the clock under its lock, Postgres is given a time.
Reserve(r) ==
  LET q == [req[r] EXCEPT !.seen = NoRow]
      k == KeyOf[q.call]
      t == IF store = "memory" THEN now ELSE q.at
      n == Len(runs) + 1
      res == Reserved(records[k], req[r].seen, t)
  IN
  /\ q.pc = "reserve"
  /\ records' = IF Taken(records[k], t) THEN records
                ELSE [records EXCEPT ![k] =
                        Reservation(q.call, IF res.tells = "fresh" THEN n ELSE 0, t + TTL)]
  /\ \/ /\ res.tells = "fresh"
        /\ Len(runs) < MaxRuns
        /\ runs' = Append(runs, [call |-> q.call, began |-> now, until |-> t + TTL,
                                 outcome |-> "running"])
        /\ req' = [req EXCEPT ![r] = [q EXCEPT !.pc = "handler", !.run = n]]
     \/ /\ res.tells = "existing"
        /\ req' = [req EXCEPT ![r] = Existing(q, res.row)]
        /\ UNCHANGED runs
     \/ /\ res.tells = "vanished"
        /\ req' = [req EXCEPT ![r] = Answered(q, "vanished", 0)]
        /\ UNCHANGED runs
  /\ UNCHANGED <<store, now, call>>

\* Reserve fails before its statement takes effect: a 500, and no Release.
ReserveFails(r) ==
  /\ req[r].pc = "reserve" /\ store = "postgres"
  /\ req' = [req EXCEPT ![r] = Answered([req[r] EXCEPT !.seen = NoRow], "error", 0)]
  /\ UNCHANGED <<store, now, records, runs, call>>

\* The handler has written its response: a terminal answer, which is stored,
\* or a 5xx, after which the key is given back.
HandlerReturns(r, failed) ==
  /\ req[r].pc = "handler"
  /\ runs' = [runs EXCEPT ![req[r].run].outcome = IF failed THEN "failed" ELSE "answered"]
  /\ req' = [req EXCEPT ![r].pc = IF failed THEN "release" ELSE "complete",
       ![r].answer = [kind |-> IF failed THEN "error" ELSE "fresh", run |-> req[r].run]]
  /\ UNCHANGED <<store, now, records, call>>

\* A panic skips both; Recoverer, outside, answers 500.
HandlerPanics(r) ==
  /\ req[r].pc = "handler"
  /\ runs' = [runs EXCEPT ![req[r].run].outcome = "cut"]
  /\ req' = [req EXCEPT ![r] = Answered(req[r], "error", 0)]
  /\ UNCHANGED <<store, now, records, call>>

Complete(r) ==
  LET k == KeyOf[req[r].call] IN
  /\ req[r].pc = "complete"
  /\ records' = IF records[k] = NoRow THEN records
                ELSE [records EXCEPT ![k].status = "completed", ![k].run = req[r].run]
  /\ req' = [req EXCEPT ![r].pc = "answered"]
  /\ UNCHANGED <<store, now, runs, call>>

\* Only Postgres asks whether the row is still in flight.
Release(r) ==
  LET k == KeyOf[req[r].call] IN
  /\ req[r].pc = "release"
  /\ records' = IF /\ store = "postgres" /\ records[k] # NoRow
                   /\ records[k].status # "in_flight"
                THEN records ELSE [records EXCEPT ![k] = NoRow]
  /\ req' = [req EXCEPT ![r].pc = "answered"]
  /\ UNCHANGED <<store, now, runs, call>>

\* Mutant: a reservation whose answer could not be stored is given back.
StoreFails_GivesBack(r) ==
  /\ req[r].pc \in {"complete", "release"} /\ store = "postgres"
  /\ records' = [records EXCEPT ![KeyOf[req[r].call]] = NoRow]
  /\ req' = [req EXCEPT ![r].pc = "answered"]
  /\ UNCHANGED <<store, now, runs, call>>

\* The context of the request is done, or the database is away: logged, and
\* the row stays in flight.
StoreFails(r) ==
  /\ req[r].pc \in {"complete", "release"} /\ store = "postgres"
  /\ req' = [req EXCEPT ![r].pc = "answered"]
  /\ UNCHANGED <<store, now, records, runs, call>>

\* The process stops: every request is lost, the rows are not.  The store in
\* memory is never used where that matters.
Crash ==
  /\ store = "postgres"
  /\ \E r \in Request : req[r] # Idle
  /\ runs' = [n \in DOMAIN runs |->
                IF runs[n].outcome = "running" THEN [runs[n] EXCEPT !.outcome = "cut"]
                ELSE runs[n]]
  /\ req' = [r \in Request |-> Idle]
  /\ UNCHANGED <<store, now, records, call>>

\* Rows past their window go; no job calls it yet.
PurgeExpired ==
  /\ store = "postgres"
  /\ \E k \in Key : records[k] # NoRow /\ records[k].expires <= now
  /\ records' = [k \in Key |-> IF Taken(records[k], now) THEN records[k] ELSE NoRow]
  /\ UNCHANGED <<store, now, runs, req, call>>

-----------------------------------------------------------------------------
(* The client.                                                             *)

\* What the middleware makes of a request on its arrival.  A mutation without
\* an acceptable key is refused; for the others a statement begins, with its
\* snapshot and the time it is given.
Arrived(c) ==
  IF c \in Keyed
  THEN [Idle EXCEPT !.pc = "reserve", !.call = c, !.at = now,
                    !.seen = IF store = "postgres" THEN records[KeyOf[c]] ELSE NoRow]
  ELSE [Idle EXCEPT !.pc = "answered", !.call = c, !.at = now,
                    !.answer = [kind |-> "refused", run |-> 0]]

Sent(c, r) ==
  /\ req[r] = Idle
  /\ req' = [req EXCEPT ![r] = Arrived(c)]
  /\ call' = [call EXCEPT ![c] = [pc |-> "waiting", attempt |-> call[c].attempt + 1, at |-> r]]
  /\ UNCHANGED <<store, now, records, runs>>

Send(c, r) == call[c].pc = "idle" /\ Sent(c, r)

\* The same options are sent again, so with the same key.
Retry(c, r) == call[c].pc = "backoff" /\ Sent(c, r)

\* Mutant: as many retries as there are failures.
MayRetry_Unbounded(c) == c \in Keyed

\* _mayRetry, and the one retry: it goes out on a Dio without the interceptor,
\* so that the second attempt is the last whatever maxAttempts says.
MayRetry(c) == c \in Keyed /\ call[c].attempt < 2

Waiting(c, r) == call[c].pc = "waiting" /\ call[c].at = r /\ req[r].call = c

IsServerError(answer) == answer.kind \in {"error", "vanished"}

\* The response arrives; it has been written when the handler returned, so it
\* may arrive before the reservation is completed or released.  Of what the
\* server answers here only a 500 is worth a retry (_shouldRetryStatus).
Receives(c, r) ==
  /\ Waiting(c, r)
  /\ req[r].answer # NoAnswer
  /\ call' = [call EXCEPT ![c] =
       [@ EXCEPT !.pc = IF IsServerError(req[r].answer) /\ MayRetry(c) THEN "backoff" ELSE "done",
                 !.at = NoRow]]
  /\ UNCHANGED <<store, now, records, runs, req>>

\* A timeout or a dropped connection; the request may still be running.
Misses(c) ==
  /\ call[c].pc = "waiting"
  /\ call' = [call EXCEPT ![c] =
       [@ EXCEPT !.pc = IF MayRetry(c) THEN "backoff" ELSE "done",
                 !.at = NoRow]]
  /\ UNCHANGED <<store, now, records, runs, req>>

\* The goroutine is over when nobody waits for what it answered.
Ends(r) ==
  /\ req[r].pc = "answered"
  /\ \A c \in Call : ~Waiting(c, r)
  /\ req' = [req EXCEPT ![r] = Idle]
  /\ UNCHANGED <<store, now, records, runs, call>>

\* A statement carries its request's context: none runs after the timeout.
\* Mutant: requests may outlive the window of their key.
Tick_NoTimeout ==
  /\ now < MaxTime
  /\ now' = now + 1
  /\ UNCHANGED <<store, records, runs, req, call>>
Tick ==
  /\ now < MaxTime
  /\ \A r \in Request : req[r] # Idle => now + 1 <= req[r].at + Timeout
  /\ now' = now + 1
  /\ UNCHANGED <<store, records, runs, req, call>>

-----------------------------------------------------------------------------
Init ==
  /\ store \in Store
  /\ now = 0
  /\ records = [k \in Key |-> NoRow]
  /\ runs = << >>
  /\ req = [r \in Request |-> Idle]
  /\ call = [c \in Call |-> [pc |-> "idle", attempt |-> 0, at |-> NoRow]]

Middleware(r) ==
  \/ Reserve(r)
  \/ ReserveFails(r)
  \/ \E failed \in BOOLEAN : HandlerReturns(r, failed)
  \/ HandlerPanics(r)
  \/ Complete(r)
  \/ Release(r)
  \/ StoreFails(r)
  \/ Ends(r)

Client(c) ==
  \/ \E r \in Request : Send(c, r) \/ Retry(c, r) \/ Receives(c, r)
  \/ Misses(c)

Next ==
  \/ \E r \in Request : Middleware(r)
  \/ \E c \in Call : Client(c)
  \/ Crash
  \/ PurgeExpired
  \/ Tick

Spec == Init /\ [][Next]_vars
-----------------------------------------------------------------------------
(* Properties.                                                             *)

KeyOfRun(n) == KeyOf[runs[n].call]
AtWork(r) == req[r].pc \in {"handler", "complete", "release"}

\* FR-57: while a key is owed a replay its mutation is executed once.  Only an
\* execution that ended in a 5xx may be followed by another (idempotency.go,
\* Idempotency; idempotency_pg.go, Reserve): not one whose answer was lost, that
\* is still running, whose answer could not be stored, or that a panic or the
\* end of the process cut short.
OneExecution ==
  \A m, n \in DOMAIN runs :
    m < n /\ KeyOfRun(m) = KeyOfRun(n) /\ runs[m].outcome # "failed"
      => runs[n].began >= runs[m].until

\* An answer is never that of another request, although a client may use a key
\* twice: what is replayed was answered, for the same method, path and body,
\* and an execution is told to the call it was made for (Idempotency).
AnswersOwnRequest ==
  \A r \in Request :
    /\ req[r].answer.kind = "replay" =>
         /\ req[r].answer.run \in DOMAIN runs
         /\ runs[req[r].answer.run].outcome = "answered"
         /\ Fingerprint[runs[req[r].answer.run].call] = Fingerprint[req[r].call]
    /\ req[r].answer.kind = "fresh" =>
         /\ req[r].answer.run \in DOMAIN runs
         /\ runs[req[r].answer.run].call = req[r].call

\* A request at work holds the reservation that it will complete or release:
\* nobody takes it over, so Complete and Release, which name the key only, touch
\* no row of another request (idempotency_pg.go, Complete and Release).
OwnReservation ==
  \A r \in Request : AtWork(r) =>
    records[KeyOf[req[r].call]]
      = Reservation(req[r].call, req[r].run, runs[req[r].run].until)

\* An execution keeps its key until its window ends, unless it failed.
WindowHeld ==
  \A n \in DOMAIN runs :
    runs[n].outcome # "failed" /\ now < runs[n].until
      => records[KeyOfRun(n)] # NoRow /\ records[KeyOfRun(n)].run = n

\* A row, or the copy of one in a snapshot, that names an execution tells of it.
TellsOf(row, k) ==
  /\ row.run # 0 =>
       /\ row.run \in DOMAIN runs
       /\ runs[row.run].call = row.by
       /\ runs[row.run].until = row.expires
       /\ KeyOf[row.by] = k
  /\ row.status = "completed" => row.run # 0 /\ runs[row.run].outcome = "answered"
RowsTell ==
  /\ \A k \in Key : records[k] # NoRow => TellsOf(records[k], k)
  /\ \A r \in Request : req[r].seen # NoRow => TellsOf(req[r].seen, KeyOf[req[r].call])

\* Where a request is in its execution, and that it is not late.
OutcomeAt(pc) == CASE pc = "handler" -> "running"
                   [] pc = "complete" -> "answered"
                   [] pc = "release" -> "failed"
InOrder ==
  \A r \in Request :
    /\ req[r] # Idle => req[r].at <= now /\ now <= req[r].at + Timeout
    /\ req[r].pc \in {"reserve", "handler"} => req[r].answer = NoAnswer
    /\ AtWork(r) =>
         /\ req[r].run \in DOMAIN runs
         /\ runs[req[r].run].call = req[r].call
         /\ runs[req[r].run].until >= req[r].at + TTL
         /\ runs[req[r].run].outcome = OutcomeAt(req[r].pc)
         /\ \A s \in Request : AtWork(s) /\ req[s].run = req[r].run => r = s

\* A call that may be sent has been sent at most once.
Attempts ==
  \A c \in Call : call[c].pc \in {"idle", "backoff"} => call[c].attempt < 2

\* The inductive invariant behind the three properties above.
IInv ==
  /\ TypeOK
  /\ OneExecution
  /\ AnswersOwnRequest
  /\ OwnReservation
  /\ WindowHeld
  /\ RowsTell
  /\ InOrder
  /\ Attempts

\* "Unreachable: the INSERT either created the row or a conflicting one exists,
\* so the SELECT always finds one" (idempotency_pg.go, Reserve).
ReservationIsFound == \A r \in Request : req[r].answer.kind # "vanished"
=============================================================================
