--------------------------- MODULE AdmissionProofs ---------------------------
(***************************************************************************)
(* Theorems about Accounts and Tickets, for every set of registrations,    *)
(* names, dates of birth, tickets and upgrades, and either store.          *)
(***************************************************************************)
EXTENDS Tickets, FiniteSetTheorems, TLAPS

USE AccountsAssumption, TicketsAssumption

-----------------------------------------------------------------------------
(* The inductive invariant.                                                *)

Registering ==
  [pc : {"idle", "email", "handle", "insert", "session", "done"},
   email : Email \cup {Nothing}, handle : Handle \cup {Nothing}, answer : Answer \cup {Nothing}]

AccountsTyped ==
  /\ born \in [Request -> Birth]
  /\ registering \in [Request -> Registering]
  /\ users \subseteq { NewUser(r) : r \in Request }
  /\ credentials \subseteq { NewCredentials(r) : r \in Request }

\* Rows are those of requests that have inserted them; who has not been answered
\* is no child; and who was told of an account, or is about to be, has both rows.
RowsAreOfRequests ==
  \A r \in Request :
    /\ NewUser(r) \in users <=> NewCredentials(r) \in credentials
    /\ NewUser(r) \in users => registering[r].pc \in {"session", "done"}
    /\ registering[r].pc # "done" => registering[r].answer = Nothing
    /\ registering[r].pc \notin {"idle", "done"} => DeriveAgeBand(born[r]) # "under_13"
    /\ registering[r].pc = "session" \/ registering[r].answer = "CREATED" =>
         NewUser(r) \in users /\ DeriveAgeBand(born[r]) # "under_13"

NamesAreApart ==
  \A r, s \in Request : NewUser(r) \in users /\ NewUser(s) \in users /\ r # s =>
    registering[r].handle # registering[s].handle /\ registering[r].email # registering[s].email

RefusalsAreTrue ==
  \A r \in Request :
    /\ registering[r].answer = "EMAIL_TAKEN" =>
         \E s \in Request : s # r /\ NewUser(s) \in users /\ registering[s].email = registering[r].email
    /\ registering[r].answer = "HANDLE_TAKEN" =>
         \E s \in Request : s # r /\ NewUser(s) \in users /\ registering[s].handle = registering[r].handle
    /\ registering[r].answer = "UNDER_MINIMUM_AGE" => DeriveAgeBand(born[r]) = "under_13"

AccountsInv == AccountsTyped /\ RowsAreOfRequests /\ NamesAreApart /\ RefusalsAreTrue

Entry == [ticket : Ticket, user : Request, expiresAt : Nat]
Upgrading == [pc : {"idle", "redeem", "member", "open", "refused"},
              ticket : Ticket \cup {Nothing}, now : Nat, user : Request \cup {Nothing}]

TicketsTyped ==
  /\ clock \in Nat
  /\ minted \subseteq Entry /\ tickets \subseteq minted
  /\ upgrades \in [Upgrade -> Upgrading]

Admitted(u) == upgrades[u].pc \in {"member", "open"}

\* A ticket was minted once, for an account, and an upgrade that it let in has
\* spent it.
TicketsAreSpent ==
  /\ \A e, f \in minted : e.ticket = f.ticket => e = f
  /\ \A e \in minted : LoggedIn(e.user)
  /\ \A u \in Upgrade : Admitted(u) =>
       /\ \E e \in minted :
            e.ticket = upgrades[u].ticket /\ e.user = upgrades[u].user /\ upgrades[u].now <= e.expiresAt
       /\ \A e \in tickets : e.ticket # upgrades[u].ticket
       /\ \A v \in Upgrade : Admitted(v) /\ upgrades[v].ticket = upgrades[u].ticket => u = v

TicketsInv == TicketsTyped /\ TicketsAreSpent

IInv == AccountsInv /\ TicketsInv

-----------------------------------------------------------------------------
(* Registration.                                                           *)

\* Rows carry the id of their request.
LEMMA RowsDiffer ==
  ASSUME NEW r, NEW s
  PROVE  (NewUser(r) = NewUser(s) => r = s) /\ (NewCredentials(r) = NewCredentials(s) => r = s)
<1>1. /\ NewUser(r).id = r /\ NewUser(s).id = s
      /\ NewCredentials(r).user = r /\ NewCredentials(s).user = s
  BY DEF NewUser, NewCredentials
<1>. QED  BY <1>1

\* A row depends on the names of its request alone.
LEMMA SameRow ==
  ASSUME NEW r, UNCHANGED born,
         registering'[r].handle = registering[r].handle,
         registering'[r].email = registering[r].email
  PROVE  NewUser(r)' = NewUser(r) /\ NewCredentials(r)' = NewCredentials(r)
BY DEF NewUser, NewCredentials

\* A step that writes no row and changes one request's variables, whose names
\* it keeps unless the request had none.
LEMMA Moves ==
  ASSUME AccountsInv, NEW r \in Request, NEW x \in Registering,
         UNCHANGED <<born, users, credentials>>,
         registering' = [registering EXCEPT ![r] = x],
         \/ registering[r].pc = "idle"
         \/ x.email = registering[r].email /\ x.handle = registering[r].handle,
         NewUser(r) \in users => x.pc \in {"session", "done"},
         x.pc # "done" => x.answer = Nothing,
         x.pc \notin {"idle", "done"} => DeriveAgeBand(born[r]) # "under_13",
         x.pc = "session" \/ x.answer = "CREATED" =>
           NewUser(r) \in users /\ DeriveAgeBand(born[r]) # "under_13",
         x.answer = "EMAIL_TAKEN" =>
           \E s \in Request : s # r /\ NewUser(s) \in users /\ registering[s].email = x.email,
         x.answer = "HANDLE_TAKEN" =>
           \E s \in Request : s # r /\ NewUser(s) \in users /\ registering[s].handle = x.handle,
         x.answer = "UNDER_MINIMUM_AGE" => DeriveAgeBand(born[r]) = "under_13"
  PROVE  AccountsInv'
<1>1. registering' \in [Request -> Registering] /\ registering'[r] = x
  BY DEF AccountsInv, AccountsTyped
<1>2. ASSUME NEW q \in Request, q # r
      PROVE  registering'[q] = registering[q]
  BY <1>2 DEF AccountsInv, AccountsTyped
<1>3. ASSUME NEW q \in Request, q # r
      PROVE  NewUser(q)' = NewUser(q) /\ NewCredentials(q)' = NewCredentials(q)
  BY <1>2, <1>3, SameRow
<1>4. ASSUME registering[r].pc # "idle"
      PROVE  NewUser(r)' = NewUser(r) /\ NewCredentials(r)' = NewCredentials(r)
  BY <1>1, <1>4, SameRow
<1>5. ASSUME registering[r].pc = "idle"
      PROVE  /\ NewUser(r) \notin users /\ NewCredentials(r) \notin credentials
             /\ NewUser(r)' \notin users /\ NewCredentials(r)' \notin credentials
  <2>1. NewUser(r) \notin users /\ NewCredentials(r) \notin credentials
    BY <1>5 DEF AccountsInv, RowsAreOfRequests
  <2>2. \A u \in users : u.id # r
    <3>1. SUFFICES ASSUME NEW q \in Request, NewUser(q) \in users, NewUser(q).id = r
                   PROVE  FALSE
      BY DEF AccountsInv, AccountsTyped
    <3>2. q = r  BY <3>1 DEF NewUser
    <3>. QED  BY <2>1, <3>1, <3>2
  <2>3. \A c \in credentials : c.user # r
    <3>1. SUFFICES ASSUME NEW q \in Request, NewCredentials(q) \in credentials, NewCredentials(q).user = r
                   PROVE  FALSE
      BY DEF AccountsInv, AccountsTyped
    <3>2. q = r  BY <3>1 DEF NewCredentials
    <3>. QED  BY <2>1, <3>1, <3>2
  <2>4. NewUser(r)'.id = r /\ NewCredentials(r)'.user = r
    BY DEF NewUser, NewCredentials
  <2>. QED  BY <2>1, <2>2, <2>3, <2>4
<1>6. \A q \in Request : /\ (NewUser(q) \in users)' <=> NewUser(q) \in users
                         /\ (NewCredentials(q) \in credentials)' <=> NewCredentials(q) \in credentials
  BY <1>3, <1>4, <1>5
<1>7. AccountsTyped'
  <2>1. users' \subseteq { NewUser(q)' : q \in Request }
    BY <1>3, <1>4, <1>5 DEF AccountsInv, AccountsTyped
  <2>2. credentials' \subseteq { NewCredentials(q)' : q \in Request }
    BY <1>3, <1>4, <1>5 DEF AccountsInv, AccountsTyped
  <2>. QED  BY <1>1, <2>1, <2>2 DEF AccountsInv, AccountsTyped
<1>8. RowsAreOfRequests'
  <2>1. SUFFICES ASSUME NEW q \in Request
                 PROVE  /\ (NewUser(q) \in users)' <=> (NewCredentials(q) \in credentials)'
                        /\ (NewUser(q) \in users)' => registering'[q].pc \in {"session", "done"}
                        /\ registering'[q].pc # "done" => registering'[q].answer = Nothing
                        /\ registering'[q].pc \notin {"idle", "done"} => DeriveAgeBand(born[q]) # "under_13"
                        /\ registering'[q].pc = "session" \/ registering'[q].answer = "CREATED" =>
                             (NewUser(q) \in users)' /\ DeriveAgeBand(born[q]) # "under_13"
    BY DEF RowsAreOfRequests, DeriveAgeBand, completedYears, EarlierInYear
  <2>. QED  BY <1>1, <1>2, <1>6 DEF AccountsInv, RowsAreOfRequests
<1>9. NamesAreApart'
  <2>1. ASSUME NEW q \in Request, NewUser(q) \in users
        PROVE  registering'[q].handle = registering[q].handle /\ registering'[q].email = registering[q].email
    BY <1>1, <1>2, <1>5, <2>1
  <2>. QED  BY <1>6, <2>1 DEF AccountsInv, NamesAreApart
<1>10. RefusalsAreTrue'
  <2>1. SUFFICES ASSUME NEW q \in Request
                 PROVE  /\ registering'[q].answer = "EMAIL_TAKEN" =>
                             \E s \in Request : s # q /\ (NewUser(s) \in users)' /\ registering'[s].email = registering'[q].email
                        /\ registering'[q].answer = "HANDLE_TAKEN" =>
                             \E s \in Request : s # q /\ (NewUser(s) \in users)' /\ registering'[s].handle = registering'[q].handle
                        /\ registering'[q].answer = "UNDER_MINIMUM_AGE" => DeriveAgeBand(born[q]) = "under_13"
    BY DEF RefusalsAreTrue, DeriveAgeBand, completedYears, EarlierInYear
  <2>2. ASSUME NEW s \in Request, NewUser(s) \in users
        PROVE  registering'[s].handle = registering[s].handle /\ registering'[s].email = registering[s].email
    BY <1>1, <1>2, <1>5, <2>2
  <2>3. CASE q = r
    BY <1>1, <1>6, <2>2, <2>3
  <2>4. CASE q # r
    BY <1>2, <1>6, <2>2, <2>4 DEF AccountsInv, RefusalsAreTrue
  <2>. QED  BY <2>3, <2>4
<1>. QED  BY <1>7, <1>8, <1>9, <1>10 DEF AccountsInv

\* The two rows of a request whose names nobody has.
LEMMA InsertsKeep ==
  ASSUME AccountsInv, NEW r \in Request, At(r, "insert"), UNCHANGED born,
         ~HasHandle(registering[r].handle), ~HasEmail(registering[r].email),
         Inserts(r)
  PROVE  AccountsInv'
<1>1. /\ registering \in [Request -> Registering]
      /\ registering' = [registering EXCEPT ![r].pc = "session"]
      /\ registering[r].pc = "insert"
  BY DEF AccountsInv, AccountsTyped, Inserts, GoesTo, At
<1>2. registering' \in [Request -> Registering]
  BY <1>1 DEF Registering
<1>3. ASSUME NEW q \in Request
      PROVE  /\ registering'[q].email = registering[q].email
             /\ registering'[q].handle = registering[q].handle
             /\ registering'[q].answer = registering[q].answer
             /\ registering'[q].pc = IF q = r THEN "session" ELSE registering[q].pc
  BY <1>1 DEF Registering
<1>4. ASSUME NEW q \in Request
      PROVE  NewUser(q)' = NewUser(q) /\ NewCredentials(q)' = NewCredentials(q)
  BY <1>3, SameRow
<1>5. users' = users \cup {NewUser(r)} /\ credentials' = credentials \cup {NewCredentials(r)}
  BY DEF Inserts
<1>6. ASSUME NEW q \in Request
      PROVE  /\ (NewUser(q) \in users)' <=> NewUser(q) \in users \/ q = r
             /\ (NewCredentials(q) \in credentials)' <=> NewCredentials(q) \in credentials \/ q = r
  BY <1>4, <1>5, RowsDiffer
<1>7. AccountsTyped'
  <2>1. users' \subseteq { NewUser(q)' : q \in Request }
    BY <1>4, <1>5 DEF AccountsInv, AccountsTyped
  <2>2. credentials' \subseteq { NewCredentials(q)' : q \in Request }
    BY <1>4, <1>5 DEF AccountsInv, AccountsTyped
  <2>. QED  BY <1>2, <2>1, <2>2 DEF AccountsInv, AccountsTyped
<1>8. RowsAreOfRequests'
  <2>1. SUFFICES ASSUME NEW q \in Request
                 PROVE  /\ (NewUser(q) \in users)' <=> (NewCredentials(q) \in credentials)'
                        /\ (NewUser(q) \in users)' => registering'[q].pc \in {"session", "done"}
                        /\ registering'[q].pc # "done" => registering'[q].answer = Nothing
                        /\ registering'[q].pc \notin {"idle", "done"} => DeriveAgeBand(born[q]) # "under_13"
                        /\ registering'[q].pc = "session" \/ registering'[q].answer = "CREATED" =>
                             (NewUser(q) \in users)' /\ DeriveAgeBand(born[q]) # "under_13"
    BY DEF RowsAreOfRequests, DeriveAgeBand, completedYears, EarlierInYear
  <2>. QED  BY <1>1, <1>3, <1>6 DEF AccountsInv, RowsAreOfRequests
<1>9. NamesAreApart'
  <2>1. ASSUME NEW q \in Request, NewUser(q) \in users
        PROVE  /\ registering[q].handle # registering[r].handle
               /\ registering[q].email # registering[r].email
    <3>1. NewUser(q).handle = registering[q].handle /\ NewCredentials(q).email = registering[q].email
      BY DEF NewUser, NewCredentials
    <3>2. NewCredentials(q) \in credentials
      BY <2>1 DEF AccountsInv, RowsAreOfRequests
    <3>. QED  BY <2>1, <3>1, <3>2 DEF HasHandle, HasEmail
  <2>. QED  BY <1>3, <1>6, <2>1 DEF AccountsInv, NamesAreApart
<1>10. RefusalsAreTrue'
  <2>1. SUFFICES ASSUME NEW q \in Request
                 PROVE  /\ registering'[q].answer = "EMAIL_TAKEN" =>
                             \E s \in Request : s # q /\ (NewUser(s) \in users)' /\ registering'[s].email = registering'[q].email
                        /\ registering'[q].answer = "HANDLE_TAKEN" =>
                             \E s \in Request : s # q /\ (NewUser(s) \in users)' /\ registering'[s].handle = registering'[q].handle
                        /\ registering'[q].answer = "UNDER_MINIMUM_AGE" => DeriveAgeBand(born[q]) = "under_13"
    BY DEF RefusalsAreTrue, DeriveAgeBand, completedYears, EarlierInYear
  <2>. QED  BY <1>3, <1>6 DEF AccountsInv, RefusalsAreTrue
<1>. QED  BY <1>7, <1>8, <1>9, <1>10 DEF AccountsInv

\* What the look-ups found is a row of another request.
LEMMA TakenByAnother ==
  ASSUME AccountsInv, NEW r \in Request, registering[r].pc \in {"email", "handle", "insert"}
  PROVE  /\ HasEmail(registering[r].email) =>
              \E s \in Request : s # r /\ NewUser(s) \in users /\ registering[s].email = registering[r].email
         /\ HasHandle(registering[r].handle) =>
              \E s \in Request : s # r /\ NewUser(s) \in users /\ registering[s].handle = registering[r].handle
<1>1. NewUser(r) \notin users
  BY DEF AccountsInv, RowsAreOfRequests
<1>2. ASSUME HasEmail(registering[r].email)
      PROVE  \E s \in Request : s # r /\ NewUser(s) \in users /\ registering[s].email = registering[r].email
  <2>1. PICK s \in Request : NewCredentials(s) \in credentials /\ NewCredentials(s).email = registering[r].email
    BY <1>2 DEF HasEmail, AccountsInv, AccountsTyped
  <2>2. registering[s].email = registering[r].email /\ NewUser(s) \in users
    BY <2>1 DEF NewCredentials, AccountsInv, RowsAreOfRequests
  <2>. QED  BY <1>1, <2>2
<1>3. ASSUME HasHandle(registering[r].handle)
      PROVE  \E s \in Request : s # r /\ NewUser(s) \in users /\ registering[s].handle = registering[r].handle
  <2>1. PICK s \in Request : NewUser(s) \in users /\ NewUser(s).handle = registering[r].handle
    BY <1>3 DEF HasHandle, AccountsInv, AccountsTyped
  <2>2. registering[s].handle = registering[r].handle
    BY <2>1 DEF NewUser
  <2>. QED  BY <1>1, <2>1, <2>2
<1>. QED  BY <1>2, <1>3

\* An answer ends a request: what it must have found.
LEMMA AnswersKeep ==
  ASSUME AccountsInv, NEW r \in Request, NEW answer \in Answer,
         UNCHANGED <<born, users, credentials>>, Answers(r, answer),
         answer = "EMAIL_TAKEN" => registering[r].pc \in {"email", "insert"} /\ HasEmail(registering[r].email),
         answer = "HANDLE_TAKEN" => registering[r].pc \in {"handle", "insert"} /\ HasHandle(registering[r].handle),
         answer = "UNDER_MINIMUM_AGE" => DeriveAgeBand(born[r]) = "under_13",
         answer = "CREATED" => registering[r].pc = "session"
  PROVE  AccountsInv'
<1> DEFINE x == [registering[r] EXCEPT !.pc = "done", !.answer = answer]
<1>1. registering \in [Request -> Registering]
  BY DEF AccountsInv, AccountsTyped
<1>2. x \in Registering /\ x.pc = "done" /\ x.answer = answer
      /\ x.email = registering[r].email /\ x.handle = registering[r].handle
  BY <1>1 DEF Registering
<1>3. registering' = [registering EXCEPT ![r] = x]
  BY <1>1 DEF Answers, Registering
<1>4. answer = "CREATED" => NewUser(r) \in users /\ DeriveAgeBand(born[r]) # "under_13"
  BY DEF AccountsInv, RowsAreOfRequests
<1>5. answer = "EMAIL_TAKEN" =>
        \E s \in Request : s # r /\ NewUser(s) \in users /\ registering[s].email = registering[r].email
  BY TakenByAnother
<1>6. answer = "HANDLE_TAKEN" =>
        \E s \in Request : s # r /\ NewUser(s) \in users /\ registering[s].handle = registering[r].handle
  BY TakenByAnother
<1>. HIDE DEF x
<1>7. /\ NewUser(r) \in users => x.pc \in {"session", "done"}
      /\ x.pc # "done" => x.answer = Nothing
      /\ x.pc \notin {"idle", "done"} => DeriveAgeBand(born[r]) # "under_13"
      /\ x.pc = "session" \/ x.answer = "CREATED" =>
           NewUser(r) \in users /\ DeriveAgeBand(born[r]) # "under_13"
  BY <1>2, <1>4
<1>8. /\ x.answer = "EMAIL_TAKEN" =>
           \E s \in Request : s # r /\ NewUser(s) \in users /\ registering[s].email = x.email
      /\ x.answer = "HANDLE_TAKEN" =>
           \E s \in Request : s # r /\ NewUser(s) \in users /\ registering[s].handle = x.handle
      /\ x.answer = "UNDER_MINIMUM_AGE" => DeriveAgeBand(born[r]) = "under_13"
  BY <1>2, <1>5, <1>6
<1>. QED  BY <1>2, <1>3, <1>7, <1>8, Moves

\* A look-up that found nothing lets its request go on.
LEMMA GoesOn ==
  ASSUME AccountsInv, NEW r \in Request, NEW pc \in {"handle", "insert"},
         UNCHANGED <<born, users, credentials>>, GoesTo(r, pc),
         registering[r].pc \in {"email", "handle"}
  PROVE  AccountsInv'
<1> DEFINE x == [registering[r] EXCEPT !.pc = pc]
<1>1. registering \in [Request -> Registering]
  BY DEF AccountsInv, AccountsTyped
<1>2. x \in Registering /\ x.pc = pc /\ x.answer = registering[r].answer
      /\ x.email = registering[r].email /\ x.handle = registering[r].handle
  BY <1>1 DEF Registering
<1>3. registering' = [registering EXCEPT ![r] = x]
  BY <1>1 DEF GoesTo, Registering
<1>4. /\ NewUser(r) \notin users /\ registering[r].answer = Nothing
      /\ DeriveAgeBand(born[r]) # "under_13"
  BY DEF AccountsInv, RowsAreOfRequests
<1>5. x.answer \notin {"CREATED", "EMAIL_TAKEN", "HANDLE_TAKEN", "UNDER_MINIMUM_AGE"}
  BY <1>2, <1>4 DEF Answer
<1>. HIDE DEF x
<1>6. x.pc \in {"handle", "insert"} /\ x.answer = Nothing /\ x.pc # "session" /\ x.pc # "done"
  BY <1>2, <1>4
<1>. QED  BY <1>2, <1>3, <1>4, <1>5, <1>6, Moves

\* Registrations keep their invariant.
LEMMA RegistrationKeeps ==
  ASSUME AccountsInv, AccountsNext
  PROVE  AccountsInv'
<1>1. PICK r \in Request :
        \/ Register(r) \/ EmailTaken(r) \/ HandleTaken(r)
        \/ CreateUser(r) \/ dCreateUser(r)
        \/ StartSession(r) \/ RegistrationFails(r)
  BY DEF AccountsNext
<1>2. CASE Register(r)
  <2>1. UNCHANGED <<born, users, credentials>> /\ registering[r].pc = "idle"
    BY <1>2 DEF Register, At
  <2>2. ASSUME NEW email \in Email, NEW handle \in Handle, DeriveAgeBand(born[r]) # "under_13",
               registering' = [registering EXCEPT ![r] =
                 [Idle EXCEPT !.pc = "email", !.email = email, !.handle = handle]]
        PROVE  AccountsInv'
    <3> DEFINE x == [Idle EXCEPT !.pc = "email", !.email = email, !.handle = handle]
    <3>1. x \in Registering /\ x.pc = "email" /\ x.answer = Nothing
      BY DEF Idle, Registering
    <3>2. NewUser(r) \notin users
      BY <2>1 DEF AccountsInv, RowsAreOfRequests
    <3>3. x.answer \notin {"CREATED", "EMAIL_TAKEN", "HANDLE_TAKEN", "UNDER_MINIMUM_AGE"}
      BY <3>1 DEF Answer
    <3>4. registering' = [registering EXCEPT ![r] = x]
      BY <2>2
    <3>. HIDE DEF x
    <3>. QED  BY <2>1, <2>2, <3>1, <3>2, <3>3, <3>4, Moves
  <2>3. ASSUME NEW answer \in Unfit, Answers(r, answer)
        PROVE  AccountsInv'
    BY <2>1, <2>3, AnswersKeep DEF Unfit, Answer
  <2>4. ASSUME DeriveAgeBand(born[r]) = "under_13", Answers(r, "UNDER_MINIMUM_AGE")
        PROVE  AccountsInv'
    BY <2>1, <2>4, AnswersKeep DEF Answer
  <2>. QED  BY <1>2, <2>2, <2>3, <2>4 DEF Register
<1>3. CASE EmailTaken(r)
  <2>1. CASE HasEmail(registering[r].email)
    BY <1>3, <2>1, AnswersKeep DEF EmailTaken, At, Answer
  <2>2. CASE ~HasEmail(registering[r].email)
    BY <1>3, <2>2, GoesOn DEF EmailTaken, At
  <2>. QED  BY <2>1, <2>2
<1>4. CASE HandleTaken(r)
  <2>1. CASE HasHandle(registering[r].handle)
    BY <1>4, <2>1, AnswersKeep DEF HandleTaken, At, Answer
  <2>2. CASE ~HasHandle(registering[r].handle)
    BY <1>4, <2>2, GoesOn DEF HandleTaken, At
  <2>. QED  BY <2>1, <2>2
<1>5. CASE CreateUser(r) \/ dCreateUser(r)
  <2>1. At(r, "insert") /\ UNCHANGED born
    BY <1>5 DEF CreateUser, dCreateUser
  <2>2. \/ HasHandle(registering[r].handle) /\ Answers(r, "HANDLE_TAKEN") /\ UNCHANGED <<users, credentials>>
        \/ HasEmail(registering[r].email) /\ Answers(r, "EMAIL_TAKEN") /\ UNCHANGED <<users, credentials>>
        \/ ~HasHandle(registering[r].handle) /\ ~HasEmail(registering[r].email) /\ Inserts(r)
    BY <1>5 DEF CreateUser, dCreateUser
  <2>3. ASSUME HasHandle(registering[r].handle), Answers(r, "HANDLE_TAKEN"), UNCHANGED <<users, credentials>>
        PROVE  AccountsInv'
    BY <2>1, <2>3, AnswersKeep DEF At, Answer
  <2>4. ASSUME HasEmail(registering[r].email), Answers(r, "EMAIL_TAKEN"), UNCHANGED <<users, credentials>>
        PROVE  AccountsInv'
    BY <2>1, <2>4, AnswersKeep DEF At, Answer
  <2>5. ASSUME ~HasHandle(registering[r].handle), ~HasEmail(registering[r].email), Inserts(r)
        PROVE  AccountsInv'
    BY <2>1, <2>5, InsertsKeep
  <2>. QED  BY <2>2, <2>3, <2>4, <2>5
<1>6. CASE StartSession(r)
  BY <1>6, AnswersKeep DEF StartSession, At, Answer
<1>7. CASE RegistrationFails(r)
  BY <1>7, AnswersKeep DEF RegistrationFails, Answer
<1>. QED  BY <1>1, <1>2, <1>3, <1>4, <1>5, <1>6, <1>7

\* Steps of others change nothing of it.
LEMMA AccountsStutter ==
  ASSUME AccountsInv, UNCHANGED accountVars
  PROVE  AccountsInv'
<1>1. UNCHANGED <<born, users, credentials, registering>>
  BY DEF accountVars
<1>2. ASSUME NEW q \in Request
      PROVE  /\ NewUser(q)' = NewUser(q) /\ NewCredentials(q)' = NewCredentials(q)
             /\ (DeriveAgeBand(born[q]))' = DeriveAgeBand(born[q])
  BY <1>1, SameRow DEF DeriveAgeBand, completedYears, EarlierInYear
<1>3. AccountsTyped'
  <2>1. users' \subseteq { NewUser(q)' : q \in Request }
    BY <1>1, <1>2 DEF AccountsInv, AccountsTyped
  <2>2. credentials' \subseteq { NewCredentials(q)' : q \in Request }
    BY <1>1, <1>2 DEF AccountsInv, AccountsTyped
  <2>. QED  BY <1>1, <2>1, <2>2 DEF AccountsInv, AccountsTyped
<1>4. RowsAreOfRequests'
  BY <1>1, <1>2 DEF AccountsInv, RowsAreOfRequests
<1>5. NamesAreApart'
  BY <1>1, <1>2 DEF AccountsInv, NamesAreApart
<1>6. RefusalsAreTrue'
  BY <1>1, <1>2 DEF AccountsInv, RefusalsAreTrue
<1>. QED  BY <1>3, <1>4, <1>5, <1>6 DEF AccountsInv

\* An answer is never taken back.
LEMMA AnswersStay ==
  ASSUME AccountsInv, AccountsNext, NEW q \in Request, LoggedIn(q)
  PROVE  LoggedIn(q)'
<1>1. registering \in [Request -> Registering] /\ registering[q].pc = "done"
  BY DEF AccountsInv, AccountsTyped, RowsAreOfRequests, LoggedIn, Answer
<1>2. PICK r \in Request :
        /\ registering[r].pc # "done"
        /\ \A s \in Request : s # r => registering'[s] = registering[s]
  BY <1>1 DEF AccountsNext, Register, EmailTaken, HandleTaken, CreateUser, dCreateUser,
       StartSession, RegistrationFails, Inserts, GoesTo, Answers, At
<1>. QED  BY <1>1, <1>2 DEF LoggedIn

LEMMA AccountsBegin == AccountsInit => AccountsInv
<1>. SUFFICES ASSUME AccountsInit PROVE AccountsInv
  OBVIOUS
<1>1. \A r \in Request : registering[r] = Idle
  BY DEF AccountsInit
<1>2. /\ Idle \in Registering /\ Idle.pc = "idle" /\ Idle.answer = Nothing
      /\ Nothing \notin {"CREATED", "EMAIL_TAKEN", "HANDLE_TAKEN", "UNDER_MINIMUM_AGE"}
  BY DEF Idle, Registering, Answer
<1>. QED  BY <1>1, <1>2 DEF AccountsInit, AccountsInv, AccountsTyped, RowsAreOfRequests, NamesAreApart,
                       RefusalsAreTrue

-----------------------------------------------------------------------------
(* Tickets.                                                                *)

\* A step of one upgrade that lets nobody in, and gives no ticket back.
LEMMA UpgradeMoves ==
  ASSUME TicketsInv, NEW u \in Upgrade, NEW x \in Upgrading,
         UNCHANGED <<clock, minted, registering>>, tickets' \subseteq tickets,
         upgrades' = [upgrades EXCEPT ![u] = x],
         x.pc \in {"member", "open"} => /\ Admitted(u)
                                      /\ x.ticket = upgrades[u].ticket
                                      /\ x.user = upgrades[u].user /\ x.now = upgrades[u].now
  PROVE  TicketsInv'
<1>1. /\ upgrades' \in [Upgrade -> Upgrading]
      /\ \A v \in Upgrade : upgrades'[v] = IF v = u THEN x ELSE upgrades[v]
  BY DEF TicketsInv, TicketsTyped
<1>2. \A v \in Upgrade : Admitted(v)' =>
        /\ Admitted(v)
        /\ upgrades'[v].ticket = upgrades[v].ticket
        /\ upgrades'[v].user = upgrades[v].user /\ upgrades'[v].now = upgrades[v].now
  BY <1>1 DEF Admitted
<1>3. TicketsTyped'
  BY <1>1 DEF TicketsInv, TicketsTyped
<1>4. \A e \in minted' : LoggedIn(e.user)'
  BY DEF TicketsInv, TicketsAreSpent, LoggedIn
<1>5. ASSUME NEW v \in Upgrade, Admitted(v)'
      PROVE  /\ \E e \in minted' :
                  e.ticket = upgrades'[v].ticket /\ e.user = upgrades'[v].user /\ upgrades'[v].now <= e.expiresAt
             /\ \A e \in tickets' : e.ticket # upgrades'[v].ticket
             /\ \A w \in Upgrade : Admitted(w)' /\ upgrades'[w].ticket = upgrades'[v].ticket => v = w
  BY <1>2, <1>5 DEF TicketsInv, TicketsAreSpent
<1>. QED  BY <1>3, <1>4, <1>5 DEF TicketsInv, TicketsAreSpent

\* A redemption, by either store: who is let in takes the entry away.
LEMMA RedeemKeeps ==
  ASSUME TicketsInv, NEW u \in Upgrade, upgrades[u].pc = "redeem",
         tickets' = tickets \ Found(u), Decides(u), UNCHANGED <<clock, minted, registering>>
  PROVE  TicketsInv'
<1>1. upgrades \in [Upgrade -> Upgrading] /\ upgrades[u] \in Upgrading
  BY DEF TicketsInv, TicketsTyped
<1>2. CASE \E e \in Found(u) : ~TicketExpired(e, upgrades[u].now)
  <2>1. PICK e \in Found(u) : ~TicketExpired(e, upgrades[u].now)
    BY <1>2
  <2>2. e \in tickets /\ e \in minted /\ e.ticket = upgrades[u].ticket
    BY <2>1 DEF Found, TicketsInv, TicketsTyped
  <2>3. Found(u) = {e}
    BY <2>2 DEF Found, TicketsInv, TicketsTyped, TicketsAreSpent
  <2>4. (CHOOSE f \in Found(u) : TRUE) = e
    BY <2>3
  <2>5. e \in Entry /\ e.expiresAt \in Nat /\ upgrades[u].now \in Nat
    BY <1>1, <2>2 DEF TicketsInv, TicketsTyped, Entry, Upgrading
  <2>6. upgrades[u].now <= e.expiresAt
    BY <2>1, <2>5 DEF TicketExpired
  <2> DEFINE x == [upgrades[u] EXCEPT !.pc = "member", !.user = e.user]
  <2>7. /\ x \in Upgrading /\ x.pc = "member" /\ x.user = e.user
        /\ x.ticket = upgrades[u].ticket /\ x.now = upgrades[u].now
    BY <1>1, <2>5 DEF Upgrading, Entry
  <2>8. upgrades' = [upgrades EXCEPT ![u] = x]
    BY <1>1, <1>2, <2>4 DEF Decides
  <2>. HIDE DEF x
  <2>9. /\ upgrades' \in [Upgrade -> Upgrading]
        /\ \A v \in Upgrade : upgrades'[v] = IF v = u THEN x ELSE upgrades[v]
    BY <1>1, <2>7, <2>8
  <2>10. TicketsTyped'
    BY <2>9 DEF TicketsInv, TicketsTyped
  <2>11. \A f \in minted' : LoggedIn(f.user)'
    BY DEF TicketsInv, TicketsAreSpent, LoggedIn
  <2>12. \A v \in Upgrade : v # u => /\ Admitted(v)' <=> Admitted(v)
                                    /\ upgrades'[v] = upgrades[v]
    BY <2>9 DEF Admitted
  <2>13. \A v \in Upgrade : v # u /\ Admitted(v) => upgrades[v].ticket # upgrades[u].ticket
    BY <2>2 DEF TicketsInv, TicketsAreSpent
  <2>14. ASSUME NEW v \in Upgrade, Admitted(v)'
         PROVE  /\ \E f \in minted' :
                     f.ticket = upgrades'[v].ticket /\ f.user = upgrades'[v].user /\ upgrades'[v].now <= f.expiresAt
                /\ \A f \in tickets' : f.ticket # upgrades'[v].ticket
                /\ \A w \in Upgrade : Admitted(w)' /\ upgrades'[w].ticket = upgrades'[v].ticket => v = w
    <3>1. CASE v = u
      <4>1. \A f \in tickets' : f.ticket # upgrades[u].ticket
        BY DEF Found
      <4>2. upgrades'[v].ticket = upgrades[u].ticket /\ upgrades'[v].user = e.user
            /\ upgrades'[v].now = upgrades[u].now
        BY <2>7, <2>9, <3>1
      <4>. QED  BY <2>2, <2>6, <2>12, <2>13, <3>1, <4>1, <4>2
    <3>2. CASE v # u
      <4>1. upgrades'[u].ticket = upgrades[u].ticket
        BY <2>7, <2>9
      <4>2. Admitted(v) /\ upgrades'[v] = upgrades[v] /\ upgrades[v].ticket # upgrades[u].ticket
        BY <2>12, <2>13, <2>14, <3>2
      <4>. QED  BY <2>12, <3>2, <4>1, <4>2 DEF TicketsInv, TicketsAreSpent
    <3>. QED  BY <3>1, <3>2
  <2>. QED  BY <2>10, <2>11, <2>14 DEF TicketsInv, TicketsAreSpent
<1>3. CASE ~ \E e \in Found(u) : ~TicketExpired(e, upgrades[u].now)
  <2> DEFINE x == [upgrades[u] EXCEPT !.pc = "refused"]
  <2>1. x \in Upgrading /\ x.pc = "refused"
    BY <1>1 DEF Upgrading
  <2>2. upgrades' = [upgrades EXCEPT ![u] = x]
    BY <1>1, <1>3 DEF Decides
  <2>. HIDE DEF x
  <2>. QED  BY <2>1, <2>2, UpgradeMoves
<1>. QED  BY <1>2, <1>3

\* Upgrades, tickets and the clock keep their invariant.
LEMMA TicketsKeep ==
  ASSUME AccountsInv, TicketsInv, TicketsNext, UNCHANGED accountVars
  PROVE  TicketsInv'
<1>0. registering' = registering /\ upgrades \in [Upgrade -> Upgrading]
  BY DEF accountVars, TicketsInv, TicketsTyped
<1>1. ASSUME NEW t \in Ticket, NEW r \in Request, WsTicket(t, r)
      PROVE  TicketsInv'
  <2> DEFINE n == NewWSTicket(t, r)
  <2>1. n \in Entry /\ n.ticket = t /\ n.user = r
    BY DEF NewWSTicket, Entry, TicketsInv, TicketsTyped
  <2>2. /\ tickets' = tickets \cup {n} /\ minted' = minted \cup {n} /\ LoggedIn(r)
        /\ UNCHANGED <<clock, upgrades>> /\ \A e \in minted : e.ticket # t
    BY <1>1 DEF WsTicket, Drawn
  <2>. HIDE DEF n
  <2>3. TicketsTyped'
    BY <2>1, <2>2 DEF TicketsInv, TicketsTyped
  <2>4. \A u \in Upgrade : (Admitted(u)' <=> Admitted(u)) /\ (Admitted(u) => upgrades[u].ticket # t)
    BY <2>2 DEF Admitted, TicketsInv, TicketsAreSpent
  <2>5. \A e, f \in minted' : e.ticket = f.ticket => e = f
    BY <2>1, <2>2 DEF TicketsInv, TicketsAreSpent
  <2>6. \A e \in minted' : LoggedIn(e.user)'
    BY <1>0, <2>1, <2>2 DEF TicketsInv, TicketsAreSpent, LoggedIn
  <2>7. ASSUME NEW u \in Upgrade, Admitted(u)'
        PROVE  /\ \E e \in minted' :
                    e.ticket = upgrades'[u].ticket /\ e.user = upgrades'[u].user /\ upgrades'[u].now <= e.expiresAt
               /\ \A e \in tickets' : e.ticket # upgrades'[u].ticket
               /\ \A v \in Upgrade : Admitted(v)' /\ upgrades'[v].ticket = upgrades'[u].ticket => u = v
    BY <2>1, <2>2, <2>4, <2>7 DEF TicketsInv, TicketsAreSpent
  <2>. QED  BY <2>3, <2>5, <2>6, <2>7 DEF TicketsInv, TicketsAreSpent
<1>2. ASSUME NEW u \in Upgrade, NEW t \in Ticket, BeginUpgrade(u, t)
      PROVE  TicketsInv'
  <2> DEFINE x == [Waiting EXCEPT !.pc = "redeem", !.ticket = t, !.now = clock]
  <2>1. x \in Upgrading /\ x.pc = "redeem"
    BY DEF Waiting, Upgrading, TicketsInv, TicketsTyped
  <2>2. upgrades' = [upgrades EXCEPT ![u] = x] /\ UNCHANGED <<clock, tickets, minted>>
    BY <1>2 DEF BeginUpgrade
  <2>. HIDE DEF x
  <2>. QED  BY <1>0, <2>1, <2>2, UpgradeMoves
<1>3. ASSUME NEW u \in Upgrade, Redeem(u) \/ dRedeem(u)
      PROVE  TicketsInv'
  BY <1>0, <1>3, RedeemKeeps DEF Redeem, dRedeem
<1>4. ASSUME NEW u \in Upgrade, Refuse(u), UNCHANGED <<clock, minted>>, tickets' \subseteq tickets
      PROVE  TicketsInv'
  <2> DEFINE x == [upgrades[u] EXCEPT !.pc = "refused"]
  <2>1. x \in Upgrading /\ x.pc = "refused"
    BY <1>0 DEF Upgrading
  <2>2. upgrades' = [upgrades EXCEPT ![u] = x]
    BY <1>0, <1>4 DEF Refuse
  <2>. HIDE DEF x
  <2>. QED  BY <1>0, <1>4, <2>1, <2>2, UpgradeMoves
<1>5. ASSUME NEW u \in Upgrade, RedeemFails(u)
      PROVE  TicketsInv'
  BY <1>4, <1>5 DEF RedeemFails
<1>6. ASSUME NEW u \in Upgrade, Joins(u)
      PROVE  TicketsInv'
  <2>1. CASE Refuse(u)
    BY <1>4, <1>6, <2>1 DEF Joins
  <2>2. CASE upgrades' = [upgrades EXCEPT ![u].pc = "open"]
    <3> DEFINE x == [upgrades[u] EXCEPT !.pc = "open"]
    <3>1. /\ x \in Upgrading /\ x.pc = "open" /\ x.ticket = upgrades[u].ticket
          /\ x.user = upgrades[u].user /\ x.now = upgrades[u].now
      BY <1>0 DEF Upgrading
    <3>2. upgrades' = [upgrades EXCEPT ![u] = x] /\ UNCHANGED <<clock, tickets, minted>> /\ Admitted(u)
      BY <1>0, <1>6, <2>2 DEF Joins, Admitted
    <3>. HIDE DEF x
    <3>. QED  BY <1>0, <3>1, <3>2, UpgradeMoves
  <2>. QED  BY <1>6, <2>1, <2>2 DEF Joins
<1>7. ASSUME UNCHANGED <<minted, upgrades>>, tickets' \subseteq tickets, clock' \in Nat
      PROVE  TicketsInv'
  BY <1>0, <1>7 DEF TicketsInv, TicketsTyped, TicketsAreSpent, Admitted, LoggedIn
<1>8. CASE RedisForgets
  BY <1>7, <1>8 DEF RedisForgets, TicketsInv, TicketsTyped
<1>9. CASE ClockTicks
  BY <1>7, <1>9 DEF ClockTicks, TicketsInv, TicketsTyped
<1>. QED  BY <1>1, <1>2, <1>3, <1>5, <1>6, <1>8, <1>9 DEF TicketsNext

-----------------------------------------------------------------------------
(* Together.                                                               *)

\* Every reachable state satisfies the invariant that ties the rows to the
\* registrations that wrote them, and the tickets to the upgrades that spent
\* them.
THEOREM AdmissionInvariant == AdmissionSpec => []IInv
<1>1. AdmissionInit => IInv
  <2>. SUFFICES ASSUME AdmissionInit PROVE IInv
    OBVIOUS
  <2>1. AccountsInv
    BY AccountsBegin DEF AdmissionInit
  <2>2. Waiting \in Upgrading /\ Waiting.pc = "idle"
    BY DEF Waiting, Upgrading
  <2>3. TicketsInv
    BY <2>2 DEF AdmissionInit, TicketsInit, TicketsInv, TicketsTyped, TicketsAreSpent, Admitted
  <2>. QED  BY <2>1, <2>3 DEF IInv
<1>2. IInv /\ [AdmissionNext]_<<accountVars, ticketVars>> => IInv'
  <2>. SUFFICES ASSUME AccountsInv, TicketsInv, [AdmissionNext]_<<accountVars, ticketVars>>
                PROVE  AccountsInv' /\ TicketsInv'
    BY DEF IInv
  <2>1. CASE AccountsNext /\ UNCHANGED ticketVars
    <3>1. AccountsInv'
      BY <2>1, RegistrationKeeps
    <3>2. UNCHANGED <<clock, tickets, minted, upgrades>>
      BY <2>1 DEF ticketVars
    <3>3. \A e \in minted : LoggedIn(e.user)'
      BY <2>1, AnswersStay DEF TicketsInv, TicketsTyped, TicketsAreSpent, Entry
    <3>4. TicketsInv'
      BY <3>2, <3>3 DEF TicketsInv, TicketsTyped, TicketsAreSpent, Admitted
    <3>. QED  BY <3>1, <3>4
  <2>2. CASE TicketsNext /\ UNCHANGED accountVars
    BY <2>2, TicketsKeep, AccountsStutter
  <2>3. CASE UNCHANGED <<accountVars, ticketVars>>
    <3>1. UNCHANGED <<registering, clock, tickets, minted, upgrades>>
      BY <2>3 DEF accountVars, ticketVars
    <3>2. TicketsInv'
      BY <3>1 DEF TicketsInv, TicketsTyped, TicketsAreSpent, Admitted, LoggedIn
    <3>. QED  BY <2>3, <3>2, AccountsStutter
  <2>. QED  BY <2>1, <2>2, <2>3 DEF AdmissionNext
<1>. QED  BY <1>1, <1>2, PTL DEF AdmissionSpec

\* One account to an email and to a handle, and none without credentials, however
\* registrations race and wherever they fail.
THEOREM AccountsStayWhole == AdmissionSpec => []AccountsAreWhole
<1>1. IInv => AccountsAreWhole
  <2>. SUFFICES ASSUME AccountsInv PROVE AccountsAreWhole
    BY DEF IInv
  <2>1. \A r \in Request : /\ NewUser(r).id = r /\ NewUser(r).handle = registering[r].handle
                           /\ NewCredentials(r).user = r /\ NewCredentials(r).email = registering[r].email
    BY DEF NewUser, NewCredentials
  <2>2. ASSUME NEW u \in users, NEW v \in users, u.handle = v.handle
        PROVE  u = v
    <3>1. PICK r \in Request, s \in Request : u = NewUser(r) /\ v = NewUser(s)
      BY DEF AccountsInv, AccountsTyped
    <3>. QED  BY <2>1, <2>2, <3>1 DEF AccountsInv, NamesAreApart
  <2>3. ASSUME NEW c \in credentials, NEW d \in credentials, c.email = d.email \/ c.user = d.user
        PROVE  c = d
    <3>1. PICK r \in Request, s \in Request : c = NewCredentials(r) /\ d = NewCredentials(s)
      BY DEF AccountsInv, AccountsTyped
    <3>. QED  BY <2>1, <2>3, <3>1 DEF AccountsInv, NamesAreApart, RowsAreOfRequests
  <2>4. ASSUME NEW u \in users PROVE \E c \in credentials : c.user = u.id
    <3>1. PICK r \in Request : u = NewUser(r)
      BY DEF AccountsInv, AccountsTyped
    <3>. QED  BY <2>1, <3>1 DEF AccountsInv, RowsAreOfRequests
  <2>5. ASSUME NEW c \in credentials PROVE \E u \in users : u.id = c.user
    <3>1. PICK r \in Request : c = NewCredentials(r)
      BY DEF AccountsInv, AccountsTyped
    <3>. QED  BY <2>1, <3>1 DEF AccountsInv, RowsAreOfRequests
  <2>. QED  BY <2>2, <2>3, <2>4, <2>5 DEF AccountsAreWhole
<1>. QED  BY <1>1, AdmissionInvariant, PTL

\* completedYears counts birthdays.
LEMMA YearsAreBirthdays ==
  ASSUME NEW dob \in Date
  PROVE  completedYears(dob) =
           Cardinality({ y \in dob.year + 1 .. Today.year : y < Today.year \/ ~EarlierInYear(Today, dob) })
<1> DEFINE last == IF EarlierInYear(Today, dob) THEN Today.year - 1 ELSE Today.year
           birthdays == { y \in dob.year + 1 .. Today.year : y < Today.year \/ ~EarlierInYear(Today, dob) }
<1>1. dob.year \in Nat /\ Today.year \in Nat
  BY DEF Date
<1>2. last \in Int
  BY <1>1
<1>3. birthdays = dob.year + 1 .. last
  BY <1>1
<1>4. Cardinality(dob.year + 1 .. last) = IF dob.year + 1 > last THEN 0 ELSE last - (dob.year + 1) + 1
  <2>1. dob.year + 1 \in Int
    BY <1>1
  <2>. HIDE DEF last
  <2>. QED  BY ONLY <1>2, <2>1, FS_Interval
<1>5. completedYears(dob) = IF last - dob.year < 0 THEN 0 ELSE last - dob.year
  BY <1>1 DEF completedYears
<1>. HIDE DEF last
<1>6. (IF last - dob.year < 0 THEN 0 ELSE last - dob.year) =
      (IF dob.year + 1 > last THEN 0 ELSE last - (dob.year + 1) + 1)
  BY <1>1, <1>2
<1>. QED  BY <1>3, <1>4, <1>5, <1>6

\* A refusal blames a name that another account has, children and nobody else are
\* refused for their age, and who is told of an account has it, found by others
\* from sixteen on: on any day and for every date of birth.
THEOREM AnswersStayTrue == AdmissionSpec => []AnswersAreTrue
<1>1. IInv => AnswersAreTrue
  <2>. SUFFICES ASSUME AccountsInv, NEW r \in Request
                PROVE  LET me == registering[r]
                           birthdays == { y \in born[r].year + 1 .. Today.year :
                                            y < Today.year \/ ~EarlierInYear(Today, born[r]) }
                           age == Cardinality(birthdays)
                       IN
                         /\ me.answer = "EMAIL_TAKEN" =>
                              \E c \in credentials : c.email = me.email /\ c.user # r
                         /\ me.answer = "HANDLE_TAKEN" =>
                              \E u \in users : u.handle = me.handle /\ u.id # r
                         /\ me.answer = "UNDER_MINIMUM_AGE" => age < 13
                         /\ me.answer = "CREATED" =>
                              /\ NewCredentials(r) \in credentials
                              /\ \E u \in users :
                                   /\ u.id = r /\ u.handle = me.handle
                                   /\ age >= 13 /\ u.discoverable = (age >= 16)
    BY DEF IInv, AnswersAreTrue
  <2> DEFINE age == Cardinality({ y \in born[r].year + 1 .. Today.year :
                                    y < Today.year \/ ~EarlierInYear(Today, born[r]) })
  <2>1. born[r] \in Date
    BY DEF AccountsInv, AccountsTyped
  <2>2. age = completedYears(born[r])
    BY <2>1, YearsAreBirthdays
  <2>3. age \in Nat
    <3>1. born[r].year \in Nat /\ Today.year \in Nat
      BY <2>1 DEF Date
    <3>. QED  BY <2>2, <3>1 DEF completedYears
  <2>. HIDE DEF age
  <2>4. /\ DeriveAgeBand(born[r]) = "under_13" <=> age < 13
        /\ age >= 13 => (Discoverable(DeriveAgeBand(born[r])) <=> age >= 16)
    BY <2>2, <2>3 DEF DeriveAgeBand, Discoverable
  <2>5. ASSUME registering[r].answer = "EMAIL_TAKEN"
        PROVE  \E c \in credentials : c.email = registering[r].email /\ c.user # r
    <3>1. PICK s \in Request : s # r /\ NewUser(s) \in users /\ registering[s].email = registering[r].email
      BY <2>5 DEF AccountsInv, RefusalsAreTrue
    <3>2. NewCredentials(s) \in credentials
      BY <3>1 DEF AccountsInv, RowsAreOfRequests
    <3>. QED  BY <3>1, <3>2 DEF NewCredentials
  <2>6. ASSUME registering[r].answer = "HANDLE_TAKEN"
        PROVE  \E u \in users : u.handle = registering[r].handle /\ u.id # r
    <3>1. PICK s \in Request : s # r /\ NewUser(s) \in users /\ registering[s].handle = registering[r].handle
      BY <2>6 DEF AccountsInv, RefusalsAreTrue
    <3>. QED  BY <3>1 DEF NewUser
  <2>7. registering[r].answer = "UNDER_MINIMUM_AGE" => age < 13
    BY <2>4 DEF AccountsInv, RefusalsAreTrue
  <2>8. ASSUME registering[r].answer = "CREATED"
        PROVE  /\ NewCredentials(r) \in credentials
               /\ \E u \in users : /\ u.id = r /\ u.handle = registering[r].handle
                                   /\ age >= 13 /\ u.discoverable = (age >= 16)
    <3>1. NewUser(r) \in users /\ NewCredentials(r) \in credentials /\ age >= 13
      BY <2>3, <2>4, <2>8 DEF AccountsInv, RowsAreOfRequests
    <3>2. /\ NewUser(r).id = r /\ NewUser(r).handle = registering[r].handle
          /\ NewUser(r).discoverable = Discoverable(DeriveAgeBand(born[r]))
      BY DEF NewUser
    <3>3. Discoverable(DeriveAgeBand(born[r])) \in BOOLEAN /\ (age >= 16) \in BOOLEAN
      BY DEF Discoverable
    <3>4. Discoverable(DeriveAgeBand(born[r])) = (age >= 16)
      BY <2>4, <3>1, <3>3
    <3>. QED  BY <3>1, <3>2, <3>4
  <2>. QED  BY <2>5, <2>6, <2>7, <2>8 DEF age
<1>. QED  BY <1>1, AdmissionInvariant, PTL

\* A ticket lets in one upgrade at most, of its own user, who has an account, and
\* within its lifetime: whatever is duplicated, delayed or forgotten.
THEOREM TicketAdmitsOneOnly == AdmissionSpec => []TicketAdmitsOne
<1>1. IInv => TicketAdmitsOne
  <2>. SUFFICES ASSUME AccountsInv, TicketsInv PROVE TicketAdmitsOne
    BY DEF IInv
  <2>1. ASSUME NEW u \in Upgrade, Admitted(u)
        PROVE  \E e \in minted : /\ e.ticket = upgrades[u].ticket /\ e.user = upgrades[u].user
                                 /\ upgrades[u].now <= e.expiresAt
                                 /\ \E c \in credentials : c.user = e.user
    <3>1. PICK e \in minted :
            e.ticket = upgrades[u].ticket /\ e.user = upgrades[u].user /\ upgrades[u].now <= e.expiresAt
      BY <2>1 DEF TicketsInv, TicketsAreSpent
    <3>2. e.user \in Request /\ LoggedIn(e.user)
      BY DEF TicketsInv, TicketsTyped, TicketsAreSpent, Entry
    <3>3. NewCredentials(e.user) \in credentials
      BY <3>2 DEF AccountsInv, RowsAreOfRequests, LoggedIn
    <3>4. NewCredentials(e.user).user = e.user
      BY DEF NewCredentials
    <3>. QED  BY <3>1, <3>3, <3>4
  <2>2. ASSUME NEW u \in Upgrade, Admitted(u), NEW v \in Upgrade, Admitted(v),
               upgrades[u].ticket = upgrades[v].ticket
        PROVE  u = v
    BY <2>2 DEF TicketsInv, TicketsAreSpent
  <2>. QED  BY <2>1, <2>2 DEF TicketAdmitsOne, Admitted
<1>. QED  BY <1>1, AdmissionInvariant, PTL
=============================================================================
