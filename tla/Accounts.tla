------------------------------ MODULE Accounts ------------------------------
(***************************************************************************)
(* Registration (identity/service.go, Register): two names are looked up,  *)
(* then inserted together, then a session is started, while other requests *)
(* do the same. `repository` is Postgres or the store of the unit tests.   *)
(* Login and what follows a session are in Sessions.                       *)
(***************************************************************************)
EXTENDS Integers, FiniteSets

CONSTANTS
  Request,  \* registrations, each with a fresh user id: a retry is another one
  Email, Handle,
  Birth,    \* dates of birth: year, month, day
  Today,
  Nothing

Date == [year : Nat, month : 1..12, day : 1..31]
Answer == {"VALIDATION", "PASSWORD", "UNAVAILABLE", "UNDER_MINIMUM_AGE",
           "EMAIL_TAKEN", "HANDLE_TAKEN", "INTERNAL", "CREATED"}

ASSUME AccountsAssumption == Today \in Date /\ Birth \subseteq Date /\ Nothing \notin Answer

VARIABLES
  repository,
  born,         \* who registers
  users,        \* rows: id, handle, age band, whether others find the user
  credentials,  \* rows: user, email
  registering   \* the local variables of each registration, and its answer

accountVars == <<repository, born, users, credentials, registering>>

Idle == [pc |-> "idle", email |-> Nothing, handle |-> Nothing, answer |-> Nothing]

AccountsInit ==
  /\ repository \in {"postgres", "double"}
  /\ born \in [Request -> Birth]
  /\ users = {} /\ credentials = {}
  /\ registering = [r \in Request |-> Idle]

At(r, pc) == registering[r].pc = pc
GoesTo(r, pc) == registering' = [registering EXCEPT ![r].pc = pc]
\* registrationProblem, or 201.
Answers(r, answer) ==
  registering' = [registering EXCEPT ![r].pc = "done", ![r].answer = answer]

HasEmail(email) == \E c \in credentials : c.email = email
HasHandle(handle) == \E u \in users : u.handle = handle

\* An address or a handle that cannot be normalised, a password the policy
\* refuses, or cannot check for want of its list.
Unfit == {"VALIDATION", "PASSWORD", "UNAVAILABLE"}

EarlierInYear(a, b) == a.month < b.month \/ (a.month = b.month /\ a.day < b.day)

\* Mutant: the birthday is not looked at.
completedYears_ByYear(dob) ==
  LET years == Today.year - dob.year IN IF years < 0 THEN 0 ELSE years

completedYears(dob) ==
  LET years == Today.year - dob.year - (IF EarlierInYear(Today, dob) THEN 1 ELSE 0)
  IN IF years < 0 THEN 0 ELSE years

DeriveAgeBand(dob) ==
  LET years == completedYears(dob) IN
    CASE years < 13 -> "under_13" [] years \in 13..15 -> "teen_13_15"
      [] years \in 16..17 -> "teen_16_17" [] OTHER -> "adult"

Discoverable(band) == band \notin {"under_13", "teen_13_15"}

Register(r) ==
  /\ At(r, "idle")
  /\ \/ /\ \E email \in Email, handle \in Handle :
             registering' = [registering EXCEPT ![r] =
               [Idle EXCEPT !.pc = "email", !.email = email, !.handle = handle]]
        /\ DeriveAgeBand(born[r]) # "under_13"
     \/ \E answer \in Unfit : Answers(r, answer)
     \/ DeriveAgeBand(born[r]) = "under_13" /\ Answers(r, "UNDER_MINIMUM_AGE")
  /\ UNCHANGED <<repository, born, users, credentials>>

EmailTaken(r) ==
  /\ At(r, "email")
  /\ IF HasEmail(registering[r].email) THEN Answers(r, "EMAIL_TAKEN") ELSE GoesTo(r, "handle")
  /\ UNCHANGED <<repository, born, users, credentials>>

HandleTaken(r) ==
  /\ At(r, "handle")
  /\ IF HasHandle(registering[r].handle) THEN Answers(r, "HANDLE_TAKEN") ELSE GoesTo(r, "insert")
  /\ UNCHANGED <<repository, born, users, credentials>>

NewUser(r) ==
  LET band == DeriveAgeBand(born[r]) IN
    [id |-> r, handle |-> registering[r].handle, band |-> band, discoverable |-> Discoverable(band)]
NewCredentials(r) == [user |-> r, email |-> registering[r].email]

Inserts(r) ==
  /\ users' = users \cup {NewUser(r)}
  /\ credentials' = credentials \cup {NewCredentials(r)}
  /\ GoesTo(r, "session")

\* Mutant: two statements without a transaction.
CreateUser_InTwoStatements(r) ==
  /\ At(r, "insert") /\ repository = "postgres"
  /\ \/ HasHandle(registering[r].handle) /\ Answers(r, "HANDLE_TAKEN")
        /\ UNCHANGED <<users, credentials>>
     \/ ~HasHandle(registering[r].handle) /\ HasEmail(registering[r].email)
        /\ Answers(r, "EMAIL_TAKEN")
        /\ users' = users \cup {NewUser(r)} /\ UNCHANGED credentials
     \/ ~HasHandle(registering[r].handle) /\ ~HasEmail(registering[r].email) /\ Inserts(r)
  /\ UNCHANGED <<repository, born>>

\* Mutant: every unique violation is taken for the handle's.
CreateUser_OneSentinel(r) ==
  /\ At(r, "insert") /\ repository = "postgres"
  /\ \/ /\ HasHandle(registering[r].handle) \/ HasEmail(registering[r].email)
        /\ Answers(r, "HANDLE_TAKEN")
        /\ UNCHANGED <<users, credentials>>
     \/ ~HasHandle(registering[r].handle) /\ ~HasEmail(registering[r].email) /\ Inserts(r)
  /\ UNCHANGED <<repository, born>>

\* One transaction. The unique indexes settle the races that the checks lose,
\* the handle's first; a violation rolls both rows back.
CreateUser(r) ==
  /\ At(r, "insert") /\ repository = "postgres"
  /\ \/ HasHandle(registering[r].handle) /\ Answers(r, "HANDLE_TAKEN")
        /\ UNCHANGED <<users, credentials>>
     \/ ~HasHandle(registering[r].handle) /\ HasEmail(registering[r].email)
        /\ Answers(r, "EMAIL_TAKEN")
        /\ UNCHANGED <<users, credentials>>
     \/ ~HasHandle(registering[r].handle) /\ ~HasEmail(registering[r].email) /\ Inserts(r)
  /\ UNCHANGED <<repository, born>>

\* The double looks at the email first, so of two names that are both taken it
\* reports the other one.
dCreateUser(r) ==
  /\ At(r, "insert") /\ repository = "double"
  /\ \/ HasEmail(registering[r].email) /\ Answers(r, "EMAIL_TAKEN")
        /\ UNCHANGED <<users, credentials>>
     \/ ~HasEmail(registering[r].email) /\ HasHandle(registering[r].handle)
        /\ Answers(r, "HANDLE_TAKEN")
        /\ UNCHANGED <<users, credentials>>
     \/ ~HasEmail(registering[r].email) /\ ~HasHandle(registering[r].handle) /\ Inserts(r)
  /\ UNCHANGED <<repository, born>>

\* startSession, whose three writes Sessions details.
StartSession(r) ==
  /\ At(r, "session") /\ Answers(r, "CREATED")
  /\ UNCHANGED <<repository, born, users, credentials>>

\* A query fails or the request is cut short: at "session" the account exists
\* and nobody was told so.
RegistrationFails(r) ==
  /\ registering[r].pc \in {"email", "handle", "insert", "session"}
  /\ Answers(r, "INTERNAL")
  /\ UNCHANGED <<repository, born, users, credentials>>

AccountsNext ==
  \E r \in Request :
    \/ Register(r) \/ EmailTaken(r) \/ HandleTaken(r)
    \/ CreateUser(r) \/ dCreateUser(r)
    \/ StartSession(r) \/ RegistrationFails(r)

-----------------------------------------------------------------------------
\* CreateUser ("in one transaction"; "only the database can settle it"): an
\* email and a handle name one account each, and no handle is spent on an
\* account without credentials, whose owner could neither log in nor register.
AccountsAreWhole ==
  /\ \A u, v \in users : u.handle = v.handle => u = v
  /\ \A c, d \in credentials : c.email = d.email \/ c.user = d.user => c = d
  /\ { u.id : u \in users } = { c.user : c \in credentials }

\* postgres.go ("would tell a user whose EMAIL collided to change the wrong
\* thing") and FR-2: the name that a refusal blames is another account's, who is
\* refused as a child has not had a thirteenth birthday, and who was told of an
\* account has one under both names that is found by others from the sixteenth
\* birthday on.
AnswersAreTrue ==
  \A r \in Request :
    LET me == registering[r]
        birthdays == { y \in born[r].year + 1 .. Today.year :
                         y < Today.year \/ ~EarlierInYear(Today, born[r]) }
        age == Cardinality(birthdays)
    IN
      /\ me.answer = "EMAIL_TAKEN" =>
           \E c \in credentials : c.email = me.email /\ c.user # r
      /\ me.answer = "HANDLE_TAKEN" =>
           \E u \in users : u.handle = me.handle /\ u.id # r
      /\ me.answer = "UNDER_MINIMUM_AGE" => age < 13
      /\ me.answer = "CREATED" =>
           /\ NewCredentials(r) \in credentials
           /\ \E u \in users :
                /\ u.id = r /\ u.handle = me.handle
                /\ age >= 13 /\ u.discoverable = (age >= 16)
=============================================================================
