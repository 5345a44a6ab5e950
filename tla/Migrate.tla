------------------------------ MODULE Migrate ------------------------------
(***************************************************************************)
(* The migration runner (platform/db/migrate.go, cmd/migrate): processes,  *)
(* perhaps of different builds, that bring one database up or one version  *)
(* down, are interrupted anywhere, and start again.                        *)
(*                                                                         *)
(* A migration is its version and its checksum; what its SQL creates is    *)
(* its version, which it can create only where that is not there yet and   *)
(* where the versions are that it refers to.                               *)
(***************************************************************************)
EXTENDS Naturals, FiniteSets, FiniteSetsExt

CONSTANTS
  Runner,    \* processes
  Build,     \* what a process may be built from: sets of migration files
  Needs,     \* per version, the versions its objects refer to
  MaxRuns    \* bound: commands started

File == UNION Build

ASSUME MigrateAssumption ==
  /\ IsFiniteSet(File)
  /\ \A f \in File : f.version \in Nat \ {0} /\ f.reversible \in BOOLEAN
  /\ \A f \in File : Needs[f.version] \subseteq 1..f.version - 1
  /\ MaxRuns \in Nat

VARIABLES
  bookkeeping,  \* whether schema_migrations exists
  recorded,     \* its rows: the files that were applied
  schema,       \* versions whose objects exist
  lock,         \* holders of the advisory lock: at most one
  orphans,      \* transactions whose COMMIT is under way and whose process is gone
  proc,         \* the local variables of each process
  runs,         \* commands started so far
  mishaps       \* history: what the lock does not guard against has happened

migrateVars == <<bookkeeping, recorded, schema, lock, orphans, proc, runs, mishaps>>

Versions(files) == { f.version : f \in files }

NotRunning == [pc |-> "idle", command |-> "none", files |-> {}, applied |-> {}, tx |-> {}]

MigrateInit ==
  /\ bookkeeping = FALSE /\ recorded = {} /\ schema = {}
  /\ lock = {} /\ orphans = {}
  /\ proc = [p \in Runner |-> NotRunning]
  /\ runs = 0 /\ mishaps = {}

Active(command) == { p \in Runner : proc[p].pc # "idle" /\ proc[p].command = command }
Goes(p, pc) == proc' = [proc EXCEPT ![p].pc = pc]
Returns(p) == proc' = [proc EXCEPT ![p] = NotRunning]

\* Mutant: a missing number goes unnoticed.
Loads_WithGaps(files) == files # {} /\ \A f \in files : f.reversible

\* LoadMigrations: files are numbered from 1 without a gap, each with its down.
Loads(files) ==
  /\ files # {}
  /\ \A f \in files : f.reversible
  /\ Versions(files) = 1..Cardinality(files)

FirstStep == [up |-> "lock", down |-> "applied", status |-> "ensure"]

\* A rollback takes no lock: it may run beside anything.
DownOverlaps(command) ==
  \/ command = "down" /\ (Active("up") \cup Active("down") # {} \/ orphans # {})
  \/ command = "up" /\ (Active("down") # {} \/ \E tx \in orphans : tx.kind = "down")

\* A build that does not load ends the command here.
Begin(p, command, files) ==
  /\ proc[p].pc = "idle" /\ runs < MaxRuns
  /\ Loads(files)
  /\ proc' = [proc EXCEPT ![p] = [NotRunning EXCEPT
       !.pc = FirstStep[command], !.command = command, !.files = files]]
  /\ runs' = runs + 1
  /\ mishaps' = IF DownOverlaps(command) THEN mishaps \cup {"down overlaps"} ELSE mishaps
  /\ UNCHANGED <<bookkeeping, recorded, schema, lock, orphans>>

\* Mutant: the lock is not asked for.
AcquireLock_Not(p) ==
  /\ proc[p].pc = "lock"
  /\ Goes(p, "ensure")
  /\ UNCHANGED <<bookkeeping, recorded, schema, lock, orphans, runs, mishaps>>

\* pg_advisory_lock waits; the lock belongs to this connection's session, while
\* everything below runs on other connections of the pool.
AcquireLock(p) ==
  /\ proc[p].pc = "lock" /\ lock = {}
  /\ lock' = {p}
  /\ Goes(p, "ensure")
  /\ UNCHANGED <<bookkeeping, recorded, schema, orphans, runs, mishaps>>

EnsureMigrationTable(p) ==
  /\ proc[p].pc = "ensure"
  /\ bookkeeping' = TRUE
  /\ Goes(p, "applied")
  /\ UNCHANGED <<recorded, schema, lock, orphans, runs, mishaps>>

\* VerifyChecksums: an applied file that has changed is refused.
Unchanged(files, applied) ==
  \A f \in files, a \in applied : f.version = a.version => f.checksum = a.checksum

\* What a rollback needs to find: a latest version, whose file it has.
HasLatest(files) ==
  bookkeeping /\ recorded # {} /\ Max(Versions(recorded)) \in Versions(files)

\* Applied is read once; status only prints it.
ReadApplied(p) ==
  /\ proc[p].pc = "applied"
  /\ LET command == proc[p].command
         files == proc[p].files
         goesOn == \/ command = "up" /\ Unchanged(files, recorded)
                   \/ command = "down" /\ HasLatest(files)
     IN
       \/ goesOn /\ proc' = [proc EXCEPT ![p].pc = "next", ![p].applied = recorded]
       \/ ~goesOn /\ command = "up" /\ Goes(p, "unlock")
       \/ ~goesOn /\ command # "up" /\ Returns(p)
  /\ UNCHANGED <<bookkeeping, recorded, schema, lock, orphans, runs, mishaps>>

-----------------------------------------------------------------------------
(* One transaction: the SQL of the file and its row in schema_migrations.  *)

Open == orphans \cup (UNION { proc[p].tx : p \in Runner })

\* DDL waits for the open transactions that touch the same objects.
Waits(version) ==
  \E tx \in Open :
    LET v == tx.file.version IN
      v = version \/ v \in Needs[version] \/ version \in Needs[v]

Created(version) == version \in schema \/ version \in Versions(recorded)

\* The lowest version that was not applied when the run began.
Pending(p) == { f \in proc[p].files : f.version \notin Versions(proc[p].applied) }
NextUp(p) == CHOOSE f \in Pending(p) : f.version = Min(Versions(Pending(p)))

ApplyNext(p) ==
  /\ proc[p].pc = "next" /\ proc[p].command = "up" /\ Pending(p) # {}
  /\ LET f == NextUp(p) IN
       /\ ~Waits(f.version)
       /\ \/ /\ ~Created(f.version) /\ Needs[f.version] \subseteq schema
             /\ proc' = [proc EXCEPT ![p].pc = "commit", ![p].tx = {[kind |-> "up", file |-> f]}]
             /\ UNCHANGED mishaps
          \/ /\ Created(f.version) \/ ~(Needs[f.version] \subseteq schema)
             /\ Goes(p, "unlock")
             /\ mishaps' = mishaps \cup {"collided"}
  /\ UNCHANGED <<bookkeeping, recorded, schema, lock, orphans, runs>>

NothingPending(p) ==
  /\ proc[p].pc = "next" /\ proc[p].command = "up" /\ Pending(p) = {}
  /\ Goes(p, "unlock")
  /\ UNCHANGED <<bookkeeping, recorded, schema, lock, orphans, runs, mishaps>>

\* The file of the highest version that was applied when it was read. DROP ...
\* IF EXISTS does not mind that another rollback was first; objects that others
\* refer to cannot be dropped.
RollBack(p) ==
  /\ proc[p].pc = "next" /\ proc[p].command = "down"
  /\ LET v == Max(Versions(proc[p].applied)) IN
       /\ ~Waits(v)
       /\ \/ /\ \A w \in schema : v \notin Needs[w]
             /\ \E f \in proc[p].files : f.version = v /\
                  proc' = [proc EXCEPT ![p].pc = "commit", ![p].tx = {[kind |-> "down", file |-> f]}]
          \/ (\E w \in schema : v \in Needs[w]) /\ Returns(p)
  /\ UNCHANGED <<bookkeeping, recorded, schema, lock, orphans, runs, mishaps>>

Lands(tx) ==
  IF tx.kind = "up"
  THEN schema' = schema \cup {tx.file.version} /\ recorded' = recorded \cup {tx.file}
  ELSE /\ schema' = schema \ {tx.file.version}
       /\ recorded' = { f \in recorded : f.version # tx.file.version }

Commit(p) ==
  /\ proc[p].pc = "commit"
  /\ \E tx \in proc[p].tx :
       /\ Lands(tx)
       /\ IF tx.kind = "down" THEN Returns(p)
          ELSE proc' = [proc EXCEPT ![p].pc = "next", ![p].tx = {},
                                    ![p].applied = @ \cup {tx.file}]
  /\ UNCHANGED <<bookkeeping, lock, orphans, runs, mishaps>>

Unlock(p) ==
  /\ proc[p].pc = "unlock"
  /\ lock' = lock \ {p}
  /\ Returns(p)
  /\ UNCHANGED <<bookkeeping, recorded, schema, orphans, runs, mishaps>>

-----------------------------------------------------------------------------
(* Interruptions: an error, the deadline, a signal, the end of the process.*)

\* A transaction is rolled back, unless its COMMIT was on its way.
Abandons(p) ==
  \/ UNCHANGED <<orphans, mishaps>>
  \/ /\ proc[p].pc = "commit"
     /\ orphans' = orphans \cup proc[p].tx
     /\ mishaps' = mishaps \cup {"late commit"}

\* The command returns an error; the deferred unlock still runs.
Fails(p) ==
  /\ proc[p].pc \notin {"idle", "unlock"}
  /\ Abandons(p)
  /\ IF p \in lock THEN proc' = [proc EXCEPT ![p].pc = "unlock", ![p].tx = {}] ELSE Returns(p)
  /\ UNCHANGED <<bookkeeping, recorded, schema, lock, runs>>

\* Its session ends, and with it the lock.
Dies(p) ==
  /\ proc[p].pc # "idle"
  /\ Abandons(p)
  /\ lock' = lock \ {p}
  /\ Returns(p)
  /\ UNCHANGED <<bookkeeping, recorded, schema, runs>>

LateCommit ==
  \E tx \in orphans :
    /\ Lands(tx)
    /\ orphans' = orphans \ {tx}
    /\ UNCHANGED <<bookkeeping, lock, proc, runs, mishaps>>

MigrateNext ==
  \/ LateCommit
  \/ \E p \in Runner :
       \/ \E files \in Build : \E command \in DOMAIN FirstStep : Begin(p, command, files)
       \/ AcquireLock(p) \/ EnsureMigrationTable(p) \/ ReadApplied(p)
       \/ ApplyNext(p) \/ NothingPending(p) \/ RollBack(p) \/ Commit(p) \/ Unlock(p)
       \/ Fails(p) \/ Dies(p)

MigrateSpec == MigrateInit /\ [][MigrateNext]_migrateVars

-----------------------------------------------------------------------------
\* migrate.go ("migration versions must be contiguous from 1") and cmd/migrate
\* ("an interrupted run rolls back cleanly rather than half-applying"): after
\* every commit, error, signal and crash the database holds the objects of the
\* versions 1 to n, and records exactly those, each once.  Not so when rollbacks
\* run beside other commands: they take no lock.
AppliedIsPrefix ==
  "down overlaps" \notin mishaps =>
    /\ \E n \in 0..Cardinality(Versions(File)) : Versions(recorded) = 1..n
    /\ schema = Versions(recorded)
    /\ \A f, g \in recorded : f.version = g.version => f = g

\* migrate.go ("two API instances booting simultaneously must not both try to
\* apply migration 0004; the second blocks here and then finds nothing to do")
\* and VerifyChecksums: while a run applies its files nothing appears that it has
\* not read, so it neither meets its own objects nor builds on an edited file.
StartersDoNotRace ==
  mishaps \cap {"down overlaps", "late commit"} = {} =>
    /\ "collided" \notin mishaps
    /\ \A p \in Active("up") :
         proc[p].pc \in {"next", "commit"} => Unchanged(proc[p].files, recorded)
=============================================================================
