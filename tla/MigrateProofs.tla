---------------------------- MODULE MigrateProofs ----------------------------
(***************************************************************************)
(* Theorems about Migrate, for every number of processes, builds, versions *)
(* and commands.                                                           *)
(***************************************************************************)
EXTENDS Migrate, FiniteSetTheorems, WellFoundedInduction, TLAPS

USE MigrateAssumption

-----------------------------------------------------------------------------
(* The inductive invariant, in three layers.                               *)

Tx == [kind : {"up", "down"}, file : File]
Steps == {"idle", "lock", "ensure", "applied", "next", "commit", "unlock"}
Process == [pc : Steps, command : {"none", "up", "down", "status"},
            files : Build \cup {{}}, applied : SUBSET File, tx : SUBSET Tx]

Typed ==
  /\ recorded \subseteq File
  /\ schema \subseteq Nat
  /\ lock \subseteq Runner
  /\ orphans \subseteq Tx
  /\ proc \in [Runner -> Process]
  /\ runs \in Nat

\* Where a command may be, and what transaction it then has.
WellFormed(p) ==
  /\ proc[p].pc = "idle" <=> proc[p].command = "none"
  /\ proc[p].pc # "idle" => proc[p].files \in Build /\ Loads(proc[p].files)
  /\ proc[p].command = "down" => proc[p].pc \in {"applied", "next", "commit"}
  /\ proc[p].command = "status" => proc[p].pc \in {"ensure", "applied"}
  /\ proc[p].pc # "commit" => proc[p].tx = {}
  /\ proc[p].pc = "commit" =>
       \E f \in proc[p].files : proc[p].tx = {[kind |-> proc[p].command, file |-> f]}

\* The lock is held through a whole run, by one process.
LockHeld ==
  /\ \A p \in Runner :
       p \in lock <=> proc[p].command = "up" /\ proc[p].pc # "lock"
  /\ \A p, q \in lock : p = q

Shape == Typed /\ (\A p \in Runner : WellFormed(p)) /\ LockHeld

\* Rollbacks run alone, as long as nobody starts anything beside one.
Writes(p) == proc[p].command \in {"up", "down"}
Alone(p) == orphans = {} /\ \A q \in Runner \ {p} : ~Writes(q)
DownAlone ==
  /\ \A p \in Runner : proc[p].command = "down" => Alone(p)
  /\ \A tx \in orphans : tx.kind = "down" => \A p \in Runner : ~Writes(p)

\* There is one transaction at a time: of a process, or left behind by one.
OneTransaction ==
  /\ \A p \in Runner : proc[p].tx # {} => orphans = {} /\ \A q \in Runner \ {p} : proc[q].tx = {}
  /\ \A s, t \in orphans : s = t

\* It adds the next version or removes the last.
TxFits ==
  \A tx \in Open :
    Versions(recorded) = 1..(IF tx.kind = "up" THEN tx.file.version - 1 ELSE tx.file.version)

\* The database.
IsPrefix(files) == \E n \in Nat : Versions(files) = 1..n
DatabaseWhole ==
  /\ IsPrefix(recorded)
  /\ schema = Versions(recorded)
  /\ \A f, g \in recorded : f.version = g.version => f = g

\* What a process has read is what is there, or an earlier prefix of it.
Reading(p) == proc[p].pc \in {"next", "commit"}
ReadFits(p) ==
  /\ proc[p].command = "up" /\ Reading(p) =>
       /\ IsPrefix(proc[p].applied)
       /\ Versions(proc[p].applied) \subseteq Versions(recorded)
       /\ proc[p].pc = "commit" => Versions(proc[p].applied) = Versions(recorded)
  /\ proc[p].command = "down" /\ Reading(p) => proc[p].applied = recorded /\ recorded # {}

Quiet ==
  /\ DownAlone
  /\ OneTransaction
  /\ TxFits
  /\ DatabaseWhole
  /\ \A p \in Runner : ReadFits(p)

\* And where no COMMIT lands late, nothing changes under a run.
Serial ==
  /\ orphans = {}
  /\ "collided" \notin mishaps
  /\ \A p \in Runner : proc[p].command = "up" /\ Reading(p) =>
       /\ proc[p].applied = recorded
       /\ Unchanged(proc[p].files, recorded)

IInv ==
  /\ Shape
  /\ "down overlaps" \notin mishaps => Quiet
  /\ mishaps \cap {"down overlaps", "late commit"} = {} => Serial

-----------------------------------------------------------------------------
(* Files and versions.                                                     *)

\* The files of a build are finitely many.
LEMMA BuildsAreFinite ==
  ASSUME NEW files \in Build
  PROVE  files \subseteq File /\ IsFiniteSet(files)
<1>1. files \subseteq File  BY DEF File
<1>2. QED  BY <1>1, FS_Subset

\* LoadMigrations leaves files numbered from 1, each number once.
LEMMA LoadedAreNumbered ==
  ASSUME NEW files \in Build, Loads(files)
  PROVE  IsPrefix(files) /\ \A f, g \in files : f.version = g.version => f = g
<1> DEFINE version == [f \in files |-> f.version]
<1>1. IsFiniteSet(files)  BY BuildsAreFinite
<1>2. Cardinality(files) \in Nat  BY <1>1, FS_CardinalityType
<1>3. Versions(files) = 1..Cardinality(files)  BY DEF Loads
<1>4. Cardinality(1..Cardinality(files)) = Cardinality(files)
  <2>1. 1 \in Int /\ Cardinality(files) \in Int  BY <1>2
  <2>2. Cardinality(1..Cardinality(files)) =
          IF 1 > Cardinality(files) THEN 0 ELSE Cardinality(files) - 1 + 1
    BY <2>1, FS_Interval
  <2>3. QED  BY <2>2, <1>2
<1>5. version \in Surjection(files, Versions(files))
  BY DEF Surjection, Versions
<1>6. version \in Injection(files, Versions(files))
  BY <1>1, <1>3, <1>4, <1>5, FS_SurjSameCardinalityImpliesInj
<1>7. \A f, g \in files : f.version = g.version => f = g
  BY <1>6 DEF Injection, IsInjective
<1>8. QED  BY <1>2, <1>3, <1>7 DEF IsPrefix

\* A set of numbers has a least one.
LEMMA LeastOne ==
  ASSUME NEW S, S \subseteq Nat, S # {}
  PROVE  Min(S) \in S /\ \A v \in S : Min(S) =< v
<1>1. \E x \in S : \A y \in S : <<y, x>> \notin OpToRel(<, Nat)
  BY WFMin, NatLessThanWellFounded, Zenon
<1>2. PICK x \in S : \A y \in S : ~ (y < x)
  BY <1>1, Zenon DEF OpToRel
<1>3. \A y \in S : x =< y  BY <1>2
<1>4. QED  BY <1>3 DEF Min

\* The next migration of a run is one of its files, and comes right after those
\* it has read.
LEMMA NextIsAFile ==
  ASSUME NEW p, Pending(p) # {}, proc[p].files \subseteq File
  PROVE  /\ NextUp(p) \in Pending(p)
         /\ NextUp(p).version = Min(Versions(Pending(p)))
         /\ \A f \in Pending(p) : NextUp(p).version =< f.version
<1>1. Versions(Pending(p)) \subseteq Nat /\ Versions(Pending(p)) # {}
  BY DEF Versions, Pending
<1>2. /\ Min(Versions(Pending(p))) \in Versions(Pending(p))
      /\ \A v \in Versions(Pending(p)) : Min(Versions(Pending(p))) =< v
  BY <1>1, LeastOne
<1>3. \E f \in Pending(p) : f.version = Min(Versions(Pending(p)))  BY <1>2 DEF Versions
<1>4. NextUp(p) \in Pending(p) /\ NextUp(p).version = Min(Versions(Pending(p)))
  BY <1>3 DEF NextUp
<1>5. QED  BY <1>2, <1>4 DEF Versions

LEMMA NextIsAfterRead ==
  ASSUME NEW p, Pending(p) # {}, proc[p].files \subseteq File,
         IsPrefix(proc[p].files), NEW m \in Nat, Versions(proc[p].applied) = 1..m
  PROVE  NextUp(p) \in proc[p].files /\ NextUp(p).version = m + 1
<1>1. PICK k \in Nat : Versions(proc[p].files) = 1..k  BY DEF IsPrefix
<1>2. Versions(Pending(p)) = (m + 1)..k
  <2>1. Versions(Pending(p)) =
          { v \in Versions(proc[p].files) : v \notin Versions(proc[p].applied) }
    BY DEF Pending, Versions
  <2>2. QED  BY <2>1, <1>1
<1>3. Versions(Pending(p)) # {}  BY DEF Versions
<1>4. m + 1 \in Versions(Pending(p))  BY <1>2, <1>3
<1>5. /\ NextUp(p) \in Pending(p)
      /\ \A f \in Pending(p) : NextUp(p).version =< f.version
  BY NextIsAFile
<1>6. NextUp(p).version \in (m + 1)..k  BY <1>2, <1>5 DEF Versions
<1>7. NextUp(p).version =< m + 1  BY <1>4, <1>5 DEF Versions
<1>8. QED  BY <1>5, <1>6, <1>7 DEF Pending

LEMMA MaxOfPrefix ==
  ASSUME NEW n \in Nat \ {0}
  PROVE  Max(1..n) = n
<1>1. n \in 1..n /\ \A v \in 1..n : n >= v  OBVIOUS
<1>2. \A x \in 1..n : (\A v \in 1..n : x >= v) => x = n  OBVIOUS
<1>3. QED  BY <1>1, <1>2 DEF Max

-----------------------------------------------------------------------------
(* The shape of a process, and the lock.                                   *)

LEMMA FirstSteps ==
  ASSUME NEW command \in {"up", "down", "status"}
  PROVE  FirstStep[command] =
           (IF command = "up" THEN "lock" ELSE IF command = "down" THEN "applied" ELSE "ensure")
BY DEF FirstStep

LEMMA ShapeInit == MigrateInit => Shape
<1> SUFFICES ASSUME MigrateInit PROVE Shape  OBVIOUS
<1> USE DEF MigrateInit, NotRunning
<1>1. Typed  BY DEF Typed, Process, Steps, Tx
<1>2. ASSUME NEW p \in Runner PROVE WellFormed(p)  BY DEF WellFormed
<1>3. LockHeld  BY DEF LockHeld
<1>4. QED  BY <1>1, <1>2, <1>3 DEF Shape

\* An open transaction is of a file of the build, and writes.
LEMMA OpenTransaction ==
  ASSUME Shape, NEW p \in Runner
  PROVE  /\ proc[p].tx \subseteq Tx
         /\ \A s, t \in proc[p].tx : s = t
         /\ \A t \in proc[p].tx : t.kind = proc[p].command /\ t.file \in proc[p].files
         /\ proc[p].tx # {} => proc[p].pc = "commit" /\ Writes(p)
<1>1. proc[p] \in Process  BY DEF Shape, Typed
<1>2. proc[p].tx \subseteq Tx  BY <1>1 DEF Process
<1>3. WellFormed(p)  BY DEF Shape
<1>4. \A s, t \in proc[p].tx : s = t  BY <1>3 DEF WellFormed
<1>5. \A t \in proc[p].tx : t.kind = proc[p].command /\ t.file \in proc[p].files
  BY <1>3 DEF WellFormed
<1>6. proc[p].tx # {} => proc[p].pc = "commit" /\ Writes(p)
  BY <1>2, <1>3, <1>5 DEF WellFormed, Writes, Tx
<1>7. QED  BY <1>2, <1>4, <1>5, <1>6

\* What a transaction leaves has the types of the database.
LEMMA LandsTyped ==
  ASSUME Typed, NEW tx \in Tx, Lands(tx)
  PROVE  recorded' \subseteq File /\ schema' \subseteq Nat
<1>1. tx.file \in File /\ tx.file.version \in Nat  BY DEF Tx
<1>2. QED  BY <1>1 DEF Typed, Lands

\* Shape is kept by a step that changes one process, if its new state is well
\* formed and it holds the lock when it should.
LEMMA ShapeMove ==
  ASSUME Shape, NEW p \in Runner, NEW r \in Process,
         proc' = [proc EXCEPT ![p] = r], WellFormed(p)',
         recorded' \subseteq File, schema' \subseteq Nat, orphans' \subseteq Tx,
         runs' \in Nat,
         \/ r.command = "up" /\ r.pc # "lock" /\ lock' = lock /\ p \in lock
         \/ r.command = "up" /\ r.pc # "lock" /\ lock = {} /\ lock' = {p}
         \/ ~(r.command = "up" /\ r.pc # "lock") /\ lock' = lock \ {p}
  PROVE  Shape'
<1>1. proc'[p] = r /\ \A q \in Runner \ {p} : proc'[q] = proc[q]
  BY DEF Shape, Typed
<1>2. Typed'  BY DEF Shape, Typed
<1>3. ASSUME NEW q \in Runner PROVE WellFormed(q)'
  <2>1. CASE q = p  BY <2>1
  <2>2. CASE q # p  BY <2>2, <1>1 DEF Shape, WellFormed
  <2>3. QED  BY <2>1, <2>2
<1>4. LockHeld'  BY <1>1 DEF Shape, LockHeld
<1>5. QED  BY <1>2, <1>3, <1>4 DEF Shape

LEMMA ShapeStep == Shape /\ [MigrateNext]_migrateVars => Shape'
<1> SUFFICES ASSUME Shape, [MigrateNext]_migrateVars PROVE Shape'  OBVIOUS
<1>1. CASE UNCHANGED migrateVars
  BY <1>1 DEF migrateVars, Shape, Typed, WellFormed, LockHeld
<1>2. CASE LateCommit
  <2> PICK tx \in orphans : /\ Lands(tx)
                            /\ orphans' = orphans \ {tx}
                            /\ UNCHANGED <<bookkeeping, lock, proc, runs, mishaps>>
    BY <1>2 DEF LateCommit
  <2>1. Typed /\ tx \in Tx  BY DEF Shape, Typed
  <2>2. recorded' \subseteq File /\ schema' \subseteq Nat  BY <2>1, LandsTyped
  <2>3. QED  BY <2>1, <2>2 DEF Shape, Typed, WellFormed, LockHeld
<1>3. ASSUME NEW p \in Runner
      PROVE  /\ WellFormed(p) /\ Typed /\ proc[p] \in Process
             /\ p \in lock <=> proc[p].command = "up" /\ proc[p].pc # "lock"
             /\ proc[p].pc = "idle" <=> proc[p].command = "none"
  BY DEF Shape, Typed, LockHeld, WellFormed
<1>4. NotRunning \in Process  BY DEF NotRunning, Process, Steps
<1>5. ASSUME NEW p \in Runner, Returns(p), lock' = lock \ {p}, UNCHANGED <<recorded, schema, runs>>,
             orphans' \subseteq Tx
      PROVE  Shape'
  <2>1. proc'[p] = NotRunning  BY <1>5, <1>3 DEF Returns, Typed
  <2>2. WellFormed(p)'  BY <2>1 DEF WellFormed, NotRunning
  <2>3. proc' = [proc EXCEPT ![p] = NotRunning]  BY <1>5 DEF Returns
  <2>4. recorded' \subseteq File /\ schema' \subseteq Nat /\ runs' \in Nat
    BY <1>3, <1>5 DEF Typed
  <2>5. ~(NotRunning.command = "up" /\ NotRunning.pc # "lock")  BY DEF NotRunning
  <2> HIDE DEF NotRunning
  <2>6. QED  BY <2>2, <2>3, <2>4, <2>5, <1>4, <1>5, ShapeMove
\* A step that keeps the lock and stays within a run.
<1>6. ASSUME NEW p \in Runner, NEW r \in Process, proc' = [proc EXCEPT ![p] = r],
             r.command = proc[p].command, r.pc # "lock", proc[p].pc # "lock",
             WellFormed(p)', lock' = lock, runs' = runs,
             recorded' \subseteq File, schema' \subseteq Nat, orphans' \subseteq Tx
      PROVE  Shape'
  <2>1. runs' \in Nat  BY <1>3, <1>6 DEF Typed
  <2>2. CASE r.command = "up"
    BY <2>1, <2>2, <1>3, <1>6, ShapeMove
  <2>3. CASE r.command # "up"
    <3>1. lock' = lock \ {p}  BY <2>3, <1>3, <1>6
    <3>2. QED  BY <2>1, <2>3, <3>1, <1>6, ShapeMove
  <2>4. QED  BY <2>2, <2>3
<1>7. ASSUME NEW p \in Runner, NEW pc \in Steps \ {"idle", "lock"}, Goes(p, pc),
             WellFormed(p)', proc[p].pc # "lock",
             UNCHANGED <<recorded, schema, orphans, lock, runs>>
      PROVE  Shape'
  <2> DEFINE r == [proc[p] EXCEPT !.pc = pc]
  <2>1. r \in Process  BY <1>3 DEF Process
  <2>2. proc' = [proc EXCEPT ![p] = r]  BY <1>7, <1>3 DEF Goes, Typed
  <2>3. r.command = proc[p].command /\ r.pc = pc  BY <1>3 DEF Process
  <2>4. recorded' \subseteq File /\ schema' \subseteq Nat /\ orphans' \subseteq Tx
    BY <1>3, <1>7 DEF Typed
  <2> HIDE DEF r
  <2>5. QED  BY <2>1, <2>2, <2>3, <2>4, <1>6, <1>7
<1>8. ASSUME NEW p \in Runner, NEW files \in Build, NEW command \in DOMAIN FirstStep,
             Begin(p, command, files)
      PROVE  Shape'
  <2> DEFINE r == [NotRunning EXCEPT !.pc = FirstStep[command], !.command = command, !.files = files]
  <2>1. command \in {"up", "down", "status"}  BY DEF FirstStep
  <2>2. FirstStep[command] =
          (IF command = "up" THEN "lock" ELSE IF command = "down" THEN "applied" ELSE "ensure")
    BY <2>1, FirstSteps
  <2>3. NotRunning.tx = {}  BY DEF NotRunning
  <2> HIDE DEF NotRunning
  <2>4. r \in Process  BY <1>4, <2>1, <2>2 DEF Process, Steps
  <2>5. proc' = [proc EXCEPT ![p] = r]  BY <1>8 DEF Begin
  <2>6. r.pc = FirstStep[command] /\ r.command = command /\ r.files = files /\ r.tx = {}
    BY <1>4, <2>3 DEF Process
  <2>7. Loads(files) /\ proc[p].pc = "idle"  BY <1>8 DEF Begin
  <2>8. proc'[p] = r  BY <2>5, <1>3 DEF Typed
  <2> HIDE DEF r
  <2>9. WellFormed(p)'  BY <2>1, <2>2, <2>6, <2>7, <2>8 DEF WellFormed
  <2>10. lock' = lock \ {p}  BY <2>7, <1>3, <1>8 DEF Begin
  <2>11. UNCHANGED <<recorded, schema, orphans>> /\ runs' = runs + 1
    BY <1>8 DEF Begin
  <2>12. /\ recorded' \subseteq File /\ schema' \subseteq Nat /\ orphans' \subseteq Tx
         /\ runs' \in Nat
    BY <2>11, <1>3 DEF Typed
  <2>13. ~(r.command = "up" /\ r.pc # "lock")  BY <2>1, <2>2, <2>6
  <2>14. QED  BY <2>4, <2>5, <2>9, <2>10, <2>12, <2>13, ShapeMove
<1>9. ASSUME NEW p \in Runner, AcquireLock(p) PROVE Shape'
  <2> DEFINE r == [proc[p] EXCEPT !.pc = "ensure"]
  <2>1. r \in Process  BY <1>3 DEF Process, Steps
  <2>2. proc' = [proc EXCEPT ![p] = r]  BY <1>9, <1>3 DEF AcquireLock, Goes, Typed
  <2>3. r.pc = "ensure" /\ r.command = "up" /\ lock = {} /\ lock' = {p}
    BY <1>3, <1>9 DEF AcquireLock, Process, WellFormed
  <2>4. proc'[p] = r  BY <2>2, <1>3 DEF Typed
  <2>5. WellFormed(p)'  BY <2>4, <1>3, <1>9 DEF WellFormed, AcquireLock, Process
  <2>6. /\ recorded' \subseteq File /\ schema' \subseteq Nat /\ orphans' \subseteq Tx
        /\ runs' \in Nat
    BY <1>3, <1>9 DEF AcquireLock, Typed
  <2> HIDE DEF r
  <2>7. QED  BY <2>1, <2>2, <2>3, <2>5, <2>6, ShapeMove
<1>10. ASSUME NEW p \in Runner, NEW pc \in Steps, Goes(p, pc)
       PROVE  /\ proc'[p].pc = pc /\ proc'[p].command = proc[p].command
              /\ proc'[p].files = proc[p].files /\ proc'[p].tx = proc[p].tx
  BY <1>3, <1>10 DEF Goes, Typed, Process
<1>11. ASSUME NEW p \in Runner, EnsureMigrationTable(p) PROVE Shape'
  <2>1. Goes(p, "applied") /\ proc[p].pc = "ensure"  BY <1>11 DEF EnsureMigrationTable
  <2>2. WellFormed(p)'  BY <2>1, <1>3, <1>10 DEF WellFormed, Steps
  <2>3. QED  BY <2>1, <2>2, <1>7, <1>11 DEF EnsureMigrationTable, Steps
<1>12. ASSUME NEW p \in Runner, Goes(p, "unlock"), proc[p].pc \notin {"lock", "idle", "commit"},
              proc[p].command = "up", UNCHANGED <<recorded, schema, orphans, lock, runs>>
       PROVE  Shape'
  <2>1. WellFormed(p)'  BY <1>3, <1>10, <1>12 DEF WellFormed, Steps
  <2>2. QED  BY <2>1, <1>7, <1>12 DEF Steps
<1>13. ASSUME NEW p \in Runner, ReadApplied(p) PROVE Shape'
  <2>1. /\ proc[p].pc = "applied"
        /\ UNCHANGED <<recorded, schema, orphans, lock, runs>>
    BY <1>13 DEF ReadApplied
  <2>2. \/ /\ proc[p].command \in {"up", "down"}
           /\ proc' = [proc EXCEPT ![p].pc = "next", ![p].applied = recorded]
        \/ proc[p].command = "up" /\ Goes(p, "unlock")
        \/ proc[p].command # "up" /\ Returns(p)
    BY <1>13 DEF ReadApplied
  <2>3. CASE /\ proc[p].command \in {"up", "down"}
             /\ proc' = [proc EXCEPT ![p].pc = "next", ![p].applied = recorded]
    <3> DEFINE r == [proc[p] EXCEPT !.pc = "next", !.applied = recorded]
    <3>1. r \in Process  BY <1>3 DEF Process, Steps, Typed
    <3>2. proc' = [proc EXCEPT ![p] = r]  BY <2>3, <1>3 DEF Typed
    <3>3. r.pc = "next" /\ r.command = proc[p].command  BY <1>3 DEF Process
    <3>4. proc'[p] = r  BY <3>2, <1>3 DEF Typed
    <3>5. WellFormed(p)'  BY <3>4, <2>1, <2>3, <1>3 DEF WellFormed, Process
    <3>6. recorded' \subseteq File /\ schema' \subseteq Nat /\ orphans' \subseteq Tx
      BY <1>3, <2>1 DEF Typed
    <3> HIDE DEF r
    <3>7. QED  BY <3>1, <3>2, <3>3, <3>5, <3>6, <2>1, <1>6
  <2>4. CASE proc[p].command = "up" /\ Goes(p, "unlock")  BY <2>1, <2>4, <1>12
  <2>5. CASE proc[p].command # "up" /\ Returns(p)
    <3>1. lock' = lock \ {p} /\ orphans' \subseteq Tx  BY <2>1, <2>5, <1>3 DEF Typed
    <3>2. QED  BY <3>1, <2>1, <2>5, <1>5
  <2>6. QED  BY <2>2, <2>3, <2>4, <2>5
\* A transaction opens.
<1>14. ASSUME NEW p \in Runner, NEW f \in proc[p].files,
              proc[p].command \in {"up", "down"}, proc[p].pc = "next",
              proc' = [proc EXCEPT ![p].pc = "commit",
                                   ![p].tx = {[kind |-> proc[p].command, file |-> f]}],
              UNCHANGED <<recorded, schema, orphans, lock, runs>>
       PROVE  Shape'
  <2> DEFINE t == [kind |-> proc[p].command, file |-> f]
             r == [proc[p] EXCEPT !.pc = "commit", !.tx = {t}]
  <2>1. f \in File  BY <1>3, <1>14, BuildsAreFinite DEF WellFormed
  <2>2. t \in Tx  BY <2>1, <1>14 DEF Tx
  <2>3. r \in Process  BY <2>2, <1>3 DEF Process, Steps
  <2>4. proc' = [proc EXCEPT ![p] = r]  BY <1>3, <1>14 DEF Typed
  <2>5. /\ r.pc = "commit" /\ r.command = proc[p].command
        /\ r.tx = {t} /\ r.files = proc[p].files
    BY <1>3 DEF Process
  <2>6. proc'[p] = r  BY <2>4, <1>3 DEF Typed
  <2>7. recorded' \subseteq File /\ schema' \subseteq Nat /\ orphans' \subseteq Tx
    BY <1>3, <1>14 DEF Typed
  <2>8. t = [kind |-> r.command, file |-> f]  BY <2>5
  <2> HIDE DEF r, t
  <2>9. WellFormed(p)'  BY <2>5, <2>6, <2>8, <1>3, <1>14 DEF WellFormed
  <2>10. QED  BY <2>3, <2>4, <2>5, <2>7, <2>9, <1>6, <1>14
<1>15. ASSUME NEW p \in Runner, ApplyNext(p) PROVE Shape'
  <2>1. /\ proc[p].pc = "next" /\ proc[p].command = "up" /\ Pending(p) # {}
        /\ UNCHANGED <<recorded, schema, orphans, lock, runs>>
        /\ \/ proc' = [proc EXCEPT ![p].pc = "commit", ![p].tx = {[kind |-> "up", file |-> NextUp(p)]}]
           \/ Goes(p, "unlock")
    BY <1>15 DEF ApplyNext
  <2>2. CASE Goes(p, "unlock")  BY <2>1, <2>2, <1>12
  <2>3. CASE proc' = [proc EXCEPT ![p].pc = "commit", ![p].tx = {[kind |-> "up", file |-> NextUp(p)]}]
    <3>1. proc[p].files \subseteq File  BY <1>3, <2>1, BuildsAreFinite DEF WellFormed
    <3>2. NextUp(p) \in proc[p].files  BY <2>1, <3>1, NextIsAFile DEF Pending
    <3>3. QED  BY <2>1, <2>3, <3>2, <1>14
  <2>4. QED  BY <2>1, <2>2, <2>3
<1>16. ASSUME NEW p \in Runner, NothingPending(p) PROVE Shape'
  BY <1>12, <1>16 DEF NothingPending
<1>17. ASSUME NEW p \in Runner, RollBack(p) PROVE Shape'
  <2>1. /\ proc[p].pc = "next" /\ proc[p].command = "down"
        /\ UNCHANGED <<recorded, schema, orphans, lock, runs>>
        /\ \/ \E f \in proc[p].files :
               proc' = [proc EXCEPT ![p].pc = "commit", ![p].tx = {[kind |-> "down", file |-> f]}]
           \/ Returns(p)
    BY <1>17 DEF RollBack
  <2>2. CASE Returns(p)
    <3>1. lock' = lock \ {p} /\ orphans' \subseteq Tx  BY <2>1, <1>3 DEF Typed
    <3>2. QED  BY <3>1, <2>1, <2>2, <1>5
  <2>3. QED  BY <2>1, <2>2, <1>14
\* It ends.
<1>18. ASSUME NEW p \in Runner, Commit(p) PROVE Shape'
  <2>1. PICK tx \in proc[p].tx :
          /\ Lands(tx)
          /\ IF tx.kind = "down" THEN Returns(p)
             ELSE proc' = [proc EXCEPT ![p].pc = "next", ![p].tx = {},
                                       ![p].applied = @ \cup {tx.file}]
    BY <1>18 DEF Commit
  <2>2. /\ proc[p].pc = "commit"
        /\ UNCHANGED <<lock, orphans, runs>>
    BY <1>18 DEF Commit
  <2>3. tx \in Tx /\ tx.kind = proc[p].command  BY OpenTransaction
  <2>4. recorded' \subseteq File /\ schema' \subseteq Nat  BY <2>1, <2>3, <1>3, LandsTyped
  <2>5. orphans' \subseteq Tx /\ runs' \in Nat  BY <2>2, <1>3 DEF Typed
  <2>6. CASE tx.kind = "down"
    <3>1. proc' = [proc EXCEPT ![p] = NotRunning]  BY <2>1, <2>6 DEF Returns
    <3>2. proc'[p] = NotRunning  BY <3>1, <1>3 DEF Typed
    <3>3. WellFormed(p)'  BY <3>2 DEF WellFormed, NotRunning
    <3>4. NotRunning.command = "none"  BY DEF NotRunning
    <3>5. lock' = lock \ {p}  BY <2>2, <2>3, <2>6, <1>3
    <3> HIDE DEF NotRunning
    <3>6. QED  BY <1>4, <2>4, <2>5, <3>1, <3>3, <3>4, <3>5, ShapeMove
  <2>7. CASE tx.kind # "down"
    <3> DEFINE r == [proc[p] EXCEPT !.pc = "next", !.tx = {}, !.applied = @ \cup {tx.file}]
    <3>1. tx.kind = "up" /\ tx.file \in File  BY <2>3, <2>7 DEF Tx
    <3>2. r \in Process  BY <3>1, <1>3 DEF Process, Steps
    <3>3. proc' = [proc EXCEPT ![p] = r]  BY <2>1, <2>7, <1>3 DEF Typed, Process
    <3>4. /\ r.pc = "next" /\ r.command = "up" /\ r.command = proc[p].command
          /\ r.tx = {} /\ r.files = proc[p].files
      BY <2>3, <3>1, <1>3 DEF Process
    <3>5. proc'[p] = r  BY <3>3, <1>3 DEF Typed
    <3> HIDE DEF r
    <3>6. WellFormed(p)'  BY <2>2, <3>4, <3>5, <1>3 DEF WellFormed
    <3>7. QED  BY <2>2, <2>4, <2>5, <3>2, <3>3, <3>4, <3>6, <1>6
  <2>8. QED  BY <2>6, <2>7
<1>19. ASSUME NEW p \in Runner, Unlock(p) PROVE Shape'
  <2>1. orphans' \subseteq Tx  BY <1>3, <1>19 DEF Unlock, Typed
  <2>2. QED  BY <2>1, <1>5, <1>19 DEF Unlock
<1>20. ASSUME NEW p \in Runner, Abandons(p) PROVE orphans' \subseteq Tx
  BY <1>20, <1>3, OpenTransaction DEF Abandons, Typed
<1>21. ASSUME NEW p \in Runner, Fails(p) PROVE Shape'
  <2>1. /\ proc[p].pc \notin {"idle", "unlock"}
        /\ orphans' \subseteq Tx
        /\ UNCHANGED <<recorded, schema, lock, runs>>
    BY <1>20, <1>21 DEF Fails
  <2>2. CASE p \in lock
    <3> DEFINE r == [proc[p] EXCEPT !.pc = "unlock", !.tx = {}]
    <3>1. proc' = [proc EXCEPT ![p] = r]  BY <1>21, <2>2, <1>3 DEF Fails, Typed
    <3>2. r \in Process  BY <1>3 DEF Process, Steps
    <3>3. /\ r.pc = "unlock" /\ r.command = proc[p].command
          /\ r.tx = {} /\ r.files = proc[p].files
      BY <1>3 DEF Process
    <3>4. proc'[p] = r  BY <3>1, <1>3 DEF Typed
    <3>5. proc[p].command = "up" /\ proc[p].pc # "lock"  BY <2>2, <1>3
    <3>6. recorded' \subseteq File /\ schema' \subseteq Nat  BY <2>1, <1>3 DEF Typed
    <3> HIDE DEF r
    <3>7. WellFormed(p)'  BY <2>1, <3>3, <3>4, <3>5, <1>3 DEF WellFormed
    <3>8. QED  BY <2>1, <3>1, <3>2, <3>3, <3>5, <3>6, <3>7, <1>6
  <2>3. CASE p \notin lock
    <3>1. Returns(p) /\ lock' = lock \ {p}  BY <1>21, <2>1, <2>3 DEF Fails
    <3>2. QED  BY <3>1, <2>1, <1>5
  <2>4. QED  BY <2>2, <2>3
<1>22. ASSUME NEW p \in Runner, Dies(p) PROVE Shape'
  BY <1>5, <1>20, <1>22 DEF Dies
<1>23. QED
  BY <1>1, <1>2, <1>8, <1>9, <1>11, <1>13, <1>15, <1>16, <1>17, <1>18, <1>19, <1>21, <1>22
  DEF MigrateNext

-----------------------------------------------------------------------------
(* One transaction at a time, each of which fits the database.             *)

\* A transaction that fits leaves the database whole.
LEMMA LandsWhole ==
  ASSUME Typed, DatabaseWhole, NEW tx \in Tx, Lands(tx),
         Versions(recorded) = 1..(IF tx.kind = "up" THEN tx.file.version - 1 ELSE tx.file.version)
  PROVE  /\ DatabaseWhole'
         /\ tx.kind = "up" => /\ recorded' = recorded \cup {tx.file}
                              /\ Versions(recorded') = 1..tx.file.version
<1> DEFINE v == tx.file.version
<1>1. tx.file \in File /\ v \in Nat \ {0} /\ tx.kind \in {"up", "down"}  BY DEF Tx
<1>2. CASE tx.kind = "up"
  <2>1. recorded' = recorded \cup {tx.file} /\ schema' = schema \cup {v}
    BY <1>2 DEF Lands
  <2>2. Versions(recorded') = Versions(recorded) \cup {v}  BY <2>1 DEF Versions
  <2>3. Versions(recorded) = 1..v - 1  BY <1>2
  <2>4. Versions(recorded') = 1..v  BY <2>2, <2>3, <1>1
  <2>5. \A f \in recorded : f.version # v
    <3>1. \A f \in recorded : f.version \in 1..v - 1  BY <2>3 DEF Versions
    <3>2. QED  BY <3>1, <1>1
  <2>6. \A f, g \in recorded' : f.version = g.version => f = g
    BY <2>1, <2>5 DEF DatabaseWhole
  <2>7. schema' = Versions(recorded')  BY <2>1, <2>2 DEF DatabaseWhole
  <2>8. v \in Nat /\ IsPrefix(recorded')  BY <1>1, <2>4 DEF IsPrefix
  <2>9. DatabaseWhole'  BY <2>6, <2>7, <2>8 DEF DatabaseWhole, IsPrefix, Versions
  <2>10. QED  BY <2>1, <2>4, <2>9
<1>3. CASE tx.kind = "down"
  <2>1. recorded' = { f \in recorded : f.version # v } /\ schema' = schema \ {v}
    BY <1>3 DEF Lands
  <2>2. Versions(recorded') = Versions(recorded) \ {v}  BY <2>1 DEF Versions
  <2>3. Versions(recorded) = 1..v  BY <1>3
  <2>4. Versions(recorded') = 1..v - 1  BY <2>2, <2>3, <1>1
  <2>5. \A f, g \in recorded' : f.version = g.version => f = g
    BY <2>1 DEF DatabaseWhole
  <2>6. schema' = Versions(recorded')  BY <2>1, <2>2 DEF DatabaseWhole
  <2>7. v - 1 \in Nat  BY <1>1
  <2>8. DatabaseWhole'  BY <2>4, <2>5, <2>6, <2>7 DEF DatabaseWhole, IsPrefix, Versions
  <2>9. QED  BY <1>3, <2>8
<1>4. QED  BY <1>1, <1>2, <1>3

LEMMA QuietInit == MigrateInit => Quiet
<1> SUFFICES ASSUME MigrateInit PROVE Quiet  OBVIOUS
<1>1. \A p \in Runner : proc[p].pc = "idle" /\ proc[p].command = "none" /\ proc[p].tx = {}
  BY DEF MigrateInit, NotRunning
<1>2. recorded = {} /\ schema = {} /\ orphans = {}  BY DEF MigrateInit
<1>3. DownAlone  BY <1>1, <1>2 DEF DownAlone
<1>4. OneTransaction  BY <1>1, <1>2 DEF OneTransaction
<1>5. Open = {}  BY <1>1, <1>2 DEF Open
<1>6. TxFits  BY <1>5 DEF TxFits
<1>7. Versions(recorded) = 1..0  BY <1>2 DEF Versions
<1>8. DatabaseWhole  BY <1>2, <1>7 DEF DatabaseWhole, IsPrefix, Versions
<1>9. \A p \in Runner : ReadFits(p)  BY <1>1 DEF ReadFits
<1>10. QED  BY <1>3, <1>4, <1>6, <1>8, <1>9 DEF Quiet

\* A step in which a process gives up, or gets no further than before it reads:
\* it has no transaction afterwards, or leaves the one it had to Postgres.
LEMMA QuietRecede ==
  ASSUME Shape, Quiet, NEW p \in Runner, \A q \in Runner \ {p} : proc'[q] = proc[q],
         proc'[p].command \in {proc[p].command, "none"},
         proc'[p].tx = {}, proc'[p].pc \notin {"next", "commit"},
         UNCHANGED <<recorded, schema>>,
         \/ orphans' = orphans
         \/ /\ orphans' = orphans \cup proc[p].tx
            /\ proc[p].command = "down" => proc'[p].command = "none"
  PROVE  Quiet'
<1>1. /\ \A s, t \in proc[p].tx : s = t
      /\ \A t \in proc[p].tx : t.kind = proc[p].command
      /\ proc[p].tx # {} => Writes(p)
  BY OpenTransaction
<1>2. DownAlone'
  <2>1. ASSUME NEW q \in Runner, proc'[q].command = "down" PROVE Alone(q)'
    <3>1. CASE q = p
      <4>1. proc[p].command = "down" /\ orphans' = orphans  BY <2>1, <3>1
      <4>2. QED  BY <3>1, <4>1 DEF Quiet, DownAlone, Alone, Writes
    <3>2. CASE q # p
      <4>1. Alone(q)  BY <2>1, <3>2 DEF Quiet, DownAlone
      <4>2. ~Writes(p)  BY <3>2, <4>1 DEF Alone
      <4>3. orphans' = orphans  BY <1>1, <4>2
      <4>4. QED  BY <3>2, <4>1, <4>2, <4>3 DEF Alone, Writes
    <3>3. QED  BY <3>1, <3>2
  <2>2. ASSUME NEW t \in orphans', t.kind = "down", NEW q \in Runner PROVE ~Writes(q)'
    <3>1. CASE t \in orphans
      <4>1. \A o \in Runner : ~Writes(o)  BY <2>2, <3>1 DEF Quiet, DownAlone
      <4>2. QED  BY <4>1 DEF Writes
    <3>2. CASE t \notin orphans
      <4>1. t \in proc[p].tx  BY <3>2
      <4>2. proc[p].command = "down" /\ proc'[p].command = "none"  BY <1>1, <2>2, <3>2, <4>1
      <4>3. Alone(p)  BY <4>2 DEF Quiet, DownAlone
      <4>4. QED  BY <4>2, <4>3 DEF Alone, Writes
    <3>3. QED  BY <3>1, <3>2
  <2>3. QED  BY <2>1, <2>2 DEF DownAlone
<1>3. OneTransaction'
  <2>1. ASSUME NEW q \in Runner, proc'[q].tx # {}
        PROVE  orphans' = {} /\ \A o \in Runner \ {q} : proc'[o].tx = {}
    BY <2>1 DEF Quiet, OneTransaction
  <2>2. ASSUME NEW s \in orphans', NEW t \in orphans' PROVE s = t
    <3>1. CASE proc[p].tx = {}  BY <3>1, <2>2 DEF Quiet, OneTransaction
    <3>2. CASE proc[p].tx # {}  BY <3>2, <1>1, <2>2 DEF Quiet, OneTransaction
    <3>3. QED  BY <3>1, <3>2
  <2>3. QED  BY <2>1, <2>2 DEF OneTransaction
<1>4. Open' \subseteq Open
  <2>1. \A q \in Runner : proc'[q].tx \subseteq proc[q].tx  OBVIOUS
  <2>2. QED  BY <2>1 DEF Open
<1>5. TxFits'
  <2>1. Versions(recorded)' = Versions(recorded)  BY DEF Versions
  <2>2. QED  BY <1>4, <2>1 DEF Quiet, TxFits
<1>6. DatabaseWhole'  BY DEF Quiet, DatabaseWhole, IsPrefix, Versions
<1>7. ASSUME NEW q \in Runner PROVE ReadFits(q)'
  <2>1. CASE q = p  BY <2>1 DEF ReadFits, Reading
  <2>2. CASE q # p  BY <2>2 DEF Quiet, ReadFits, Reading, IsPrefix, Versions
  <2>3. QED  BY <2>1, <2>2
<1>8. QED  BY <1>2, <1>3, <1>5, <1>6, <1>7 DEF Quiet

\* A transaction that fits opens, where there is none.
LEMMA QuietOpen ==
  ASSUME Shape, Quiet, NEW p \in Runner, \A q \in Runner \ {p} : proc'[q] = proc[q],
         NEW t, proc'[p].tx = {t}, proc'[p].pc = "commit", proc[p].pc = "next",
         proc'[p].command = proc[p].command, proc'[p].applied = proc[p].applied,
         t.kind = proc[p].command,
         Open = {},
         Versions(recorded) = 1..(IF t.kind = "up" THEN t.file.version - 1 ELSE t.file.version),
         proc[p].command = "up" => Versions(proc[p].applied) = Versions(recorded),
         UNCHANGED <<recorded, schema, orphans>>
  PROVE  Quiet'
<1>1. orphans = {} /\ \A q \in Runner : proc[q].tx = {}  BY DEF Open
<1>2. DownAlone'  BY DEF Quiet, DownAlone, Alone, Writes
<1>3. OneTransaction'  BY <1>1 DEF OneTransaction
<1>4. Open' = {t}
  <2>1. \A q \in Runner : proc'[q].tx \subseteq {t}  BY <1>1
  <2>2. QED  BY <1>1, <2>1 DEF Open
<1>5. Versions(recorded)' = Versions(recorded)  BY DEF Versions
<1>6. TxFits'  BY <1>4, <1>5 DEF TxFits
<1>7. DatabaseWhole'  BY DEF Quiet, DatabaseWhole, IsPrefix, Versions
<1>8. ASSUME NEW q \in Runner PROVE ReadFits(q)'
  <2>1. CASE q = p  BY <2>1 DEF Quiet, ReadFits, Reading, IsPrefix, Versions
  <2>2. CASE q # p  BY <2>2 DEF Quiet, ReadFits, Reading, IsPrefix, Versions
  <2>3. QED  BY <2>1, <2>2
<1>9. QED  BY <1>2, <1>3, <1>6, <1>7, <1>8 DEF Quiet

LEMMA QuietCommit ==
  ASSUME Shape, Quiet, NEW p \in Runner, Commit(p)
  PROVE  Quiet'
<1>1. PICK tx \in proc[p].tx :
        /\ Lands(tx)
        /\ IF tx.kind = "down" THEN Returns(p)
           ELSE proc' = [proc EXCEPT ![p].pc = "next", ![p].tx = {},
                                     ![p].applied = @ \cup {tx.file}]
  BY DEF Commit
<1>2. proc[p].pc = "commit" /\ orphans' = orphans  BY DEF Commit
<1>3. /\ Typed /\ proc \in [Runner -> Process] /\ proc[p] \in Process
      /\ tx \in Tx /\ tx.kind = proc[p].command /\ Writes(p)
  BY OpenTransaction DEF Shape, Typed
<1>4. orphans = {} /\ \A q \in Runner \ {p} : proc[q].tx = {} /\ proc[q].pc # "commit"
  BY <1>1 DEF Quiet, OneTransaction, Shape, WellFormed
<1>5. Versions(recorded) = 1..(IF tx.kind = "up" THEN tx.file.version - 1 ELSE tx.file.version)
  BY <1>1 DEF Quiet, TxFits, Open
<1>6. DatabaseWhole  BY DEF Quiet
<1>7. /\ DatabaseWhole'
      /\ tx.kind = "up" => /\ recorded' = recorded \cup {tx.file}
                           /\ Versions(recorded') = 1..tx.file.version
  BY <1>1, <1>3, <1>5, <1>6, LandsWhole
<1>8. \A q \in Runner \ {p} : proc'[q] = proc[q]  BY <1>1, <1>3 DEF Returns
<1>9. /\ tx.kind = "down" => proc'[p] = NotRunning
      /\ tx.kind = "up" => /\ proc'[p].pc = "next" /\ proc'[p].tx = {}
                           /\ proc'[p].applied = proc[p].applied \cup {tx.file}
                           /\ proc'[p].command = "up"
  BY <1>1, <1>3 DEF Returns, Process
<1>10. tx.kind \in {"up", "down"}  BY <1>3 DEF Tx
<1>11. /\ proc'[p].tx = {} /\ proc'[p].pc # "commit"
       /\ proc'[p].command \in {"none", "up"}
       /\ proc'[p].command = "up" => tx.kind = "up"
  BY <1>9, <1>10 DEF NotRunning
<1>12. DownAlone'
  BY <1>2, <1>3, <1>4, <1>8, <1>11 DEF Quiet, DownAlone, Alone, Writes
<1>13. OneTransaction'  BY <1>2, <1>4, <1>8, <1>11 DEF OneTransaction
<1>14. Open' = {}
  <2>1. orphans' = {} /\ \A q \in Runner : proc'[q].tx = {}  BY <1>2, <1>4, <1>8, <1>11
  <2>2. QED  BY <2>1 DEF Open
<1>15. TxFits'  BY <1>14 DEF TxFits
<1>16. ReadFits(p)'
  <2>1. CASE tx.kind = "up"
    <3>1. Versions(proc[p].applied) = Versions(recorded)
      BY <1>2, <1>3, <2>1 DEF Quiet, ReadFits, Reading
    <3>2. Versions(proc'[p].applied) = Versions(recorded')
      <4>1. Versions(proc'[p].applied) = Versions(proc[p].applied) \cup {tx.file.version}
        BY <1>9, <2>1 DEF Versions
      <4>2. Versions(recorded') = Versions(recorded) \cup {tx.file.version}
        BY <1>7, <2>1 DEF Versions
      <4>3. QED  BY <3>1, <4>1, <4>2
    <3>3. tx.file.version \in Nat  BY <1>3 DEF Tx
    <3>4. IsPrefix(proc'[p].applied)  BY <1>7, <2>1, <3>2, <3>3 DEF IsPrefix
    <3>5. QED  BY <1>9, <1>11, <2>1, <3>2, <3>4 DEF ReadFits, IsPrefix, Versions
  <2>2. CASE tx.kind = "down"  BY <1>9, <2>2 DEF ReadFits, Reading, NotRunning
  <2>3. QED  BY <1>10, <2>1, <2>2
<1>17. ASSUME NEW q \in Runner \ {p} PROVE ReadFits(q)'
  <2>1. proc[q].command # "down"
    BY <1>3 DEF Quiet, DownAlone, Alone
  <2>2. tx.kind = "down" => ~Writes(q)  BY <1>3 DEF Quiet, DownAlone, Alone
  <2>3. CASE Writes(q)
    <3>1. tx.kind = "up"  BY <1>10, <2>2, <2>3
    <3>2. Versions(recorded) \subseteq Versions(recorded')  BY <1>7, <3>1 DEF Versions
    <3>3. QED
      BY <1>4, <1>8, <2>1, <3>2 DEF Quiet, ReadFits, Reading, IsPrefix, Versions
  <2>4. CASE ~Writes(q)  BY <1>8, <2>4 DEF ReadFits, Writes
  <2>5. QED  BY <2>3, <2>4
<1>18. QED  BY <1>7, <1>12, <1>13, <1>15, <1>16, <1>17 DEF Quiet

LEMMA QuietLate ==
  ASSUME Shape, Quiet, LateCommit
  PROVE  Quiet'
<1>1. PICK tx \in orphans : /\ Lands(tx)
                            /\ orphans' = orphans \ {tx}
                            /\ UNCHANGED <<bookkeeping, lock, proc, runs, mishaps>>
  BY DEF LateCommit
<1>2. Typed /\ tx \in Tx /\ tx.kind \in {"up", "down"}  BY DEF Shape, Typed, Tx
<1>3. \A q \in Runner : proc[q].tx = {} /\ proc[q].pc # "commit" /\ proc[q].command # "down"
  BY <1>1 DEF Quiet, OneTransaction, DownAlone, Alone, Shape, WellFormed
<1>4. orphans' = {}  BY <1>1 DEF Quiet, OneTransaction
<1>5. Versions(recorded) = 1..(IF tx.kind = "up" THEN tx.file.version - 1 ELSE tx.file.version)
  BY DEF Quiet, TxFits, Open
<1>6. DatabaseWhole  BY DEF Quiet
<1>7. DatabaseWhole' /\ (tx.kind = "up" => recorded' = recorded \cup {tx.file})
  BY <1>1, <1>2, <1>5, <1>6, LandsWhole
<1>8. DownAlone'  BY <1>1, <1>3, <1>4 DEF DownAlone
<1>9. OneTransaction'  BY <1>1, <1>3, <1>4 DEF OneTransaction
<1>10. Open' = {}  BY <1>1, <1>3, <1>4 DEF Open
<1>11. TxFits'  BY <1>10 DEF TxFits
<1>12. ASSUME NEW q \in Runner PROVE ReadFits(q)'
  <2>1. CASE tx.kind = "down"
    <3>1. ~Writes(q)  BY <2>1 DEF Quiet, DownAlone
    <3>2. QED  BY <1>1, <3>1 DEF ReadFits, Writes
  <2>2. CASE tx.kind = "up"
    <3>1. Versions(recorded) \subseteq Versions(recorded')  BY <1>7, <2>2 DEF Versions
    <3>2. QED  BY <1>1, <1>3, <3>1 DEF Quiet, ReadFits, Reading, IsPrefix, Versions
  <2>3. QED  BY <1>2, <2>1, <2>2
<1>13. QED  BY <1>7, <1>8, <1>9, <1>11, <1>12 DEF Quiet

LEMMA QuietBegin ==
  ASSUME Shape, Quiet, NEW p \in Runner, NEW files \in Build,
         NEW command \in DOMAIN FirstStep, Begin(p, command, files),
         "down overlaps" \notin mishaps'
  PROVE  Quiet'
<1>1. command \in {"up", "down", "status"} /\ FirstStep[command] \in {"lock", "applied", "ensure"}
  <2>1. command \in {"up", "down", "status"}  BY DEF FirstStep
  <2>2. QED  BY <2>1, FirstSteps
<1>2. ~DownOverlaps(command) /\ UNCHANGED <<recorded, schema, orphans>> /\ proc[p].pc = "idle"
  BY DEF Begin
<1>3. /\ proc \in [Runner -> Process] /\ proc[p].tx = {} /\ ~Writes(p)
      /\ \A q \in Runner : Writes(q) => proc[q].pc # "idle"
  BY <1>2 DEF Shape, Typed, WellFormed, Writes
<1>4. \A q \in Runner \ {p} : proc'[q] = proc[q]  BY <1>3 DEF Begin
<1>5. proc'[p].pc = FirstStep[command] /\ proc'[p].command = command /\ proc'[p].tx = {}
  <2>1. proc'[p] = [NotRunning EXCEPT !.pc = FirstStep[command], !.command = command, !.files = files]
    BY <1>3 DEF Begin
  <2>2. NotRunning \in Process /\ NotRunning.tx = {}  BY DEF NotRunning, Process, Steps
  <2> HIDE DEF NotRunning
  <2>3. QED  BY <2>1, <2>2 DEF Process
<1>6. DownAlone'
  <2>1. command = "down" => orphans = {} /\ \A q \in Runner : ~Writes(q)
    BY <1>2, <1>3 DEF DownOverlaps, Active, Writes
  <2>2. command = "up" => /\ \A q \in Runner : proc[q].command # "down"
                          /\ \A t \in orphans : t.kind # "down"
    BY <1>2, <1>3 DEF DownOverlaps, Active, Writes
  <2>3. QED  BY <1>1, <1>2, <1>3, <1>4, <1>5, <2>1, <2>2 DEF Quiet, DownAlone, Alone, Writes
<1>7. OneTransaction'  BY <1>2, <1>3, <1>4, <1>5 DEF Quiet, OneTransaction
<1>8. Open' \subseteq Open
  <2>1. \A q \in Runner : proc'[q].tx \subseteq proc[q].tx  BY <1>3, <1>4, <1>5
  <2>2. QED  BY <1>2, <2>1 DEF Open
<1>9. Versions(recorded)' = Versions(recorded)  BY <1>2 DEF Versions
<1>10. TxFits'  BY <1>8, <1>9 DEF Quiet, TxFits
<1>11. DatabaseWhole'  BY <1>2 DEF Quiet, DatabaseWhole, IsPrefix, Versions
<1>12. ASSUME NEW q \in Runner PROVE ReadFits(q)'
  <2>1. CASE q = p  BY <1>1, <1>5, <2>1 DEF ReadFits, Reading
  <2>2. CASE q # p  BY <1>2, <1>4, <2>2 DEF Quiet, ReadFits, Reading, IsPrefix, Versions
  <2>3. QED  BY <2>1, <2>2
<1>13. QED  BY <1>6, <1>7, <1>10, <1>11, <1>12 DEF Quiet

LEMMA QuietRead ==
  ASSUME Shape, Quiet, NEW p \in Runner, proc[p].pc = "applied",
         proc' = [proc EXCEPT ![p].pc = "next", ![p].applied = recorded],
         proc[p].command = "down" => recorded # {},
         UNCHANGED <<recorded, schema, orphans>>
  PROVE  Quiet'
<1>1. proc \in [Runner -> Process] /\ proc[p] \in Process /\ proc[p].tx = {}
  BY DEF Shape, Typed, WellFormed
<1>2. \A q \in Runner \ {p} : proc'[q] = proc[q]  BY <1>1
<1>3. /\ proc'[p].pc = "next" /\ proc'[p].command = proc[p].command
      /\ proc'[p].tx = {} /\ proc'[p].applied = recorded
  BY <1>1 DEF Process
<1>4. DownAlone'
  <2>1. \A q \in Runner : proc'[q].command = proc[q].command  BY <1>2, <1>3
  <2>2. QED  BY <2>1 DEF Quiet, DownAlone, Alone, Writes
<1>5. OneTransaction'  BY <1>1, <1>2, <1>3 DEF Quiet, OneTransaction
<1>6. Open' \subseteq Open
  <2>1. \A q \in Runner : proc'[q].tx \subseteq proc[q].tx  BY <1>2, <1>3
  <2>2. QED  BY <2>1 DEF Open
<1>7. Versions(recorded)' = Versions(recorded)  BY DEF Versions
<1>8. TxFits'  BY <1>6, <1>7 DEF Quiet, TxFits
<1>9. DatabaseWhole'  BY DEF Quiet, DatabaseWhole, IsPrefix, Versions
<1>10. ASSUME NEW q \in Runner PROVE ReadFits(q)'
  <2>1. CASE q = p
    <3>1. IsPrefix(proc'[p].applied)  BY <1>3 DEF Quiet, DatabaseWhole
    <3>2. Versions(proc'[p].applied) = Versions(recorded')  BY <1>3 DEF Versions
    <3>3. QED  BY <1>3, <2>1, <3>1, <3>2 DEF ReadFits, Reading, IsPrefix, Versions
  <2>2. CASE q # p  BY <1>2, <2>2 DEF Quiet, ReadFits, Reading, IsPrefix, Versions
  <2>3. QED  BY <2>1, <2>2
<1>11. QED  BY <1>4, <1>5, <1>8, <1>9, <1>10 DEF Quiet

LEMMA PrefixesDiffer ==
  ASSUME NEW m \in Nat, NEW n \in Nat, 1..m = 1..n
  PROVE  m = n
<1>1. CASE m < n  BY <1>1, n \in 1..n, n \notin 1..m
<1>2. CASE n < m  BY <1>2, m \in 1..m, m \notin 1..n
<1>3. QED  BY <1>1, <1>2

\* What ApplyNext opens is the next version of the database, unless the schema
\* already has it.
LEMMA NextFits ==
  ASSUME Shape, Quiet, NEW p \in Runner, proc[p].pc = "next", proc[p].command = "up",
         Pending(p) # {}
  PROVE  /\ NextUp(p) \in proc[p].files
         /\ NextUp(p).version \in Nat \ {0}
         /\ NextUp(p).version \in schema \/
              (/\ Versions(recorded) = 1..NextUp(p).version - 1
               /\ Versions(proc[p].applied) = Versions(recorded))
<1> DEFINE v == NextUp(p).version
<1>1. proc[p].files \in Build /\ Loads(proc[p].files)  BY DEF Shape, WellFormed
<1>2. proc[p].files \subseteq File /\ IsPrefix(proc[p].files)
  BY <1>1, BuildsAreFinite, LoadedAreNumbered
<1>3. /\ IsPrefix(proc[p].applied)
      /\ Versions(proc[p].applied) \subseteq Versions(recorded)
  BY DEF Quiet, ReadFits, Reading
<1>4. PICK m \in Nat : Versions(proc[p].applied) = 1..m  BY <1>3 DEF IsPrefix
<1>5. PICK n \in Nat : Versions(recorded) = 1..n  BY DEF Quiet, DatabaseWhole, IsPrefix
<1>6. NextUp(p) \in proc[p].files /\ v = m + 1  BY <1>2, <1>4, NextIsAfterRead
<1>7. m = 0 \/ m \in 1..m  BY <1>4
<1>8. m =< n  BY <1>3, <1>4, <1>5, <1>7
<1>9. CASE m = n  BY <1>4, <1>5, <1>6, <1>9
<1>10. CASE m < n
  <2>1. v \in Versions(recorded)  BY <1>5, <1>6, <1>10
  <2>2. QED  BY <1>6, <2>1 DEF Quiet, DatabaseWhole
<1>11. QED  BY <1>8, <1>9, <1>10

LEMMA QuietApply ==
  ASSUME Shape, Quiet, NEW p \in Runner, ApplyNext(p)
  PROVE  Quiet'
<1> DEFINE f == NextUp(p)
           t == [kind |-> "up", file |-> f]
<1>1. /\ proc[p].pc = "next" /\ proc[p].command = "up" /\ Pending(p) # {}
      /\ ~Waits(f.version)
      /\ UNCHANGED <<recorded, schema, orphans>>
      /\ \/ /\ ~Created(f.version)
            /\ proc' = [proc EXCEPT ![p].pc = "commit", ![p].tx = {t}]
         \/ Goes(p, "unlock")
  BY DEF ApplyNext
<1>2. proc \in [Runner -> Process] /\ proc[p] \in Process /\ proc[p].tx = {}
  BY <1>1 DEF Shape, Typed, WellFormed
<1>3. CASE Goes(p, "unlock")
  <2>1. /\ \A q \in Runner \ {p} : proc'[q] = proc[q]
        /\ proc'[p].pc = "unlock" /\ proc'[p].command = proc[p].command /\ proc'[p].tx = {}
    BY <1>2, <1>3 DEF Goes, Process
  <2>2. QED  BY <1>1, <2>1, QuietRecede
<1>4. CASE ~Created(f.version) /\ proc' = [proc EXCEPT ![p].pc = "commit", ![p].tx = {t}]
  <2>1. /\ f.version \in Nat \ {0}
        /\ f.version \notin schema => /\ Versions(recorded) = 1..f.version - 1
                                      /\ Versions(proc[p].applied) = Versions(recorded)
    BY <1>1, NextFits
  <2>2. /\ Versions(recorded) = 1..f.version - 1
        /\ Versions(proc[p].applied) = Versions(recorded)
    BY <1>4, <2>1 DEF Created
  <2>3. ASSUME NEW tx \in Open PROVE FALSE
    <3>1. tx \in Tx /\ tx.kind # "down"
      <4>1. CASE tx \in orphans
        BY <1>1, <4>1 DEF Quiet, DownAlone, Writes, Shape, Typed
      <4>2. CASE tx \notin orphans
        <5>1. PICK q \in Runner : tx \in proc[q].tx  BY <2>3, <4>2 DEF Open
        <5>2. tx \in Tx /\ tx.kind = proc[q].command  BY <5>1, OpenTransaction
        <5>3. q # p  BY <1>2, <5>1
        <5>4. proc[q].command # "down"  BY <1>1, <5>3 DEF Quiet, DownAlone, Alone, Writes
        <5>5. QED  BY <5>2, <5>4
      <4>3. QED  BY <4>1, <4>2
    <3>2. tx.kind = "up" /\ tx.file.version \in Nat \ {0}  BY <3>1 DEF Tx
    <3>3. Versions(recorded) = 1..tx.file.version - 1  BY <3>2, <2>3 DEF Quiet, TxFits
    <3>4. tx.file.version - 1 = f.version - 1
      <4>1. tx.file.version - 1 \in Nat /\ f.version - 1 \in Nat  BY <2>1, <3>2
      <4>2. QED  BY <2>2, <3>3, <4>1, PrefixesDiffer
    <3>5. tx.file.version = f.version  BY <2>1, <3>2, <3>4
    <3>6. QED  BY <1>1, <2>3, <3>5 DEF Waits
  <2>4. Open = {}  BY <2>3
  <2>5. /\ \A q \in Runner \ {p} : proc'[q] = proc[q]
        /\ proc'[p].pc = "commit" /\ proc'[p].command = proc[p].command
        /\ proc'[p].tx = {t} /\ proc'[p].applied = proc[p].applied
    BY <1>2, <1>4 DEF Process
  <2>6. t.kind = "up" /\ t.file = f  OBVIOUS
  <2> HIDE DEF t, f
  <2>7. QED  BY <1>1, <2>2, <2>4, <2>5, <2>6, QuietOpen
<1>5. QED  BY <1>1, <1>3, <1>4

LEMMA QuietRollBack ==
  ASSUME Shape, Quiet, NEW p \in Runner, RollBack(p)
  PROVE  Quiet'
<1>1. /\ proc[p].pc = "next" /\ proc[p].command = "down"
      /\ UNCHANGED <<recorded, schema, orphans>>
      /\ \/ \E f \in proc[p].files :
             /\ f.version = Max(Versions(proc[p].applied))
             /\ proc' = [proc EXCEPT ![p].pc = "commit", ![p].tx = {[kind |-> "down", file |-> f]}]
         \/ Returns(p)
  BY DEF RollBack
<1>2. proc \in [Runner -> Process] /\ proc[p] \in Process /\ proc[p].tx = {}
  BY <1>1 DEF Shape, Typed, WellFormed
<1>3. CASE Returns(p)
  <2>1. /\ \A q \in Runner \ {p} : proc'[q] = proc[q]
        /\ proc'[p] = NotRunning
    BY <1>2, <1>3 DEF Returns
  <2>2. NotRunning.pc = "idle" /\ NotRunning.command = "none" /\ NotRunning.tx = {}
    BY DEF NotRunning
  <2>3. QED  BY <1>1, <2>1, <2>2, QuietRecede
<1>4. ASSUME NEW f \in proc[p].files, f.version = Max(Versions(proc[p].applied)),
             proc' = [proc EXCEPT ![p].pc = "commit", ![p].tx = {[kind |-> "down", file |-> f]}]
      PROVE  Quiet'
  <2> DEFINE t == [kind |-> "down", file |-> f]
  <2>1. proc[p].applied = recorded /\ recorded # {}  BY <1>1 DEF Quiet, ReadFits, Reading
  <2>2. PICK n \in Nat : Versions(recorded) = 1..n  BY DEF Quiet, DatabaseWhole, IsPrefix
  <2>3. n # 0
    <3>1. Versions(recorded) # {}  BY <2>1 DEF Versions
    <3>2. QED  BY <2>2, <3>1
  <2>4. f.version = n  BY <1>4, <2>1, <2>2, <2>3, MaxOfPrefix
  <2>5. Alone(p)  BY <1>1 DEF Quiet, DownAlone
  <2>6. \A q \in Runner : proc[q].tx = {}  BY <1>2, <2>5, OpenTransaction DEF Alone
  <2>7. Open = {}  BY <2>5, <2>6 DEF Open, Alone
  <2>8. /\ \A q \in Runner \ {p} : proc'[q] = proc[q]
        /\ proc'[p].pc = "commit" /\ proc'[p].command = proc[p].command
        /\ proc'[p].tx = {t} /\ proc'[p].applied = proc[p].applied
    BY <1>2, <1>4 DEF Process
  <2>9. t.kind = "down" /\ t.file = f  OBVIOUS
  <2> HIDE DEF t
  <2>10. QED  BY <1>1, <2>2, <2>4, <2>7, <2>8, <2>9, QuietOpen
<1>5. QED  BY <1>1, <1>3, <1>4

LEMMA QuietStep ==
  Shape /\ Quiet /\ [MigrateNext]_migrateVars /\ "down overlaps" \notin mishaps' => Quiet'
<1> SUFFICES ASSUME Shape, Quiet, [MigrateNext]_migrateVars, "down overlaps" \notin mishaps'
             PROVE  Quiet'
  OBVIOUS
<1>1. CASE UNCHANGED migrateVars
  <2>1. UNCHANGED <<recorded, schema, orphans, proc>>  BY <1>1 DEF migrateVars
  <2>2. DownAlone' /\ OneTransaction'
    BY <2>1 DEF Quiet, DownAlone, Alone, Writes, OneTransaction
  <2>3. TxFits'  BY <2>1 DEF Quiet, TxFits, Open, Versions
  <2>4. DatabaseWhole'  BY <2>1 DEF Quiet, DatabaseWhole, IsPrefix, Versions
  <2>5. ASSUME NEW p \in Runner PROVE ReadFits(p)'
    BY <2>1 DEF Quiet, ReadFits, Reading, IsPrefix, Versions
  <2>6. QED  BY <2>2, <2>3, <2>4, <2>5 DEF Quiet
<1>2. ASSUME NEW p \in Runner
      PROVE  /\ proc \in [Runner -> Process] /\ proc[p] \in Process
             /\ proc[p].pc # "commit" => proc[p].tx = {}
             /\ p \in lock => proc[p].command = "up"
  BY DEF Shape, Typed, WellFormed, LockHeld
<1>3. ASSUME NEW p \in Runner, NEW pc, Goes(p, pc), pc \notin {"next", "commit"},
             proc[p].pc # "commit", UNCHANGED <<recorded, schema, orphans>>
      PROVE  Quiet'
  <2>1. /\ \A q \in Runner \ {p} : proc'[q] = proc[q]
        /\ proc'[p].pc = pc /\ proc'[p].command = proc[p].command /\ proc'[p].tx = {}
    BY <1>2, <1>3 DEF Goes, Process
  <2>2. QED  BY <1>3, <2>1, QuietRecede
<1>4. ASSUME NEW p \in Runner, Returns(p), UNCHANGED <<recorded, schema>>,
             orphans' = orphans \/ orphans' = orphans \cup proc[p].tx
      PROVE  Quiet'
  <2>1. (\A q \in Runner \ {p} : proc'[q] = proc[q]) /\ proc'[p] = NotRunning
    BY <1>2, <1>4 DEF Returns
  <2>2. NotRunning.pc = "idle" /\ NotRunning.command = "none" /\ NotRunning.tx = {}
    BY DEF NotRunning
  <2>3. QED  BY <1>4, <2>1, <2>2, QuietRecede
<1>5. ASSUME NEW p \in Runner, AcquireLock(p) PROVE Quiet'
  BY <1>3, <1>5 DEF AcquireLock
<1>6. ASSUME NEW p \in Runner, EnsureMigrationTable(p) PROVE Quiet'
  BY <1>3, <1>6 DEF EnsureMigrationTable
<1>7. ASSUME NEW p \in Runner, ReadApplied(p) PROVE Quiet'
  <2>1. /\ proc[p].pc = "applied" /\ UNCHANGED <<recorded, schema, orphans>>
        /\ \/ /\ proc' = [proc EXCEPT ![p].pc = "next", ![p].applied = recorded]
              /\ proc[p].command = "down" => recorded # {}
           \/ Goes(p, "unlock")
           \/ Returns(p)
    BY <1>7 DEF ReadApplied, HasLatest
  <2>2. QED  BY <2>1, <1>3, <1>4, QuietRead
<1>8. ASSUME NEW p \in Runner, NothingPending(p) PROVE Quiet'
  BY <1>3, <1>8 DEF NothingPending
<1>9. ASSUME NEW p \in Runner, Unlock(p) PROVE Quiet'
  BY <1>4, <1>9 DEF Unlock
<1>10. ASSUME NEW p \in Runner, Fails(p) PROVE Quiet'
  <2>1. /\ UNCHANGED <<recorded, schema>>
        /\ orphans' = orphans \/ orphans' = orphans \cup proc[p].tx
    BY <1>10 DEF Fails, Abandons
  <2>2. CASE p \in lock
    <3>1. proc' = [proc EXCEPT ![p].pc = "unlock", ![p].tx = {}]  BY <1>10, <2>2 DEF Fails
    <3>2. /\ \A q \in Runner \ {p} : proc'[q] = proc[q]
          /\ proc'[p].pc = "unlock" /\ proc'[p].command = proc[p].command /\ proc'[p].tx = {}
      BY <1>2, <3>1 DEF Process
    <3>3. proc[p].command # "down"  BY <1>2, <2>2
    <3>4. QED  BY <2>1, <3>2, <3>3, QuietRecede
  <2>3. CASE p \notin lock  BY <1>4, <1>10, <2>1, <2>3 DEF Fails
  <2>4. QED  BY <2>2, <2>3
<1>11. ASSUME NEW p \in Runner, Dies(p) PROVE Quiet'
  BY <1>4, <1>11 DEF Dies, Abandons
<1>12. QED
  BY <1>1, <1>5, <1>6, <1>7, <1>8, <1>9, <1>10, <1>11,
     QuietLate, QuietBegin, QuietApply, QuietRollBack, QuietCommit
  DEF MigrateNext

-----------------------------------------------------------------------------
(* Nothing changes under a run.                                            *)

LEMMA MishapsStay ==
  ASSUME [MigrateNext]_migrateVars
  PROVE  mishaps \subseteq mishaps'
<1>1. CASE UNCHANGED migrateVars  BY <1>1 DEF migrateVars
<1>2. CASE LateCommit  BY <1>2 DEF LateCommit
<1>3. ASSUME NEW p \in Runner, NEW files, NEW command, Begin(p, command, files)
      PROVE  mishaps \subseteq mishaps'
  BY <1>3 DEF Begin
<1>4. ASSUME NEW p \in Runner,
             \/ AcquireLock(p) \/ EnsureMigrationTable(p) \/ ReadApplied(p)
             \/ NothingPending(p) \/ RollBack(p) \/ Commit(p) \/ Unlock(p)
      PROVE  mishaps \subseteq mishaps'
  BY <1>4 DEF AcquireLock, EnsureMigrationTable, ReadApplied, NothingPending, RollBack,
              Commit, Unlock
<1>5. ASSUME NEW p \in Runner, ApplyNext(p) PROVE mishaps \subseteq mishaps'
  BY <1>5 DEF ApplyNext
<1>6. ASSUME NEW p \in Runner, Fails(p) \/ Dies(p) PROVE mishaps \subseteq mishaps'
  BY <1>6 DEF Fails, Dies, Abandons
<1>7. QED  BY <1>1, <1>2, <1>3, <1>4, <1>5, <1>6 DEF MigrateNext

\* A step that leaves the log of migrations alone keeps what every run has read.
LEMMA SerialKeep ==
  ASSUME Serial, NEW p \in Runner, \A q \in Runner \ {p} : proc'[q] = proc[q],
         UNCHANGED <<recorded, orphans>>, "collided" \notin mishaps',
         proc'[p].command = "up" /\ proc'[p].pc \in {"next", "commit"} =>
           /\ proc'[p].applied = recorded
           /\ Unchanged(proc'[p].files, recorded)
  PROVE  Serial'
<1>1. ASSUME NEW q \in Runner, proc'[q].command = "up", proc'[q].pc \in {"next", "commit"}
      PROVE  proc'[q].applied = recorded /\ Unchanged(proc'[q].files, recorded)
  BY <1>1 DEF Serial, Reading
<1>2. ASSUME NEW q \in Runner, proc'[q].command = "up", proc'[q].pc \in {"next", "commit"}
      PROVE  proc'[q].applied = recorded' /\ Unchanged(proc'[q].files, recorded')
  BY <1>1, <1>2
<1>3. QED  BY <1>2 DEF Serial, Reading, Unchanged

\* A commit adds to what was read what it adds to the database.
LEMMA SerialCommit ==
  ASSUME Shape, Quiet, Serial, NEW p \in Runner, Commit(p)
  PROVE  Serial'
<1>1. PICK tx \in proc[p].tx :
        /\ Lands(tx)
        /\ IF tx.kind = "down" THEN Returns(p)
           ELSE proc' = [proc EXCEPT ![p].pc = "next", ![p].tx = {},
                                     ![p].applied = @ \cup {tx.file}]
  BY DEF Commit
<1>2. proc[p].pc = "commit" /\ orphans' = orphans /\ mishaps' = mishaps  BY DEF Commit
<1>3. /\ proc \in [Runner -> Process] /\ proc[p] \in Process
      /\ tx \in Tx /\ tx.kind = proc[p].command /\ tx.file \in proc[p].files
      /\ proc[p].files \in Build /\ Loads(proc[p].files)
  BY <1>2, OpenTransaction DEF Shape, Typed, WellFormed
<1>4. \A q \in Runner \ {p} : proc'[q] = proc[q]  BY <1>1, <1>3 DEF Returns
<1>5. ASSUME NEW q \in Runner, proc'[q].command = "up", proc'[q].pc \in {"next", "commit"}
      PROVE  proc'[q].applied = recorded' /\ Unchanged(proc'[q].files, recorded')
  <2>1. CASE tx.kind = "down"
    <3>1. proc'[p].command = "none"  BY <1>1, <1>3, <2>1 DEF Returns, NotRunning
    <3>2. q # p  BY <1>5, <3>1
    <3>3. ~Writes(q)  BY <1>3, <2>1, <3>2 DEF Quiet, DownAlone, Alone
    <3>4. QED  BY <1>4, <1>5, <3>2, <3>3 DEF Writes
  <2>2. CASE tx.kind # "down"
    <3>1. tx.kind = "up"  BY <1>3, <2>2 DEF Tx
    <3>2. p \in lock  BY <1>2, <1>3, <3>1 DEF Shape, LockHeld
    <3>3. q = p
      <4>1. SUFFICES ASSUME q # p PROVE FALSE  OBVIOUS
      <4>2. q \in lock  BY <1>4, <1>5, <4>1 DEF Shape, LockHeld
      <4>3. QED  BY <3>2, <4>1, <4>2 DEF Shape, LockHeld
    <3>4. proc[p].applied = recorded /\ Unchanged(proc[p].files, recorded)
      BY <1>2, <1>3, <3>1 DEF Serial, Reading
    <3>5. recorded' = recorded \cup {tx.file}  BY <1>1, <3>1 DEF Lands
    <3>6. /\ proc'[p].applied = proc[p].applied \cup {tx.file}
          /\ proc'[p].files = proc[p].files
      BY <1>1, <1>3, <2>2 DEF Process
    <3>7. \A f \in proc[p].files : f.version = tx.file.version => f = tx.file
      BY <1>3, LoadedAreNumbered
    <3>8. Unchanged(proc[p].files, recorded \cup {tx.file})
      BY <3>4, <3>7 DEF Unchanged
    <3>9. QED  BY <3>3, <3>4, <3>5, <3>6, <3>8
  <2>3. QED  BY <2>1, <2>2
<1>6. QED  BY <1>2, <1>5 DEF Serial, Reading, Unchanged

\* The next migration neither exists nor lacks what it refers to.
LEMMA SerialApply ==
  ASSUME Shape, Quiet, Serial, NEW p \in Runner, ApplyNext(p)
  PROVE  Serial'
<1> DEFINE f == NextUp(p)
<1>1. /\ proc[p].pc = "next" /\ proc[p].command = "up" /\ Pending(p) # {}
      /\ UNCHANGED <<recorded, orphans>>
      /\ \/ /\ proc' = [proc EXCEPT ![p].pc = "commit", ![p].tx = {[kind |-> "up", file |-> f]}]
            /\ mishaps' = mishaps
         \/ Created(f.version) \/ ~(Needs[f.version] \subseteq schema)
  BY DEF ApplyNext
<1>2. /\ proc \in [Runner -> Process] /\ proc[p] \in Process
      /\ proc[p].files \in Build
  BY <1>1 DEF Shape, Typed, WellFormed
<1>3. proc[p].applied = recorded /\ Unchanged(proc[p].files, recorded)
  BY <1>1 DEF Serial, Reading
<1>4. f \in Pending(p) /\ f \in File
  <2>1. proc[p].files \subseteq File  BY <1>2, BuildsAreFinite
  <2>2. QED  BY <1>1, <2>1, NextIsAFile DEF Pending
<1>5. f.version \notin Versions(recorded) /\ schema = Versions(recorded)
  BY <1>3, <1>4 DEF Pending, Quiet, DatabaseWhole
<1>6. schema = 1..f.version - 1  BY <1>1, <1>5, NextFits
<1>7. ~Created(f.version) /\ Needs[f.version] \subseteq schema
  BY <1>4, <1>5, <1>6 DEF Created
<1>8. /\ proc' = [proc EXCEPT ![p].pc = "commit", ![p].tx = {[kind |-> "up", file |-> f]}]
      /\ mishaps' = mishaps
  BY <1>1, <1>7
<1>9. /\ \A q \in Runner \ {p} : proc'[q] = proc[q]
      /\ proc'[p].applied = proc[p].applied /\ proc'[p].files = proc[p].files
  BY <1>2, <1>8 DEF Process
<1>10. "collided" \notin mishaps'  BY <1>8 DEF Serial
<1>11. QED  BY <1>1, <1>3, <1>9, <1>10, SerialKeep

LEMMA SerialStep ==
  /\ Shape /\ Quiet /\ Serial /\ [MigrateNext]_migrateVars
  /\ "late commit" \notin mishaps'
  => Serial'
<1> SUFFICES ASSUME Shape, Quiet, Serial, [MigrateNext]_migrateVars,
                    "late commit" \notin mishaps'
             PROVE  Serial'
  OBVIOUS
<1>1. CASE UNCHANGED migrateVars
  <2>1. UNCHANGED <<recorded, orphans, proc, mishaps>>  BY <1>1 DEF migrateVars
  <2>2. QED  BY <2>1 DEF Serial, Reading, Unchanged
<1>2. CASE LateCommit  BY <1>2 DEF LateCommit, Serial
<1>3. "collided" \notin mishaps  BY DEF Serial
<1>4. ASSUME NEW p \in Runner
      PROVE  proc \in [Runner -> Process] /\ proc[p] \in Process
  BY DEF Shape, Typed
\* What is not a run that has read and goes on, asks nothing.
<1>5. ASSUME NEW p \in Runner, \A q \in Runner \ {p} : proc'[q] = proc[q],
             UNCHANGED <<recorded, orphans>>, "collided" \notin mishaps',
             proc'[p].pc \notin {"next", "commit"} \/ proc'[p].command # "up"
      PROVE  Serial'
  BY <1>5, SerialKeep
<1>6. ASSUME NEW p \in Runner, NEW pc, Goes(p, pc), pc \notin {"next", "commit"},
             UNCHANGED <<recorded, orphans>>, mishaps' = mishaps
      PROVE  Serial'
  <2>1. (\A q \in Runner \ {p} : proc'[q] = proc[q]) /\ proc'[p].pc = pc
    BY <1>4, <1>6 DEF Goes, Process
  <2>2. QED  BY <1>3, <1>5, <1>6, <2>1
<1>7. ASSUME NEW p \in Runner, Returns(p), UNCHANGED <<recorded, orphans>>, mishaps' = mishaps
      PROVE  Serial'
  <2>1. (\A q \in Runner \ {p} : proc'[q] = proc[q]) /\ proc'[p] = NotRunning
    BY <1>4, <1>7 DEF Returns
  <2>2. NotRunning.command = "none"  BY DEF NotRunning
  <2>3. QED  BY <1>3, <1>5, <1>7, <2>1, <2>2
<1>8. ASSUME NEW p \in Runner, NEW files \in Build, NEW command \in DOMAIN FirstStep,
             Begin(p, command, files)
      PROVE  Serial'
  <2>1. command \in {"up", "down", "status"}  BY DEF FirstStep
  <2>2. FirstStep[command] \notin {"next", "commit"}  BY <2>1, FirstSteps
  <2>3. NotRunning \in Process  BY DEF NotRunning, Process, Steps
  <2>4. proc' = [proc EXCEPT ![p] = [NotRunning EXCEPT
          !.pc = FirstStep[command], !.command = command, !.files = files]]
    BY <1>8 DEF Begin
  <2>5. (\A q \in Runner \ {p} : proc'[q] = proc[q]) /\ proc'[p].pc = FirstStep[command]
    <3> HIDE DEF NotRunning
    <3> QED  BY <1>4, <2>3, <2>4 DEF Process
  <2>6. UNCHANGED <<recorded, orphans>> /\ "collided" \notin mishaps'
    BY <1>3, <1>8 DEF Begin
  <2>7. QED  BY <1>5, <2>2, <2>5, <2>6
<1>9. ASSUME NEW p \in Runner, ReadApplied(p) PROVE Serial'
  <2>1. /\ UNCHANGED <<recorded, orphans>> /\ mishaps' = mishaps
        /\ \/ /\ proc' = [proc EXCEPT ![p].pc = "next", ![p].applied = recorded]
              /\ proc[p].command = "up" => Unchanged(proc[p].files, recorded)
           \/ Goes(p, "unlock")
           \/ Returns(p)
    BY <1>9 DEF ReadApplied
  <2>2. CASE /\ proc' = [proc EXCEPT ![p].pc = "next", ![p].applied = recorded]
             /\ proc[p].command = "up" => Unchanged(proc[p].files, recorded)
    <3>1. /\ \A q \in Runner \ {p} : proc'[q] = proc[q]
          /\ proc'[p].applied = recorded /\ proc'[p].files = proc[p].files
          /\ proc'[p].command = proc[p].command
      BY <1>4, <2>2 DEF Process
    <3>2. QED  BY <1>3, <2>1, <2>2, <3>1, SerialKeep
  <2>3. QED  BY <2>1, <2>2, <1>6, <1>7
<1>10. ASSUME NEW p \in Runner, AcquireLock(p) \/ EnsureMigrationTable(p) \/ NothingPending(p)
       PROVE  Serial'
  BY <1>6, <1>10 DEF AcquireLock, EnsureMigrationTable, NothingPending
<1>11. ASSUME NEW p \in Runner, Unlock(p) PROVE Serial'
  BY <1>7, <1>11 DEF Unlock
<1>12. ASSUME NEW p \in Runner, RollBack(p) PROVE Serial'
  <2>1. /\ proc[p].command = "down" /\ UNCHANGED <<recorded, orphans>> /\ mishaps' = mishaps
        /\ \/ \E t : proc' = [proc EXCEPT ![p].pc = "commit", ![p].tx = {t}]
           \/ Returns(p)
    BY <1>12 DEF RollBack
  <2>2. ASSUME NEW t, proc' = [proc EXCEPT ![p].pc = "commit", ![p].tx = {t}]
        PROVE  Serial'
    <3>1. (\A q \in Runner \ {p} : proc'[q] = proc[q]) /\ proc'[p].command = proc[p].command
      BY <1>4, <2>2 DEF Process
    <3>2. QED  BY <1>3, <1>5, <2>1, <3>1
  <2>3. QED  BY <2>1, <2>2, <1>7
<1>13. ASSUME NEW p \in Runner, Abandons(p)
       PROVE  orphans' = orphans /\ mishaps' = mishaps
  BY <1>13 DEF Abandons
<1>14. ASSUME NEW p \in Runner, Fails(p) PROVE Serial'
  <2>1. UNCHANGED <<recorded, orphans>> /\ mishaps' = mishaps  BY <1>13, <1>14 DEF Fails
  <2>2. CASE p \in lock
    <3>1. proc' = [proc EXCEPT ![p].pc = "unlock", ![p].tx = {}]  BY <1>14, <2>2 DEF Fails
    <3>2. (\A q \in Runner \ {p} : proc'[q] = proc[q]) /\ proc'[p].pc = "unlock"
      BY <1>4, <3>1 DEF Process
    <3>3. QED  BY <1>3, <1>5, <2>1, <3>2
  <2>3. CASE p \notin lock  BY <1>7, <1>14, <2>1, <2>3 DEF Fails
  <2>4. QED  BY <2>2, <2>3
<1>15. ASSUME NEW p \in Runner, Dies(p) PROVE Serial'
  BY <1>7, <1>13, <1>15 DEF Dies
<1>16. QED
  BY <1>1, <1>2, <1>8, <1>9, <1>10, <1>11, <1>12, <1>14, <1>15, SerialApply, SerialCommit
  DEF MigrateNext

-----------------------------------------------------------------------------
\* Every reachable state satisfies the inductive invariant: a command holds what
\* its place in the code says, one transaction is open at a time and fits, and
\* while no COMMIT lands late a run's list of applied migrations is the table's.
THEOREM MigrateInvariant == MigrateSpec => []IInv
<1>1. MigrateInit => IInv
  <2> SUFFICES ASSUME MigrateInit PROVE IInv  OBVIOUS
  <2>1. Serial  BY DEF MigrateInit, Serial, NotRunning
  <2>2. QED  BY <2>1, ShapeInit, QuietInit DEF IInv
<1>2. IInv /\ [MigrateNext]_migrateVars => IInv'
  <2> SUFFICES ASSUME IInv, [MigrateNext]_migrateVars PROVE IInv'  OBVIOUS
  <2>1. mishaps \subseteq mishaps'  BY MishapsStay
  <2>2. Shape /\ Shape'  BY ShapeStep DEF IInv
  <2>3. "down overlaps" \notin mishaps' => Quiet'  BY <2>1, <2>2, QuietStep DEF IInv
  <2>4. ASSUME mishaps' \cap {"down overlaps", "late commit"} = {} PROVE Serial'
    <3>1. "down overlaps" \notin mishaps' /\ "late commit" \notin mishaps'  BY <2>4
    <3>2. Quiet /\ Serial  BY <2>1, <3>1 DEF IInv
    <3>3. QED  BY <2>2, <3>1, <3>2, SerialStep
  <2>5. QED  BY <2>2, <2>3, <2>4 DEF IInv
<1>3. QED  BY <1>1, <1>2, PTL DEF MigrateSpec

\* No more versions are recorded than there are files.
LEMMA PrefixIsBounded ==
  ASSUME NEW files, files \subseteq File, NEW n \in Nat, Versions(files) = 1..n
  PROVE  n \in 0..Cardinality(Versions(File))
<1>1. IsFiniteSet(Versions(File))
  <2> DEFINE version == [f \in File |-> f.version]
  <2>1. version \in Surjection(File, Versions(File))  BY DEF Surjection, Versions
  <2>2. QED  BY <2>1, FS_Surjection
<1>2. 1..n \subseteq Versions(File)
  <2>1. Versions(files) \subseteq Versions(File)  BY DEF Versions
  <2>2. QED  BY <2>1
<1>3. Cardinality(1..n) =< Cardinality(Versions(File))  BY <1>1, <1>2, FS_Subset
<1>4. Cardinality(1..n) = n
  <2>1. 1 \in Int /\ n \in Int  OBVIOUS
  <2>2. Cardinality(1..n) = IF 1 > n THEN 0 ELSE n - 1 + 1  BY <2>1, FS_Interval
  <2>3. QED  BY <2>2
<1>5. Cardinality(Versions(File)) \in Nat  BY <1>1, FS_CardinalityType
<1>6. QED  BY <1>3, <1>4, <1>5

\* migrate.go and cmd/migrate, on contiguous versions and interrupted runs: the
\* database holds the objects of versions 1 to n and records exactly those, each
\* once, whatever fails, dies or commits late, unless a rollback runs beside
\* another command.
THEOREM DatabaseIsAPrefix == MigrateSpec => []AppliedIsPrefix
<1>1. IInv => AppliedIsPrefix
  <2> SUFFICES ASSUME IInv, "down overlaps" \notin mishaps
               PROVE  /\ \E n \in 0..Cardinality(Versions(File)) : Versions(recorded) = 1..n
                      /\ schema = Versions(recorded)
                      /\ \A f, g \in recorded : f.version = g.version => f = g
    BY DEF AppliedIsPrefix
  <2>1. DatabaseWhole /\ recorded \subseteq File  BY DEF IInv, Quiet, Shape, Typed
  <2>2. PICK n \in Nat : Versions(recorded) = 1..n  BY <2>1 DEF DatabaseWhole, IsPrefix
  <2>3. n \in 0..Cardinality(Versions(File))  BY <2>1, <2>2, PrefixIsBounded
  <2>4. QED  BY <2>1, <2>2, <2>3 DEF DatabaseWhole
<1>2. QED  BY <1>1, MigrateInvariant, PTL

\* migrate.go, on two instances that boot together, and VerifyChecksums: a run
\* never meets objects it has not read of, and never builds on a file that
\* differs from its own, as long as no COMMIT outlives its session.
THEOREM RunsAreSerial == MigrateSpec => []StartersDoNotRace
<1>1. IInv => StartersDoNotRace
  BY DEF IInv, Serial, StartersDoNotRace, Active, Reading
<1>2. QED  BY <1>1, MigrateInvariant, PTL
=============================================================================
