----------------------------- MODULE MigrateMC -----------------------------
(***************************************************************************)
(* Migrate for TLC: three versions, of which the third does not refer to   *)
(* the second, as 0008 does not refer to 0007.                             *)
(***************************************************************************)
EXTENDS Migrate, TLC

F(version, checksum) == [version |-> version, checksum |-> checksum, reversible |-> TRUE]

\* The repository, an older release, one whose second file was edited, and one
\* whose second file got lost.
MCBuild ==
  { {F(1, "a"), F(2, "b"), F(3, "c")}, {F(1, "a"), F(2, "b")},
    {F(1, "a"), F(2, "edited"), F(3, "c")}, {F(1, "a"), F(3, "c")} }

MCNeeds == << {}, {1}, {1} >>

Processes == Permutations(Runner)
=============================================================================
