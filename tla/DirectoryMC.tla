---------------------------- MODULE DirectoryMC ----------------------------
(***************************************************************************)
(* Directory for TLC.                                                      *)
(***************************************************************************)
EXTENDS Directory, TLC

Alike == Permutations(Code) \cup Permutations(Load)
=============================================================================
