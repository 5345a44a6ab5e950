---------------------------- MODULE AppSessionMC ----------------------------
(***************************************************************************)
(* AppSession for TLC.                                                     *)
(***************************************************************************)
EXTENDS AppSession, TLC

Interchangeable == Permutations(Request) \cup Permutations(Call)
=============================================================================
