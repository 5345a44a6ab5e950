-------------------------- MODULE SessionsDoubleMC --------------------------
(***************************************************************************)
(* AppSession and the test double of its repository for TLC.               *)
(***************************************************************************)
EXTENDS SessionsDouble, AppSessionMC
=============================================================================
