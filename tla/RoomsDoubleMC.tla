---------------------------- MODULE RoomsDoubleMC ----------------------------
(***************************************************************************)
(* Rooms and its test double for TLC, with the values of RoomsMC.          *)
(***************************************************************************)
EXTENDS RoomsDouble, RoomsMC
=============================================================================
