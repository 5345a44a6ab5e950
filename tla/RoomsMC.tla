------------------------------ MODULE RoomsMC ------------------------------
(***************************************************************************)
(* Instances of Rooms for TLC.  The caps are scaled down from 4 and 8 so   *)
(* that a room fills up, and passes its cap, with three users.             *)
(***************************************************************************)
EXTENDS Rooms, TLC

CONSTANTS u1, u2, u3, u4

\* One host with the plus tier, the others free: a transfer lowers the cap.
MCTier == [u \in User |-> IF u = u1 THEN "plus" ELSE "free"]
MCTierFree == [u \in User |-> "free"]

\* The users of the free tier are interchangeable.
Guests == Permutations(User \ {u1})
Symmetric == Permutations(Request) \cup Permutations(User)
=============================================================================
