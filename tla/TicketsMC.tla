----------------------------- MODULE TicketsMC ------------------------------
(***************************************************************************)
(* Tickets, over Accounts, for TLC.                                        *)
(***************************************************************************)
EXTENDS Tickets, TLC

\* A thirteenth and a sixteenth birthday, each today and tomorrow.
MCToday == [year |-> 2026, month |-> 6, day |-> 15]
MCBirth == { [year |-> y, month |-> 6, day |-> d] : y \in {2010, 2013}, d \in {15, 16} }

Alike == Permutations(Request) \cup Permutations(Email) \cup Permutations(Handle)
         \cup Permutations(Ticket) \cup Permutations(Upgrade)
=============================================================================
