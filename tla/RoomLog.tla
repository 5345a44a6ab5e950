------------------------------ MODULE RoomLog ------------------------------
(***************************************************************************)
(* What ADR-003 promises of one room's event log, whoever writes it: rows  *)
(* are only ever added, one at a time, each with the next sequence number. *)
(* Rooms is shown to implement it, and it is all that RoomSync's clients   *)
(* rely on.                                                                *)
(***************************************************************************)
EXTENDS Naturals

VARIABLES
  seq,     \* rooms.current_seq, the allocator
  events   \* room_events, a set of records with a field `seq`

logVars == <<seq, events>>

LogInit ==
  /\ seq = 0
  /\ events = {}

AppendEvent ==
  /\ seq' = seq + 1
  /\ \E e \in events' :
       /\ e.seq = seq'
       /\ events' = events \cup {e}

LogSpec == LogInit /\ [][AppendEvent]_logVars
=============================================================================
