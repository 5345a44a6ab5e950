----------------------------- MODULE RoomRules -----------------------------
(***************************************************************************)
(* The pure rules of the rooms module (modules/rooms/state.go): the        *)
(* lifecycle table, the capacity rule, host succession and reaping.  They  *)
(* hold no state; Rooms applies them to what a request has read.           *)
(***************************************************************************)
EXTENDS Naturals, FiniteSets

CONSTANTS
  FreeTierMaxParticipants,  \* 4 in the code; smaller in the runs
  PlusTierMaxParticipants,  \* 8 in the code; smaller in the runs
  HostGraceWindow,          \* FR-17's 60 seconds, in clock units
  EmptyRoomReapAfter,       \* FR-18's 10 minutes, in clock units
  Never                     \* a nil timestamp

ASSUME CapsAssumption ==
  /\ FreeTierMaxParticipants \in Nat \ {0}
  /\ PlusTierMaxParticipants \in Nat \ {0}
  /\ FreeTierMaxParticipants <= PlusTierMaxParticipants

ASSUME WindowsAssumption ==
  /\ HostGraceWindow \in Nat
  /\ EmptyRoomReapAfter \in Nat
  /\ Never \notin Nat

-----------------------------------------------------------------------------
(* FR-15: the lifecycle, as data.                                          *)

RoomState == {"LOBBY", "READY", "PLAYING", "ENDED"}

LifecycleEvent == {"ARM", "START", "REANCHOR", "CANCEL", "END"}

transitions ==
  { [from |-> "LOBBY",   event |-> "ARM",      to |-> "READY"],
    [from |-> "LOBBY",   event |-> "END",      to |-> "ENDED"],
    [from |-> "READY",   event |-> "START",    to |-> "PLAYING"],
    [from |-> "READY",   event |-> "CANCEL",   to |-> "LOBBY"],
    [from |-> "READY",   event |-> "END",      to |-> "ENDED"],
    [from |-> "PLAYING", event |-> "REANCHOR", to |-> "READY"],
    [from |-> "PLAYING", event |-> "END",      to |-> "ENDED"] }

\* The states Next may return: none when the event is illegal in `from`.
NextStates(from, event) ==
  { t.to : t \in { x \in transitions : x.from = from /\ x.event = event } }

-----------------------------------------------------------------------------
(* FR-16: capacity, by the tier of the room's host.                        *)

MaxParticipants(tier) ==
  IF tier = "plus" THEN PlusTierMaxParticipants ELSE FreeTierMaxParticipants

CanJoin(state, hostTier, currentParticipants) ==
  /\ state # "ENDED"
  /\ currentParticipants < MaxParticipants(hostTier)

-----------------------------------------------------------------------------
(* FR-17: a participant is a record [user, joinedAt, connected, isHost,    *)
(* disconnectedAt].  Promotable is the set SuccessorFor picks from; it is  *)
(* empty while the host is connected or inside the grace window.           *)

HostGone(p, now) ==
  /\ ~p.connected
  /\ p.disconnectedAt # Never
  /\ now - p.disconnectedAt >= HostGraceWindow

Promotable(participants, now) ==
  IF \A p \in participants : p.isHost => HostGone(p, now)
  THEN { p \in participants : ~p.isHost /\ p.connected }
  ELSE {}
=============================================================================
