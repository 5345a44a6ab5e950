----------------------------- MODULE Directory -----------------------------
(***************************************************************************)
(* Rooms as one user's list of them: ids that sort by time (ids/uuidv7.go),*)
(* join codes (rooms/service.go, Create), and the list that the app reads  *)
(* page by page (httpx/cursor.go, RoomsForUser, RoomsListController) while *)
(* rooms are created.                                                      *)
(***************************************************************************)
EXTENDS Integers, Sequences, SequencesExt, FiniteSets

CONSTANTS
  Creator,           \* requests that create rooms
  Own,               \* those of the user whose list it is
  Code,              \* what NewJoinCode can draw
  MaxCounter,        \* 0x0FFF in the code
  Limit,             \* rooms per page
  Load,              \* requests for a page that the app has under way
  MaxClock,          \* bound: milliseconds of the wall clock
  MaxRooms,          \* bound
  MaxMint,           \* bound: ids minted
  Nothing

ASSUME DirectoryAssumption ==
  /\ Own \subseteq Creator
  /\ MaxCounter \in Nat /\ Limit \in Nat \ {0}
  /\ MaxClock \in Nat /\ MaxRooms \in Nat /\ MaxMint \in Nat
  /\ Nothing \notin [created : Nat, id : [lastMS : Nat, counter : 0..MaxCounter]]

VARIABLES
  clock,      \* the wall clock, which may be set back
  generator,  \* lastMS and counter of the one generator: the id minted last
  minted,     \* ids minted so far
  rooms,      \* rows: id, created_at, join_code, whether the user is a member
  creating,   \* the local variables of each creation
  storage,    \* which repository serves the list
  screen,     \* RoomsListState
  loads       \* pages that were asked for

directoryVars == <<clock, generator, minted, rooms, creating, storage, screen, loads>>
listVars == <<screen, loads>>

NotCreating == [pc |-> "idle", at |-> 0, code |-> Nothing, id |-> Nothing]
NotLoading == [pc |-> "idle", kind |-> "build", onto |-> << >>, owed |-> {},
               cursor |-> Nothing, page |-> << >>, next |-> Nothing]

DirectoryInit ==
  /\ clock = 0
  /\ generator = [lastMS |-> 0, counter |-> 0]
  /\ minted = 0
  /\ rooms = {}
  /\ creating = [c \in Creator |-> NotCreating]
  /\ storage \in {"postgres", "memory"}
  /\ screen = [there |-> FALSE, rooms |-> << >>, next |-> Nothing, loadingMore |-> FALSE,
               owed |-> {}]
  /\ loads = [l \in Load |-> NotLoading]

-----------------------------------------------------------------------------
(* Ids.                                                                    *)

\* The counter of a new millisecond starts in the lower half of its range.
Starts(ms) == { [lastMS |-> ms, counter |-> n] : n \in 0..MaxCounter \div 2 }

\* A full counter borrows from the next millisecond.
Counts ==
  IF generator.counter < MaxCounter
  THEN [generator EXCEPT !.counter = @ + 1]
  ELSE [lastMS |-> generator.lastMS + 1, counter |-> 0]

\* Mutant: the clock is believed although it was set back.
Mint_TrustsTheClock ==
  /\ minted < MaxMint
  /\ minted' = minted + 1
  /\ \/ clock # generator.lastMS /\ generator' \in Starts(clock)
     \/ clock = generator.lastMS /\ generator' = Counts

\* generator.next: one mutex holds it together. The id is lastMS, counter and
\* random bits that no order depends on.
Mint ==
  /\ minted < MaxMint
  /\ minted' = minted + 1
  /\ \/ clock > generator.lastMS /\ generator' \in Starts(clock)
     \/ clock <= generator.lastMS /\ generator' = Counts

Before(a, b) ==
  a.lastMS < b.lastMS \/ (a.lastMS = b.lastMS /\ a.counter < b.counter)

\* Users, sessions, events: everything that is stored takes its id here.
MintForOthers ==
  /\ Mint
  /\ UNCHANGED <<clock, rooms, creating, storage, listVars>>

\* Time passes, or NTP or a migrated machine sets the clock back.
ClockMoves ==
  /\ clock' \in {clock + 1, clock - 1} \cap 0..MaxClock
  /\ UNCHANGED <<generator, minted, rooms, creating, storage, listVars>>

-----------------------------------------------------------------------------
(* POST /v1/rooms.                                                         *)

CreationEnds(c) == creating' = [creating EXCEPT ![c] = NotCreating]

\* Create reads the clock first; a title, a sync mode or a content that will
\* not do ends it here.
BeginCreate(c) ==
  /\ creating[c].pc = "idle"
  /\ Cardinality(rooms) < MaxRooms
  /\ creating' = [creating EXCEPT ![c] = [NotCreating EXCEPT !.pc = "draw", !.at = clock]]
  /\ UNCHANGED <<clock, generator, minted, rooms, storage, listVars>>

JoinCodeTaken(code) == \E room \in rooms : room.live /\ room.code = code

\* allocateJoinCode: of the codes it draws it keeps the first that looks free;
\* if all of them are taken, ErrJoinCodeConflict.
AllocateJoinCode(c) ==
  /\ creating[c].pc = "draw"
  /\ \E code \in Code :
       \/ /\ ~JoinCodeTaken(code)
          /\ Mint
          /\ creating' = [creating EXCEPT ![c].pc = "insert", ![c].code = code,
                                          ![c].id = generator']
       \/ /\ JoinCodeTaken(code)
          /\ CreationEnds(c)
          /\ UNCHANGED <<generator, minted>>
  /\ UNCHANGED <<clock, rooms, storage, listVars>>

Row(c) == [id |-> creating[c].id, created |-> creating[c].at,
                   code |-> creating[c].code, live |-> TRUE, member |-> c \in Own]

\* Mutant: without the index the insert goes by the check that was made before.
CreateRoom_NoIndex(c) ==
  /\ creating[c].pc = "insert"
  /\ Cardinality(rooms) < MaxRooms
  /\ rooms' = rooms \cup {Row(c)}
  /\ CreationEnds(c)
  /\ UNCHANGED <<clock, generator, minted, storage, listVars>>

\* The partial unique index decides; a violation is answered, not retried.
CreateRoom(c) ==
  /\ creating[c].pc = "insert"
  /\ Cardinality(rooms) < MaxRooms
  /\ \/ /\ ~JoinCodeTaken(creating[c].code)
        /\ rooms' = rooms \cup {Row(c)}
     \/ JoinCodeTaken(creating[c].code) /\ UNCHANGED rooms
  /\ CreationEnds(c)
  /\ UNCHANGED <<clock, generator, minted, storage, listVars>>

\* A room ends, and its code is free again; or the user joins it.
RoomChanges(room) ==
  /\ \/ room.live /\ rooms' = (rooms \ {room}) \cup {[room EXCEPT !.live = FALSE]}
     \/ room.live /\ ~room.member /\ rooms' = (rooms \ {room}) \cup {[room EXCEPT !.member = TRUE]}
  /\ UNCHANGED <<clock, generator, minted, creating, storage, listVars>>

-----------------------------------------------------------------------------
(* GET /v1/rooms.                                                          *)

Key(room) == [created |-> room.created, id |-> room.id]
Older(a, b) == a.created < b.created \/ (a.created = b.created /\ Before(a.id, b.id))

Mine == { Key(room) : room \in { r \in rooms : r.member } }
FirstOf(s, n) == SubSeq(s, 1, IF Len(s) < n THEN Len(s) ELSE n)

\* The ways to list rooms in the order of the query: one, as no two ids are alike.
NewestFirst(keys) ==
  { s \in [1..Cardinality(keys) -> keys] :
      Range(s) = keys /\ \A i, j \in DOMAIN s : i < j => Older(s[j], s[i]) }
Rows(keys) == { FirstOf(s, Limit + 1) : s \in NewestFirst(keys) }

\* Mutant: the cursor is compared by its time alone.
RoomsForUser_ByTime(cursor) ==
  Rows(IF cursor = Nothing THEN Mine ELSE { k \in Mine : k.created < cursor.created })

\* Who has left a room, or whose room has ended, keeps it in the list.
RoomsForUser(cursor) ==
  Rows(IF cursor = Nothing THEN Mine ELSE { k \in Mine : Older(k, cursor) })

\* The query of a first page carries '' for an id, which Postgres does not
\* accept as a uuid.
FirstPageFails(cursor) == storage = "postgres" /\ cursor = Nothing

\* NewPage: the extra row only tells that there is another page.
NewPage(rows) ==
  IF Len(rows) <= Limit THEN [items |-> rows, next |-> Nothing]
  ELSE [items |-> FirstOf(rows, Limit), next |-> rows[Limit]]

\* build(), and refresh(), which runs it again.
Build(l) ==
  /\ loads[l].pc = "idle"
  /\ \A m \in Load : loads[m].pc = "idle" \/ loads[m].kind # "build"
  /\ loads' = [loads EXCEPT ![l] = [NotLoading EXCEPT !.pc = "asked"]]
  /\ UNCHANGED <<clock, generator, minted, rooms, creating, storage, screen>>

\* The list as it is now is kept for when the page arrives.
LoadMore(l) ==
  /\ loads[l].pc = "idle"
  /\ screen.there /\ screen.next # Nothing /\ ~screen.loadingMore
  /\ screen' = [screen EXCEPT !.loadingMore = TRUE]
  /\ loads' = [loads EXCEPT ![l] = [NotLoading EXCEPT
       !.pc = "asked", !.kind = "more", !.onto = screen.rooms, !.owed = screen.owed,
       !.cursor = screen.next]]
  /\ UNCHANGED <<clock, generator, minted, rooms, creating, storage>>

\* `owed` is history: the rooms there were when the first page was read, without
\* those on a page.
List(l) ==
  /\ loads[l].pc = "asked" /\ ~FirstPageFails(loads[l].cursor)
  /\ \E rows \in RoomsForUser(loads[l].cursor) :
       LET page == NewPage(rows) IN
         loads' = [loads EXCEPT ![l].pc = "answered", ![l].page = page.items, ![l].next = page.next,
           ![l].owed = (IF loads[l].kind = "build" THEN Mine ELSE @) \ Range(page.items)]
  /\ UNCHANGED <<clock, generator, minted, rooms, creating, storage, screen>>

\* Whatever is on the screen by now is replaced, by the list that the page was
\* asked for with the page after it.
Arrives(l) ==
  /\ loads[l].pc = "answered"
  /\ loads' = [loads EXCEPT ![l] = NotLoading]
  /\ screen' = [there |-> TRUE, rooms |-> loads[l].onto \o loads[l].page, loadingMore |-> FALSE,
                next |-> loads[l].next, owed |-> loads[l].owed]
  /\ UNCHANGED <<clock, generator, minted, rooms, creating, storage>>

\* The query or the network fails: the list of before is put back.
ListFails(l) ==
  /\ loads[l].pc # "idle"
  /\ loads' = [loads EXCEPT ![l] = NotLoading]
  /\ screen' = IF loads[l].kind = "build" THEN screen
               ELSE [there |-> TRUE, rooms |-> loads[l].onto, loadingMore |-> FALSE,
                     next |-> loads[l].cursor, owed |-> loads[l].owed]
  /\ UNCHANGED <<clock, generator, minted, rooms, creating, storage>>

DirectoryNext ==
  \/ ClockMoves \/ MintForOthers
  \/ \E c \in Creator :
       BeginCreate(c) \/ AllocateJoinCode(c) \/ CreateRoom(c)
  \/ \E room \in rooms : RoomChanges(room)
  \/ \E l \in Load : Build(l) \/ LoadMore(l) \/ List(l) \/ Arrives(l) \/ ListFails(l)

DirectorySpec == DirectoryInit /\ [][DirectoryNext]_directoryVars

-----------------------------------------------------------------------------
\* uuidv7.go ("Never emit a smaller timestamp than one we have already issued",
\* "two IDs minted in the same millisecond must still sort in creation order"):
\* every id sorts after the one before it, although the clock stands still or
\* goes back and the counter overflows.
IdsIncrease == [][minted' # minted => Before(generator, generator')]_directoryVars

\* EC-11: a code names at most one live room, although a code that looked free
\* may be taken before the insert, and an ended room's code is drawn again.
CodeNamesOneRoom ==
  \A r, s \in rooms : r.live /\ s.live /\ r.code = s.code => r = s

\* cursor.go ("a page boundary landing inside a group of equal timestamps drops
\* or repeats rows") and FR-59: however rooms are created, joined and ended
\* between the pages, and whichever of a refresh and a page comes first, the
\* list on the screen has no room twice, is newest first, and lacks none of the
\* user's rooms from its first page on down to its cursor.
ListIsComplete ==
  screen.there =>
    LET list == screen.rooms IN
      /\ \A i, j \in DOMAIN list : i < j => Older(list[j], list[i])
      /\ \A k \in screen.owed : screen.next # Nothing /\ Older(k, screen.next)
=============================================================================
