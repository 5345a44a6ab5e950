--------------------------- MODULE DirectoryProofs ---------------------------
(***************************************************************************)
(* Theorems about Directory, for every number of requests, codes, pages    *)
(* and ids, every size of the counter, and any movement of the clock.      *)
(***************************************************************************)
EXTENDS Directory, FiniteSetTheorems, TLAPS

USE DirectoryAssumption

-----------------------------------------------------------------------------
(* The inductive invariant.                                                *)

Id == [lastMS : Nat, counter : 0..MaxCounter]
Room == [id : Id \cup {Nothing}, created : Nat, code : Code \cup {Nothing},
         live : BOOLEAN, member : BOOLEAN]
Creating == [pc : {"idle", "draw", "insert"}, at : Nat, code : Code \cup {Nothing},
             id : Id \cup {Nothing}]

DirectoryTyped ==
  /\ clock \in Nat
  /\ generator \in Id
  /\ rooms \subseteq Room
  /\ creating \in [Creator -> Creating]

IInv == DirectoryTyped /\ CodeNamesOneRoom

-----------------------------------------------------------------------------
(* Ids.                                                                    *)

\* The next id is one, and sorts after the last.
LEMMA MintIncreases ==
  ASSUME clock \in Nat, generator \in Id, Mint
  PROVE  generator' \in Id /\ Before(generator, generator')
<1>1. /\ generator.lastMS \in Nat /\ generator.counter \in 0..MaxCounter
      /\ generator = [lastMS |-> generator.lastMS, counter |-> generator.counter]
  BY DEF Id
<1>2. CASE clock > generator.lastMS /\ generator' \in Starts(clock)
  <2>1. PICK n \in 0..MaxCounter \div 2 : generator' = [lastMS |-> clock, counter |-> n]
    BY <1>2 DEF Starts
  <2>2. MaxCounter \div 2 \in 0..MaxCounter
    OBVIOUS
  <2>3. n \in 0..MaxCounter
    BY <2>1, <2>2
  <2>. QED  BY <1>1, <1>2, <2>1, <2>3 DEF Id, Before
<1>3. CASE generator' = Counts
  <2>1. CASE generator.counter < MaxCounter
    <3>1. generator' = [lastMS |-> generator.lastMS, counter |-> generator.counter + 1]
      BY <1>1, <1>3, <2>1 DEF Counts
    <3>. QED  BY <1>1, <2>1, <3>1 DEF Id, Before
  <2>2. CASE ~(generator.counter < MaxCounter)
    <3>1. generator' = [lastMS |-> generator.lastMS + 1, counter |-> 0]
      BY <1>3, <2>2 DEF Counts
    <3>. QED  BY <1>1, <3>1 DEF Id, Before
  <2>. QED  BY <2>1, <2>2
<1>. QED  BY <1>2, <1>3 DEF Mint

-----------------------------------------------------------------------------
(* Rooms.                                                                  *)

\* A new room takes a code that names no live room.
LEMMA CreateRoomKeeps ==
  ASSUME IInv, NEW c \in Creator, CreateRoom(c)
  PROVE  IInv'
<1>1. creating[c] \in Creating
  BY DEF IInv, DirectoryTyped
<1>2. Row(c) \in Room /\ Row(c).code = creating[c].code
  BY <1>1 DEF Row, Room, Creating
<1>3. creating' \in [Creator -> Creating]
  <2>1. NotCreating \in Creating
    BY DEF NotCreating, Creating
  <2>. QED  BY <2>1 DEF CreateRoom, CreationEnds, IInv, DirectoryTyped
<1>4. CASE ~JoinCodeTaken(creating[c].code) /\ rooms' = rooms \cup {Row(c)}
  <2>1. \A r \in rooms : r.live => r.code # Row(c).code
    BY <1>2, <1>4 DEF JoinCodeTaken
  <2>2. CodeNamesOneRoom'
    BY <1>4, <2>1 DEF IInv, CodeNamesOneRoom
  <2>. QED  BY <1>2, <1>3, <1>4, <2>2 DEF IInv, DirectoryTyped, CreateRoom
<1>5. CASE UNCHANGED rooms
  BY <1>3, <1>5 DEF IInv, DirectoryTyped, CreateRoom, CodeNamesOneRoom
<1>. QED  BY <1>4, <1>5 DEF CreateRoom

\* A room that changes keeps its code, and does not come back to life.
LEMMA RoomChangesKeeps ==
  ASSUME IInv, NEW room \in rooms, RoomChanges(room)
  PROVE  IInv'
<1>1. /\ room \in Room /\ room.live
      /\ UNCHANGED <<clock, generator, creating>>
  BY DEF RoomChanges, IInv, DirectoryTyped
<1>2. PICK new \in Room : new.code = room.code /\ rooms' = (rooms \ {room}) \cup {new}
  <2>1. CASE rooms' = (rooms \ {room}) \cup {[room EXCEPT !.live = FALSE]}
    <3>1. [room EXCEPT !.live = FALSE] \in Room /\ [room EXCEPT !.live = FALSE].code = room.code
      BY <1>1 DEF Room
    <3>. QED  BY <2>1, <3>1
  <2>2. CASE rooms' = (rooms \ {room}) \cup {[room EXCEPT !.member = TRUE]}
    <3>1. [room EXCEPT !.member = TRUE] \in Room /\ [room EXCEPT !.member = TRUE].code = room.code
      BY <1>1 DEF Room
    <3>. QED  BY <2>2, <3>1
  <2>. QED  BY <2>1, <2>2 DEF RoomChanges
<1>3. \A r \in rooms : r.live /\ r.code = room.code => r = room
  BY <1>1 DEF IInv, CodeNamesOneRoom
<1>4. CodeNamesOneRoom'
  <2>1. SUFFICES ASSUME NEW r \in rooms', NEW s \in rooms', r.live, s.live, r.code = s.code
                 PROVE  r = s
    BY DEF CodeNamesOneRoom
  <2>2. CASE r \in rooms \ {room} /\ s \in rooms \ {room}
    BY <2>1, <2>2 DEF IInv, CodeNamesOneRoom
  <2>3. CASE r = new \/ s = new
    BY <1>2, <1>3, <2>1, <2>3
  <2>. QED  BY <1>2, <2>1, <2>2, <2>3
<1>. QED  BY <1>1, <1>2, <1>4 DEF IInv, DirectoryTyped

\* Every step.
LEMMA DirectoryKeeps ==
  ASSUME IInv, DirectoryNext
  PROVE  IInv'
<1>1. ASSUME UNCHANGED rooms, clock' \in Nat, generator' \in Id, creating' \in [Creator -> Creating]
      PROVE  IInv'
  BY <1>1 DEF IInv, DirectoryTyped, CodeNamesOneRoom
<1>2. CASE ClockMoves
  <2>1. clock' \in Nat
    BY <1>2 DEF ClockMoves
  <2>. QED  BY <1>1, <1>2, <2>1 DEF ClockMoves, IInv, DirectoryTyped
<1>3. CASE MintForOthers
  BY <1>1, <1>3, MintIncreases DEF MintForOthers, IInv, DirectoryTyped
<1>4. ASSUME NEW c \in Creator, BeginCreate(c)
      PROVE  IInv'
  <2>1. [NotCreating EXCEPT !.pc = "draw", !.at = clock] \in Creating
    BY DEF NotCreating, Creating, IInv, DirectoryTyped
  <2>. QED  BY <1>1, <1>4, <2>1 DEF BeginCreate, IInv, DirectoryTyped
<1>5. ASSUME NEW c \in Creator, AllocateJoinCode(c)
      PROVE  IInv'
  <2>1. creating \in [Creator -> Creating] /\ generator \in Id /\ clock \in Nat
    BY DEF IInv, DirectoryTyped
  <2>2. PICK code \in Code :
          \/ Mint /\ creating' = [creating EXCEPT ![c].pc = "insert", ![c].code = code, ![c].id = generator']
          \/ CreationEnds(c) /\ UNCHANGED <<generator, minted>>
    BY <1>5 DEF AllocateJoinCode
  <2>3. CASE Mint /\ creating' = [creating EXCEPT ![c].pc = "insert", ![c].code = code, ![c].id = generator']
    <3>1. generator' \in Id
      BY <2>1, <2>3, MintIncreases
    <3>2. creating' = [creating EXCEPT ![c] = [creating[c] EXCEPT !.pc = "insert", !.code = code, !.id = generator']]
      BY <2>1, <2>3
    <3>3. [creating[c] EXCEPT !.pc = "insert", !.code = code, !.id = generator'] \in Creating
      BY <2>1, <3>1 DEF Creating
    <3>4. creating' \in [Creator -> Creating]
      BY <2>1, <3>2, <3>3
    <3>. QED  BY <1>1, <1>5, <2>1, <3>1, <3>4 DEF AllocateJoinCode
  <2>4. CASE CreationEnds(c) /\ UNCHANGED <<generator, minted>>
    <3>1. NotCreating \in Creating
      BY DEF NotCreating, Creating
    <3>. QED  BY <1>1, <1>5, <2>1, <2>4, <3>1 DEF AllocateJoinCode, CreationEnds
  <2>. QED  BY <2>2, <2>3, <2>4
<1>6. ASSUME NEW l \in Load, Build(l) \/ LoadMore(l) \/ List(l) \/ Arrives(l) \/ ListFails(l)
      PROVE  IInv'
  <2>1. UNCHANGED <<clock, generator, rooms, creating>>
    BY <1>6 DEF Build, LoadMore, List, Arrives, ListFails
  <2>. QED  BY <1>1, <2>1 DEF IInv, DirectoryTyped
<1>. QED  BY <1>2, <1>3, <1>4, <1>5, <1>6, CreateRoomKeeps, RoomChangesKeeps DEF DirectoryNext

\* Every reachable state satisfies the invariant.
THEOREM DirectoryInvariant == DirectorySpec => []IInv
<1>1. DirectoryInit => IInv
  <2>1. NotCreating \in Creating
    BY DEF NotCreating, Creating
  <2>. QED  BY <2>1 DEF DirectoryInit, IInv, DirectoryTyped, CodeNamesOneRoom, Id
<1>2. IInv /\ [DirectoryNext]_directoryVars => IInv'
  <2>1. ASSUME IInv, UNCHANGED directoryVars PROVE IInv'
    BY <2>1 DEF IInv, DirectoryTyped, CodeNamesOneRoom, directoryVars
  <2>. QED  BY <2>1, DirectoryKeeps
<1>. QED  BY <1>1, <1>2, PTL DEF DirectorySpec

\* A join code names at most one live room, however many requests draw it at once.
THEOREM CodesNameOneRoom == DirectorySpec => []CodeNamesOneRoom
<1>1. IInv => CodeNamesOneRoom
  BY DEF IInv
<1>. QED  BY <1>1, DirectoryInvariant, PTL

\* Ids sort in the order they are minted, whatever the clock does and wherever the
\* counter overflows.
THEOREM IdsSortByCreation == DirectorySpec => IdsIncrease
<1>1. IInv /\ [DirectoryNext]_directoryVars =>
        [minted' # minted => Before(generator, generator')]_directoryVars
  <2>1. ASSUME IInv, DirectoryNext, minted' # minted PROVE Mint
    BY <2>1 DEF DirectoryNext, ClockMoves, MintForOthers, BeginCreate, AllocateJoinCode, CreateRoom,
                RoomChanges, Build, LoadMore, List, Arrives, ListFails
  <2>. QED  BY <2>1, MintIncreases DEF IInv, DirectoryTyped, directoryVars
<1>. QED  BY <1>1, DirectoryInvariant, PTL DEF DirectorySpec, IdsIncrease
-----------------------------------------------------------------------------
(* The list that the app reads page by page.                               *)

Keys == [created : Nat, id : Id]
Cursor == Keys \cup {Nothing}
Screen == [there : BOOLEAN, rooms : Seq(Keys), next : Cursor, loadingMore : BOOLEAN,
           owed : SUBSET Keys]
Loading == [pc : {"idle", "asked", "answered"}, kind : {"build", "more"}, onto : Seq(Keys),
            owed : SUBSET Keys, cursor : Cursor, page : Seq(Keys), next : Cursor]

Chain(s) == \A i, j \in DOMAIN s : i < j => Older(s[j], s[i])
DownTo(s, key) == \A i \in DOMAIN s : s[i] = key \/ Older(key, s[i])

\* A list and the cursor after it: newest first, nothing on it is older than the
\* cursor, and of the rooms in `all` it owes only those past the cursor.
Covers(all, list, next, owed) ==
  /\ Chain(list)
  /\ next # Nothing => DownTo(list, next)
  /\ owed \subseteq all
  /\ \A k \in owed : next # Nothing /\ Older(k, next)

\* What a page was asked for is a list that could be on the screen, and so is
\* that list with the page after it.
Holds(all, load) ==
  /\ load.pc # "idle" /\ load.kind = "build" => load.onto = << >> /\ load.cursor = Nothing
  /\ load.pc # "idle" /\ load.kind = "more" =>
       load.cursor # Nothing /\ Covers(all, load.onto, load.cursor, load.owed)
  /\ load.pc = "answered" => Covers(all, load.onto \o load.page, load.next, load.owed)

ListTyped ==
  /\ IsFiniteSet(rooms)
  /\ \A room \in rooms : room.id \in Id
  /\ \A c \in Creator : creating[c].pc = "insert" => creating[c].id \in Id
  /\ screen \in Screen
  /\ loads \in [Load -> Loading]

ListInv ==
  /\ ListTyped
  /\ screen.there => Covers(Mine, screen.rooms, screen.next, screen.owed)
  /\ \A l \in Load : Holds(Mine, loads[l])

\* The order of the list is one.
LEMMA OlderIsTransitive ==
  ASSUME NEW a \in Keys, NEW b \in Keys, NEW c \in Keys, Older(a, b), Older(b, c)
  PROVE  Older(a, c)
<1>1. /\ a.created \in Nat /\ b.created \in Nat /\ c.created \in Nat
      /\ a.id \in Id /\ b.id \in Id /\ c.id \in Id
  BY DEF Keys
<1>2. ASSUME NEW x \in Id PROVE x.lastMS \in Nat /\ x.counter \in Nat
  BY <1>2 DEF Id
<1>3. ASSUME Before(a.id, b.id), Before(b.id, c.id) PROVE Before(a.id, c.id)
  BY <1>1, <1>2, <1>3 DEF Before
<1>. QED  BY <1>1, <1>3 DEF Older

\* The user's rooms have keys, and are finitely many.
LEMMA MineAreKeys ==
  ASSUME IInv, ListTyped
  PROVE  Mine \subseteq Keys /\ IsFiniteSet(Mine)
<1>1. ASSUME NEW r \in rooms PROVE Key(r) \in Keys
  BY <1>1 DEF Key, Keys, IInv, DirectoryTyped, Room, ListTyped
<1>. DEFINE own == { r \in rooms : r.member }
            f == [r \in own |-> Key(r)]
<1>2. IsFiniteSet(own)
  BY FS_Subset DEF ListTyped
<1>3. f \in Surjection(own, Mine)
  BY DEF Surjection, Mine
<1>4. IsFiniteSet(Mine)
  BY <1>2, <1>3, FS_Surjection
<1>. QED  BY <1>1, <1>4 DEF Mine

\* A list still covers what it covered when rooms have been added.
LEMMA CoversMore ==
  ASSUME NEW all, NEW more, all \subseteq more, NEW list, NEW next, NEW owed,
         Covers(all, list, next, owed)
  PROVE  Covers(more, list, next, owed)
BY DEF Covers

-----------------------------------------------------------------------------
(* One page.                                                               *)

\* The page that is cut from a set of rooms: in order, and every room that is
\* not on it lies past its cursor.
LEMMA PageOf ==
  ASSUME NEW S, S \subseteq Keys, IsFiniteSet(S), NEW rows \in Rows(S)
  PROVE  LET page == NewPage(rows) IN
           /\ page.items \in Seq(S) /\ page.next \in S \cup {Nothing}
           /\ Chain(page.items)
           /\ page.next # Nothing => DownTo(page.items, page.next)
           /\ \A k \in S \ Range(page.items) : page.next # Nothing /\ Older(k, page.next)
<1>. DEFINE n == Cardinality(S)
<1>1. n \in Nat
  BY FS_CardinalityType
<1>2. PICK s \in [1..n -> S] :
        /\ Range(s) = S /\ \A i, j \in DOMAIN s : i < j => Older(s[j], s[i])
        /\ rows = FirstOf(s, Limit + 1)
  BY DEF Rows, NewestFirst
<1>. HIDE DEF n
<1>3. s \in Seq(S) /\ Len(s) = n /\ DOMAIN s = 1..n
  BY <1>1, <1>2
<1>4. \A k \in S : \E i \in 1..n : s[i] = k
  BY <1>2, <1>3 DEF Range
<1>5. Limit \in Nat /\ Limit > 0
  OBVIOUS
<1>6. Nothing \notin S
  BY DEF Keys, Id
<1>7. CASE n <= Limit
  <2>1. rows = SubSeq(s, 1, n)
    BY <1>1, <1>2, <1>3, <1>5, <1>7 DEF FirstOf
  <2>2. rows = s
    BY <1>1, <1>3, <2>1
  <2>3. NewPage(rows) = [items |-> s, next |-> Nothing]
    BY <1>3, <1>7, <2>2 DEF NewPage
  <2>. QED  BY <1>2, <1>3, <2>3 DEF Chain
<1>8. CASE n > Limit
  <2>. DEFINE m == Limit + 1
  <2>1. rows = SubSeq(s, 1, m)
    BY <1>1, <1>2, <1>3, <1>5, <1>8 DEF FirstOf
  <2>2. rows \in Seq(S) /\ Len(rows) = m /\ \A i \in 1..m : rows[i] = s[i]
    BY <1>1, <1>3, <1>5, <1>8, <2>1
  <2>. DEFINE items == SubSeq(rows, 1, Limit)
  <2>3. NewPage(rows) = [items |-> items, next |-> rows[Limit]]
    BY <1>5, <2>2 DEF NewPage, FirstOf
  <2>4. /\ items \in Seq(S) /\ Len(items) = Limit /\ DOMAIN items = 1..Limit
        /\ \A i \in 1..Limit : items[i] = s[i]
    BY <1>5, <2>2
  <2>5. rows[Limit] = s[Limit] /\ s[Limit] \in S
    BY <1>2, <1>5, <1>8, <1>1, <2>2
  <2>. HIDE DEF m, items
  <2>6. Chain(items)
    BY <1>1, <1>2, <1>3, <1>5, <1>8, <2>4 DEF Chain
  <2>7. DownTo(items, s[Limit])
    <3>1. SUFFICES ASSUME NEW i \in 1..Limit PROVE items[i] = s[Limit] \/ Older(s[Limit], items[i])
      BY <2>4 DEF DownTo
    <3>2. i = Limit \/ i < Limit
      BY <1>5
    <3>. QED  BY <1>1, <1>2, <1>3, <1>5, <1>8, <2>4, <3>2
  <2>8. ASSUME NEW k \in S \ Range(items) PROVE Older(k, s[Limit])
    <3>1. PICK i \in 1..n : s[i] = k
      BY <1>4
    <3>2. ~(i \in 1..Limit)
      BY <2>4, <2>8, <3>1 DEF Range
    <3>3. i > Limit /\ Limit \in 1..n
      BY <1>1, <1>5, <1>8, <3>1, <3>2
    <3>. QED  BY <1>2, <1>3, <3>1, <3>3
  <2>. QED  BY <1>6, <2>3, <2>4, <2>5, <2>6, <2>7, <2>8
<1>. QED  BY <1>1, <1>5, <1>7, <1>8

\* A page put below a list that goes down to the cursor it was asked with.
LEMMA PageBelow ==
  ASSUME NEW all \in SUBSET Keys, NEW list \in Seq(Keys), NEW cursor \in Keys, NEW owed,
         Covers(all, list, cursor, owed),
         NEW items \in Seq({ k \in all : Older(k, cursor) }), NEW next, next \in Keys \cup {Nothing},
         next # Nothing => Older(next, cursor),
         Chain(items), next # Nothing => DownTo(items, next),
         \A k \in { k \in all : Older(k, cursor) } \ Range(items) : next # Nothing /\ Older(k, next)
  PROVE  /\ Covers(all, list, cursor, owed \ Range(items))
         /\ Covers(all, list \o items, next, owed \ Range(items))
<1>. DEFINE both == list \o items
            m == Len(list)
            n == Len(items)
<1>1. cursor # Nothing /\ m \in Nat /\ n \in Nat
  BY DEF Keys, Id
<1>2. /\ \A i \in 1..m : list[i] \in Keys /\ (list[i] = cursor \/ Older(cursor, list[i]))
      /\ \A i, j \in 1..m : i < j => Older(list[j], list[i])
      /\ owed \subseteq all /\ \A k \in owed : Older(k, cursor)
  BY <1>1 DEF Covers, DownTo, Chain
<1>3. /\ \A i \in 1..n : items[i] \in Keys /\ Older(items[i], cursor)
      /\ \A i, j \in 1..n : i < j => Older(items[j], items[i])
  BY DEF Chain
<1>4. /\ DOMAIN both = 1..(m + n)
      /\ \A i \in 1..m : both[i] = list[i]
      /\ \A i \in (m + 1)..(m + n) : both[i] = items[i - m] /\ i - m \in 1..n
  BY <1>1
<1>5. \A k \in owed \ Range(items) : next # Nothing /\ Older(k, next)
  BY <1>2
<1>6. next # Nothing => \A i \in 1..n : items[i] = next \/ Older(next, items[i])
  BY DEF DownTo
<1>. HIDE DEF both, m, n
<1>7. \A i \in 1..(m + n) : i \in 1..m \/ i \in (m + 1)..(m + n)
  BY <1>1
<1>8. Chain(both)
  <2>1. SUFFICES ASSUME NEW i \in 1..(m + n), NEW j \in 1..(m + n), i < j
                 PROVE  Older(both[j], both[i])
    BY <1>4 DEF Chain
  <2>2. CASE j \in 1..m
    <3>1. i \in 1..m
      BY <1>1, <2>1, <2>2
    <3>. QED  BY <1>2, <1>4, <2>1, <2>2, <3>1
  <2>3. CASE i \in 1..m /\ j \in (m + 1)..(m + n)
    <3>1. both[i] = list[i] /\ both[j] = items[j - m] /\ j - m \in 1..n
      BY <1>4, <2>3
    <3>2. Older(both[j], cursor) /\ both[j] \in Keys
      BY <1>3, <3>1
    <3>3. both[i] \in Keys /\ (both[i] = cursor \/ Older(cursor, both[i]))
      BY <1>2, <2>3, <3>1
    <3>. QED  BY <3>2, <3>3, OlderIsTransitive
  <2>4. CASE i \in (m + 1)..(m + n)
    <3>1. j \in (m + 1)..(m + n)
      BY <1>1, <2>1, <2>4
    <3>2. /\ both[i] = items[i - m] /\ i - m \in 1..n
          /\ both[j] = items[j - m] /\ j - m \in 1..n
      BY <1>4, <2>4, <3>1
    <3>3. i - m < j - m
      BY <1>1, <2>1
    <3>. QED  BY <1>3, <3>2, <3>3
  <2>. QED  BY <1>7, <2>2, <2>3, <2>4
<1>9. next # Nothing => DownTo(both, next)
  <2>1. SUFFICES ASSUME next # Nothing, NEW i \in 1..(m + n)
                 PROVE  both[i] = next \/ Older(next, both[i])
    BY <1>4 DEF DownTo
  <2>2. CASE i \in 1..m
    <3>1. both[i] \in Keys /\ (both[i] = cursor \/ Older(cursor, both[i]))
      BY <1>2, <1>4, <2>2
    <3>2. Older(next, cursor) /\ next \in Keys
      BY <2>1
    <3>. QED  BY <3>1, <3>2, OlderIsTransitive
  <2>3. CASE i \in (m + 1)..(m + n)
    BY <1>4, <1>6, <2>1, <2>3
  <2>. QED  BY <1>7, <2>2, <2>3
<1>10. Covers(all, both, next, owed \ Range(items))
  BY <1>2, <1>5, <1>8, <1>9 DEF Covers
<1>11. Covers(all, list, cursor, owed \ Range(items))
  BY <1>1, <1>2 DEF Covers
<1>. QED  BY <1>10, <1>11 DEF both

-----------------------------------------------------------------------------
(* The steps.                                                              *)

\* Rooms are added and changed; the list is not.
LEMMA GrowthKeeps ==
  ASSUME ListInv, ListTyped', Mine \subseteq Mine', UNCHANGED listVars
  PROVE  ListInv'
<1>1. \A l \in Load : Holds(Mine, loads[l])
  BY DEF ListInv
<1>2. ASSUME NEW l \in Load PROVE Holds(Mine', loads[l])
  BY <1>1, CoversMore DEF Holds
<1>3. screen.there => Covers(Mine', screen.rooms, screen.next, screen.owed)
  BY CoversMore DEF ListInv
<1>4. loads' = loads /\ screen' = screen
  BY DEF listVars
<1>. QED  BY <1>2, <1>3, <1>4 DEF ListInv

LEMMA CreateRoomAdds ==
  ASSUME IInv, ListInv, NEW c \in Creator, CreateRoom(c)
  PROVE  ListInv'
<1>1. Row(c).id \in Id /\ creating[c].pc = "insert"
  BY DEF CreateRoom, Row, ListInv, ListTyped
<1>2. rooms' = rooms \/ rooms' = rooms \cup {Row(c)}
  BY DEF CreateRoom
<1>3. Mine \subseteq Mine'
  BY <1>2 DEF Mine, Key
<1>4. IsFiniteSet(rooms') /\ \A room \in rooms' : room.id \in Id
  BY <1>1, <1>2, FS_AddElement DEF ListInv, ListTyped
<1>5. \A d \in Creator : creating'[d].pc = "insert" => creating'[d].id \in Id
  BY DEF CreateRoom, CreationEnds, NotCreating, ListInv, ListTyped, IInv, DirectoryTyped
<1>6. UNCHANGED listVars
  BY DEF CreateRoom
<1>7. ListTyped'
  BY <1>4, <1>5, <1>6 DEF ListInv, ListTyped, listVars
<1>. QED  BY <1>3, <1>6, <1>7, GrowthKeeps

\* A room that ends, or that the user joins, is where it was in the list.
LEMMA RoomChangesKeepsTheList ==
  ASSUME IInv, ListInv, NEW room \in rooms, RoomChanges(room)
  PROVE  ListInv'
<1>1. room \in Room /\ room.id \in Id
  BY DEF IInv, DirectoryTyped, ListInv, ListTyped
<1>2. PICK new : /\ new.id = room.id /\ new.created = room.created
                 /\ room.member => new.member
                 /\ rooms' = (rooms \ {room}) \cup {new}
  <2>1. CASE rooms' = (rooms \ {room}) \cup {[room EXCEPT !.live = FALSE]}
    <3>1. /\ [room EXCEPT !.live = FALSE].id = room.id
          /\ [room EXCEPT !.live = FALSE].created = room.created
          /\ [room EXCEPT !.live = FALSE].member = room.member
      BY <1>1 DEF Room
    <3>. QED  BY <2>1, <3>1
  <2>2. CASE rooms' = (rooms \ {room}) \cup {[room EXCEPT !.member = TRUE]}
    <3>1. /\ [room EXCEPT !.member = TRUE].id = room.id
          /\ [room EXCEPT !.member = TRUE].created = room.created
          /\ [room EXCEPT !.member = TRUE].member
      BY <1>1 DEF Room
    <3>. QED  BY <2>2, <3>1
  <2>. QED  BY <2>1, <2>2 DEF RoomChanges
<1>3. Mine \subseteq Mine'
  BY <1>2 DEF Mine, Key
<1>4. IsFiniteSet(rooms') /\ \A r \in rooms' : r.id \in Id
  BY <1>1, <1>2, FS_AddElement, FS_RemoveElement DEF ListInv, ListTyped
<1>5. UNCHANGED listVars /\ UNCHANGED creating
  BY DEF RoomChanges
<1>6. ListTyped'
  BY <1>4, <1>5 DEF ListInv, ListTyped, listVars
<1>. QED  BY <1>3, <1>5, <1>6, GrowthKeeps

\* What every step of the list leaves alone, and what is then left to show.
LEMMA ListStepKeeps ==
  ASSUME IInv, ListInv, NEW l \in Load, NEW new \in Loading,
         UNCHANGED <<rooms, creating>>, loads' = [loads EXCEPT ![l] = new],
         screen' \in Screen, Holds(Mine, new),
         screen'.there => Covers(Mine, screen'.rooms, screen'.next, screen'.owed)
  PROVE  ListInv'
<1>1. Mine' = Mine
  BY DEF Mine
<1>2. ListTyped'
  BY DEF ListInv, ListTyped
<1>3. ASSUME NEW m \in Load PROVE Holds(Mine, loads'[m])
  BY DEF ListInv, ListTyped
<1>. QED  BY <1>1, <1>2, <1>3 DEF ListInv

LEMMA NotLoadingHolds ==
  /\ NotLoading \in Loading /\ \A all : Holds(all, NotLoading)
  /\ [NotLoading EXCEPT !.pc = "asked"] \in Loading
  /\ \A all : Holds(all, [NotLoading EXCEPT !.pc = "asked"])
<1>. DEFINE asked == [NotLoading EXCEPT !.pc = "asked"]
<1>1. /\ NotLoading.pc = "idle" /\ asked.pc = "asked" /\ asked.kind = "build"
      /\ asked.onto = << >> /\ asked.cursor = Nothing
  BY DEF NotLoading
<1>2. NotLoading \in Loading /\ asked \in Loading
  <2>1. << >> \in Seq(Keys) /\ {} \in SUBSET Keys /\ Nothing \in Cursor
    BY DEF Cursor
  <2>2. NotLoading \in Loading
    BY <2>1 DEF NotLoading, Loading
  <2>. QED  BY <2>2 DEF Loading
<1>. HIDE DEF asked
<1>3. \A all : Holds(all, NotLoading) /\ Holds(all, asked)
  BY <1>1 DEF Holds
<1>. QED  BY <1>2, <1>3 DEF asked

LEMMA LoadMoreKeeps ==
  ASSUME IInv, ListInv, NEW l \in Load, LoadMore(l)
  PROVE  ListInv'
<1>. DEFINE new == [NotLoading EXCEPT
                      !.pc = "asked", !.kind = "more", !.onto = screen.rooms, !.owed = screen.owed,
                      !.cursor = screen.next]
<1>1. loads' = [loads EXCEPT ![l] = new]
  BY DEF LoadMore
<1>2. screen \in Screen /\ screen.next # Nothing
      /\ Covers(Mine, screen.rooms, screen.next, screen.owed)
  BY DEF LoadMore, ListInv, ListTyped
<1>3. new \in Loading /\ Holds(Mine, new)
  <2>1. screen.rooms \in Seq(Keys) /\ screen.owed \subseteq Keys /\ screen.next \in Cursor
    BY <1>2 DEF Screen
  <2>2. new \in Loading
    BY <2>1, NotLoadingHolds DEF Loading
  <2>3. /\ new.pc = "asked" /\ new.kind = "more" /\ new.onto = screen.rooms
        /\ new.owed = screen.owed /\ new.cursor = screen.next
    BY DEF NotLoading
  <2>. HIDE DEF new
  <2>. QED  BY <1>2, <2>2, <2>3 DEF Holds
<1>4. screen' \in Screen /\ screen'.rooms = screen.rooms /\ screen'.next = screen.next
      /\ screen'.owed = screen.owed
  BY <1>2 DEF LoadMore, Screen
<1>. QED
  <2>. HIDE DEF new
  <2>1. UNCHANGED <<rooms, creating>>
    BY DEF LoadMore
  <2>. QED  BY <1>1, <1>2, <1>3, <1>4, <2>1, ListStepKeeps

LEMMA ListKeeps ==
  ASSUME IInv, ListInv, NEW l \in Load, List(l)
  PROVE  ListInv'
<1>. DEFINE load == loads[l]
            asked == IF load.cursor = Nothing THEN Mine ELSE { k \in Mine : Older(k, load.cursor) }
<1>1. load \in Loading /\ load.pc = "asked" /\ Holds(Mine, load)
  BY DEF List, ListInv, ListTyped
<1>2. PICK rows \in Rows(asked) :
        loads' = [loads EXCEPT ![l].pc = "answered", ![l].page = NewPage(rows).items,
           ![l].next = NewPage(rows).next,
           ![l].owed = (IF loads[l].kind = "build" THEN Mine ELSE @) \ Range(NewPage(rows).items)]
  BY DEF List, RoomsForUser
<1>. DEFINE items == NewPage(rows).items
            next == NewPage(rows).next
            owed == (IF load.kind = "build" THEN Mine ELSE load.owed) \ Range(items)
            new == [load EXCEPT !.pc = "answered", !.page = items, !.next = next, !.owed = owed]
<1>3. loads' = [loads EXCEPT ![l] = new]
  <2>1. loads \in [Load -> Loading]
    BY DEF ListInv, ListTyped
  <2>. QED  BY <1>2, <2>1
<1>4. Mine \subseteq Keys /\ IsFiniteSet(Mine)
  BY MineAreKeys DEF ListInv
<1>5. asked \subseteq Mine /\ IsFiniteSet(asked)
  BY <1>4, FS_Subset
<1>. HIDE DEF asked
<1>6. /\ items \in Seq(asked) /\ next \in asked \cup {Nothing}
      /\ Chain(items)
      /\ next # Nothing => DownTo(items, next)
      /\ \A k \in asked \ Range(items) : next # Nothing /\ Older(k, next)
  BY <1>2, <1>4, <1>5, PageOf
<1>7. items \in Seq(Keys) /\ next \in Cursor
  BY <1>4, <1>5, <1>6 DEF Cursor
<1>. HIDE DEF items, next
<1>8. /\ load.kind \in {"build", "more"} /\ load.onto \in Seq(Keys) /\ load.owed \subseteq Keys
      /\ load.cursor \in Cursor
  BY <1>1 DEF Loading
<1>9. owed \subseteq Keys
  BY <1>4, <1>8
<1>. HIDE DEF load, owed
<1>10. new \in Loading
  BY <1>1, <1>7, <1>9 DEF Loading
<1>11. /\ new.pc = "answered" /\ new.kind = load.kind /\ new.onto = load.onto /\ new.owed = owed
       /\ new.cursor = load.cursor /\ new.page = items /\ new.next = next
  BY <1>1 DEF Loading
<1>. HIDE DEF new
<1>12. ASSUME load.kind = "build" PROVE Holds(Mine, new)
  <2>1. load.onto = << >> /\ load.cursor = Nothing
    BY <1>1, <1>12 DEF Holds
  <2>2. load.onto \o items = items
    BY <1>7, <2>1
  <2>3. asked = Mine
    BY <2>1 DEF asked
  <2>4. Covers(Mine, items, next, owed)
    BY <1>6, <1>12, <2>3 DEF Covers, owed
  <2>. QED  BY <1>12, <1>11, <2>1, <2>2, <2>4 DEF Holds
<1>13. ASSUME load.kind = "more" PROVE Holds(Mine, new)
  <2>1. load.cursor # Nothing /\ Covers(Mine, load.onto, load.cursor, load.owed)
    BY <1>1, <1>13 DEF Holds
  <2>2. load.cursor \in Keys /\ asked = { k \in Mine : Older(k, load.cursor) }
    BY <1>8, <2>1 DEF asked, Cursor
  <2>3. owed = load.owed \ Range(items)
    BY <1>13 DEF owed
  <2>4. /\ Covers(Mine, load.onto, load.cursor, owed)
        /\ Covers(Mine, load.onto \o items, next, owed)
    <3>1. next # Nothing => Older(next, load.cursor)
      BY <1>6, <2>2
    <3>2. next \in Keys \cup {Nothing}
      BY <1>7 DEF Cursor
    <3>. QED  BY <1>4, <1>6, <1>8, <2>1, <2>2, <2>3, <3>1, <3>2, PageBelow
  <2>. QED  BY <1>13, <1>11, <2>1, <2>4 DEF Holds
<1>14. Holds(Mine, new)
  BY <1>8, <1>12, <1>13
<1>15. UNCHANGED <<rooms, creating, screen>>
  BY DEF List
<1>16. screen \in Screen /\ (screen.there => Covers(Mine, screen.rooms, screen.next, screen.owed))
  BY DEF ListInv, ListTyped
<1>. QED  BY <1>3, <1>10, <1>14, <1>15, <1>16, ListStepKeeps

LEMMA BuildKeeps ==
  ASSUME IInv, ListInv, NEW l \in Load, Build(l)
  PROVE  ListInv'
<1>1. UNCHANGED <<rooms, creating, screen>>
      /\ loads' = [loads EXCEPT ![l] = [NotLoading EXCEPT !.pc = "asked"]]
  BY DEF Build
<1>2. screen \in Screen /\ (screen.there => Covers(Mine, screen.rooms, screen.next, screen.owed))
  BY DEF ListInv, ListTyped
<1>. QED  BY <1>1, <1>2, NotLoadingHolds, ListStepKeeps

\* A page, or the list of before, is put on the screen.
LEMMA ArrivesKeeps ==
  ASSUME IInv, ListInv, NEW l \in Load, Arrives(l) \/ ListFails(l)
  PROVE  ListInv'
<1>1. UNCHANGED <<rooms, creating>> /\ loads' = [loads EXCEPT ![l] = NotLoading]
  BY DEF Arrives, ListFails
<1>2. loads[l] \in Loading /\ Holds(Mine, loads[l])
  BY DEF ListInv, ListTyped
<1>3. /\ loads[l].onto \in Seq(Keys) /\ loads[l].page \in Seq(Keys)
      /\ loads[l].onto \o loads[l].page \in Seq(Keys)
      /\ loads[l].next \in Cursor /\ loads[l].cursor \in Cursor /\ loads[l].owed \subseteq Keys
      /\ loads[l].kind \in {"build", "more"}
  BY <1>2 DEF Loading
<1>4. CASE Arrives(l)
  <2>1. screen' = [there |-> TRUE, rooms |-> loads[l].onto \o loads[l].page, loadingMore |-> FALSE,
                   next |-> loads[l].next, owed |-> loads[l].owed]
    BY <1>4 DEF Arrives
  <2>2. screen' \in Screen
    BY <1>3, <2>1 DEF Screen
  <2>3. Covers(Mine, loads[l].onto \o loads[l].page, loads[l].next, loads[l].owed)
    BY <1>2, <1>4 DEF Arrives, Holds
  <2>. QED  BY <1>1, <2>1, <2>2, <2>3, NotLoadingHolds, ListStepKeeps
<1>5. CASE ListFails(l) /\ loads[l].kind = "build"
  <2>1. screen' = screen
    BY <1>5 DEF ListFails
  <2>2. screen \in Screen /\ (screen.there => Covers(Mine, screen.rooms, screen.next, screen.owed))
    BY DEF ListInv, ListTyped
  <2>. QED  BY <1>1, <2>1, <2>2, NotLoadingHolds, ListStepKeeps
<1>6. CASE ListFails(l) /\ loads[l].kind = "more"
  <2>1. screen' = [there |-> TRUE, rooms |-> loads[l].onto, loadingMore |-> FALSE,
                   next |-> loads[l].cursor, owed |-> loads[l].owed]
    BY <1>6 DEF ListFails
  <2>2. screen' \in Screen
    BY <1>3, <2>1 DEF Screen
  <2>3. Covers(Mine, loads[l].onto, loads[l].cursor, loads[l].owed)
    BY <1>2, <1>6 DEF ListFails, Holds
  <2>. QED  BY <1>1, <2>1, <2>2, <2>3, NotLoadingHolds, ListStepKeeps
<1>. QED  BY <1>3, <1>4, <1>5, <1>6

LEMMA ListInvKept ==
  ASSUME IInv, ListInv, DirectoryNext
  PROVE  ListInv'
<1>1. ASSUME UNCHANGED <<rooms, screen, loads>>,
             \A c \in Creator : creating'[c].pc = "insert" => creating'[c].id \in Id
      PROVE  ListInv'
  <2>1. ListTyped' /\ Mine' = Mine
    BY <1>1 DEF ListInv, ListTyped, Mine
  <2>. QED  BY <1>1, <2>1 DEF ListInv
<1>2. CASE ClockMoves
  BY <1>1, <1>2 DEF ClockMoves, listVars, ListInv, ListTyped
<1>3. CASE MintForOthers
  BY <1>1, <1>3 DEF MintForOthers, listVars, ListInv, ListTyped
<1>4. ASSUME NEW c \in Creator, BeginCreate(c)
      PROVE  ListInv'
  <2>1. ASSUME NEW d \in Creator, creating'[d].pc = "insert" PROVE creating'[d].id \in Id
    <3>1. d # c
      BY <1>4, <2>1 DEF BeginCreate, NotCreating, IInv, DirectoryTyped
    <3>. QED  BY <1>4, <2>1, <3>1 DEF BeginCreate, IInv, DirectoryTyped, ListInv, ListTyped
  <2>. QED  BY <1>1, <1>4, <2>1 DEF BeginCreate, listVars
<1>5. ASSUME NEW c \in Creator, AllocateJoinCode(c)
      PROVE  ListInv'
  <2>1. creating \in [Creator -> Creating] /\ generator \in Id /\ clock \in Nat
    BY DEF IInv, DirectoryTyped
  <2>2. PICK code \in Code :
          \/ Mint /\ creating' = [creating EXCEPT ![c].pc = "insert", ![c].code = code, ![c].id = generator']
          \/ CreationEnds(c) /\ UNCHANGED <<generator, minted>>
    BY <1>5 DEF AllocateJoinCode
  <2>3. ASSUME NEW d \in Creator, creating'[d].pc = "insert" PROVE creating'[d].id \in Id
    <3>1. CASE d = c
      <4>1. creating'[c].pc = "insert" => Mint /\ creating'[c].id = generator'
        BY <2>1, <2>2 DEF CreationEnds, NotCreating, Creating
      <4>. QED  BY <2>1, <2>3, <3>1, <4>1, MintIncreases
    <3>2. CASE d # c
      BY <2>1, <2>2, <2>3, <3>2 DEF CreationEnds, ListInv, ListTyped
    <3>. QED  BY <3>1, <3>2
  <2>. QED  BY <1>1, <1>5, <2>3 DEF AllocateJoinCode, listVars
<1>. QED
  BY <1>2, <1>3, <1>4, <1>5, CreateRoomAdds, RoomChangesKeepsTheList, BuildKeeps, LoadMoreKeeps,
     ListKeeps, ArrivesKeeps DEF DirectoryNext

\* However rooms are created, joined and ended between the pages, for every size of a
\* page and any number of pages under way, the list on the screen has no room twice, is
\* newest first, and lacks none of the rooms of its first page on down to its cursor.
THEOREM NoRoomIsMissedOrRepeated == DirectorySpec => []ListIsComplete
<1>1. DirectoryInit => ListInv
  <2>1. \A l \in Load : loads[l] = NotLoading => Holds(Mine, loads[l])
    BY NotLoadingHolds
  <2>2. ASSUME DirectoryInit
        PROVE  ListTyped /\ ~screen.there /\ \A l \in Load : loads[l] = NotLoading
    <3>1. screen \in Screen
      BY <2>2 DEF DirectoryInit, Screen, Cursor
    <3>2. loads \in [Load -> Loading]
      BY <2>2, NotLoadingHolds DEF DirectoryInit
    <3>. QED  BY <2>2, <3>1, <3>2, FS_EmptySet DEF DirectoryInit, ListTyped, NotCreating
  <2>. QED  BY <2>1, <2>2 DEF ListInv
<1>2. IInv /\ ListInv /\ [DirectoryNext]_directoryVars => ListInv'
  <2>1. ASSUME ListInv, UNCHANGED directoryVars PROVE ListInv'
    <3>1. ListTyped' /\ Mine' = Mine
      BY <2>1 DEF ListInv, ListTyped, Mine, directoryVars
    <3>. QED  BY <2>1, <3>1 DEF ListInv, directoryVars
  <2>. QED  BY <2>1, ListInvKept
<1>3. ListInv => ListIsComplete
  BY DEF ListInv, ListIsComplete, Covers, Chain
<1>. QED  BY <1>1, <1>2, <1>3, DirectoryInvariant, PTL DEF DirectorySpec
=============================================================================
