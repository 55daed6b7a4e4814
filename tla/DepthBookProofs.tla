-------------------------- MODULE DepthBookProofs --------------------------
(* Theorems about DepthBook, for any depth, prices, quantities and history. *)
EXTENDS DepthBook, TLAPS

Sides == {"bids", "asks"}

\* The quantity of a level does not change between two changes that leave it alone.
Steady(side, p, i, j) ==
    \A id \in (i + 1)..j : books[id][side][p] = books[id - 1][side][p]

\* The venue numbers its changes without a gap and keeps every book it had.
HistoryInv ==
    /\ Latest \in 0..MaxId /\ now \in Nat
    /\ books \in [0..Latest -> [bids : Levels, asks : Levels]]
    /\ changedAt \in [0..Latest -> 0..now]
    /\ \A side \in Sides, p \in Prices : \A i \in 0..Latest : \A j \in i..Latest :
          Steady(side, p, i, j) => books[i][side][p] = books[j][side][p]

\* A frame is about the changes after the one before it, and no change after its
\* own was made before it was published.
FrameInv ==
    /\ published \in 0..Latest
    /\ \A f \in frames :
          /\ f \in [U : Nat, u : Nat, pu : Nat, E : Nat]
          /\ f.U = f.pu + 1 /\ f.U <= f.u /\ f.u <= published /\ f.E <= now
          /\ \A id \in 0..Latest : id > f.u => changedAt[id] >= f.E

ClientTypes ==
    /\ ready \in BOOLEAN /\ covered \in BOOLEAN /\ lastId \in -1..Latest
    /\ lastReceived \in -1..now /\ lastEvent \in -1..now
    /\ bids \in Levels /\ asks \in Levels

\* What the client holds is true of the book after change lastId, also before the
\* first frame makes it ready; nothing is held after a disconnection.
HeldInv ==
    /\ lastId >= 0 =>
          \A p \in Prices : /\ bids[p] > 0 => bids[p] = books[lastId].bids[p]
                            /\ asks[p] > 0 => asks[p] = books[lastId].asks[p]
    /\ lastId >= 0 /\ covered => bids = books[lastId].bids /\ asks = books[lastId].asks
    /\ ready => lastId >= 0 /\ On(bids) # {} /\ On(asks) # {} /\ Uncrossed(bids, asks)
    /\ ready => \A id \in 0..Latest : id > lastId => changedAt[id] >= lastEvent

IInv == HistoryInv /\ FrameInv /\ ClientTypes /\ HeldInv
-----------------------------------------------------------------------------
\* The last change is the one with the highest number.
LEMMA LatestIsLast == \A m \in Nat : DOMAIN books = 0..m => Latest = m
  <1> SUFFICES ASSUME NEW m \in Nat, DOMAIN books = 0..m PROVE Latest = m
    OBVIOUS
  <1>1. m \in DOMAIN books /\ \A j \in DOMAIN books : j <= m
    OBVIOUS
  <1>2. ASSUME NEW id \in DOMAIN books, \A j \in DOMAIN books : j <= id
        PROVE  id = m
    <2>1. id \in 0..m
      OBVIOUS
    <2>2. m <= id
      BY <1>1, <1>2
    <2> QED
      BY <2>1, <2>2
  <1> QED
    BY <1>1, <1>2 DEF Latest

\* The same of the next state.
LEMMA LatestIsLastNext == (\A m \in Nat : DOMAIN books = 0..m => Latest = m)'
  BY LatestIsLast, PTL

\* Without a change, the last one is still the last.
LEMMA NoChange == UNCHANGED books => Latest' = Latest
  BY DEF Latest

\* A snapshot's level is the book's or is left out.
LEMMA SnapshotLevels ==
    ASSUME NEW side \in Sides, NEW levels \in Levels
    PROVE  /\ BestLevels(side, levels) \in Levels
           /\ \A p \in Prices : BestLevels(side, levels)[p] \in {0, levels[p]}
  BY BookBounds DEF BestLevels, Levels

\* A frame the book bridges carries every level from change lastId to its own last.
LEMMA MergeIsTrue ==
    ASSUME IInv, NEW f \in frames, NEW side \in Sides, NEW levels \in Levels,
           lastId < f.u, Bridges(f)
    PROVE  /\ Merged(levels, f, side) \in Levels
           /\ \A p \in Prices :
                 levels[p] = books[lastId][side][p] =>
                    Merged(levels, f, side)[p] = books[f.u][side][p]
           /\ \A p \in Prices :
                 Merged(levels, f, side)[p] > 0
                    /\ (levels[p] > 0 => levels[p] = books[lastId][side][p]) =>
                       Merged(levels, f, side)[p] = books[f.u][side][p]
  <1>1. /\ lastId \in 0..Latest /\ f.u \in lastId..Latest
        /\ f.U <= lastId + 1 /\ f.U \in Nat \ {0}
    <2>1. lastId \in 0..Latest
      BY DEF IInv, ClientTypes, Bridges
    <2>2. f.u \in 0..Latest /\ f.U \in Nat \ {0}
      BY DEF IInv, HistoryInv, FrameInv
    <2> QED
      BY <2>1, <2>2 DEF Bridges
  <1>2. books[f.u][side] \in Levels
    BY <1>1 DEF IInv, HistoryInv, Sides
  <1>3. ASSUME NEW p \in Prices, p \notin Touched(f, side)
        PROVE  books[lastId][side][p] = books[f.u][side][p]
    <2>1. Steady(side, p, lastId, f.u)
      BY <1>1, <1>3 DEF Steady, Touched
    <2> QED
      BY <1>1, <2>1 DEF IInv, HistoryInv
  <1> QED
    BY <1>2, <1>3 DEF Merged, Levels
-----------------------------------------------------------------------------
\* A change of the venue's book: older intervals stay steady, held levels stay true
\* of the change they were read at.
LEMMA ChangesKeeps ==
    ASSUME IInv, NEW side \in Sides, NEW p \in Prices, NEW n \in 0..MaxLots,
           Changes(side, p, n)
    PROVE  IInv'
  <1> DEFINE new == [Current EXCEPT ![side][p] = n]
  <1>1. Latest \in 0..MaxId /\ Latest + 1 \in 0..MaxId /\ DOMAIN books = 0..Latest
    BY BookBounds DEF Changes, IInv, HistoryInv
  <1>2. new \in [bids : Levels, asks : Levels]
    <2>1. Current \in [bids : Levels, asks : Levels]
      BY <1>1 DEF Current, IInv, HistoryInv
    <2>2. CASE side = "bids"
      BY <2>1, <2>2 DEF Levels
    <2>3. CASE side = "asks"
      BY <2>1, <2>3 DEF Levels
    <2> QED
      BY <2>2, <2>3 DEF Sides
  <1>3. /\ DOMAIN books' = 0..(Latest + 1)
        /\ \A j \in 0..Latest : books'[j] = books[j]
        /\ books'[Latest + 1] = new
        /\ books' \in [0..(Latest + 1) -> [bids : Levels, asks : Levels]]
    BY <1>1, <1>2 DEF Changes, IInv, HistoryInv
  <1>4. Latest' = Latest + 1
    BY <1>1, <1>3, LatestIsLastNext
  <1>5. /\ changedAt' \in [0..(Latest + 1) -> 0..now]
        /\ \A j \in 0..Latest : changedAt'[j] = changedAt[j]
        /\ changedAt'[Latest + 1] = now
    BY <1>1 DEF Changes, IInv, HistoryInv
  <1>6. UNCHANGED <<published, frames, clientVars, covered, now>>
    BY DEF Changes
  <1>7. HistoryInv'
    <2>1. ASSUME NEW s \in Sides, NEW q \in Prices, NEW i \in 0..(Latest + 1),
                 NEW j \in i..(Latest + 1), Steady(s, q, i, j)'
          PROVE  books'[i][s][q] = books'[j][s][q]
      <3>1. CASE i = j
        BY <3>1
      <3>2. CASE i # j /\ j <= Latest
        <4>1. Steady(s, q, i, j)
          BY <1>1, <1>3, <2>1, <3>2 DEF Steady
        <4> QED
          BY <1>1, <1>3, <3>2, <4>1 DEF IInv, HistoryInv
      <3>3. CASE i # j /\ j = Latest + 1
        <4>1. Steady(s, q, i, Latest)
          BY <1>1, <1>3, <2>1, <3>3 DEF Steady
        <4>2. books[i][s][q] = books[Latest][s][q]
          BY <1>1, <3>3, <4>1 DEF IInv, HistoryInv
        <4>3. books'[j][s][q] = books'[j - 1][s][q]
          BY <1>1, <2>1, <3>3 DEF Steady
        <4> QED
          BY <1>1, <1>3, <3>3, <4>2, <4>3
      <3> QED
        BY <1>1, <3>1, <3>2, <3>3
    <2> QED
      BY <1>1, <1>3, <1>4, <1>5, <1>6, <2>1 DEF HistoryInv, IInv
  <1>8. FrameInv'
    <2>1. ASSUME NEW f \in frames, NEW id \in 0..(Latest + 1), id > f.u
          PROVE  changedAt'[id] >= f.E
      <3>1. f.E \in Nat /\ f.E <= now /\ f.u \in Nat
        BY DEF IInv, FrameInv
      <3>2. CASE id \in 0..Latest
        BY <1>5, <2>1, <3>2 DEF IInv, FrameInv
      <3>3. CASE id = Latest + 1
        BY <1>5, <3>1, <3>3
      <3> QED
        BY <1>1, <3>2, <3>3
    <2>2. published \in 0..(Latest + 1)
      BY <1>1 DEF IInv, FrameInv
    <2> QED
      BY <1>4, <1>6, <2>1, <2>2 DEF FrameInv, IInv
  <1>9. ClientTypes'
    BY <1>1, <1>4, <1>6 DEF ClientTypes, clientVars, IInv
  <1>10. HeldInv'
    <2>1. lastId >= 0 => books'[lastId] = books[lastId]
      BY <1>1, <1>3 DEF IInv, ClientTypes
    <2>2. ASSUME ready, NEW id \in 0..(Latest + 1), id > lastId
          PROVE  changedAt'[id] >= lastEvent
      <3>1. CASE id \in 0..Latest
        BY <1>5, <2>2, <3>1 DEF IInv, HeldInv
      <3>2. CASE id = Latest + 1
        BY <1>5, <3>2 DEF IInv, ClientTypes, HistoryInv
      <3> QED
        BY <1>1, <3>1, <3>2
    <2> QED
      BY <1>4, <1>6, <2>1, <2>2 DEF HeldInv, clientVars, IInv
  <1> QED
    BY <1>7, <1>8, <1>9, <1>10 DEF IInv

\* The venue publishes the frame of its latest changes.
LEMMA PublishesKeeps == ASSUME IInv, Publishes PROVE IInv'
  <1>1. Latest' = Latest
    BY NoChange DEF Publishes
  <1>2. HistoryInv'
    BY <1>1 DEF Publishes, IInv, HistoryInv, Steady
  <1>3. FrameInv'
    BY <1>1 DEF Publishes, IInv, HistoryInv, FrameInv
  <1> QED
    BY <1>1, <1>2, <1>3 DEF Publishes, IInv, ClientTypes, HeldInv, clientVars

\* Time passes.
LEMMA TickKeeps == ASSUME IInv, Tick PROVE IInv'
  <1>1. Latest' = Latest
    BY NoChange DEF Tick, venueVars
  <1>2. HistoryInv'
    BY <1>1, BookBounds DEF Tick, venueVars, IInv, HistoryInv, Steady
  <1>3. FrameInv'
    BY <1>1, BookBounds DEF Tick, IInv, HistoryInv, FrameInv, venueVars
  <1>4. ClientTypes'
    BY <1>1, BookBounds DEF Tick, IInv, HistoryInv, ClientTypes, venueVars, clientVars
  <1>5. HeldInv'
    BY <1>1, BookBounds DEF Tick, IInv, HistoryInv, HeldInv, venueVars, clientVars
  <1> QED
    BY <1>2, <1>3, <1>4, <1>5 DEF IInv

\* The client's own steps leave the venue alone.
LEMMA VenueAlone == ASSUME IInv, UNCHANGED <<venueVars, now>>
                    PROVE  HistoryInv' /\ FrameInv' /\ Latest' = Latest
  <1>1. Latest' = Latest
    BY NoChange DEF venueVars
  <1> QED
    BY <1>1 DEF venueVars, IInv, HistoryInv, FrameInv, Steady

\* A bad frame or a stale top discards the book.
LEMMA DropKeeps == ASSUME IInv, BadInput PROVE IInv'
  <1>1. HistoryInv' /\ FrameInv' /\ Latest' = Latest
    BY VenueAlone DEF BadInput
  <1>2. /\ ready' = FALSE /\ lastId' = -1 /\ lastReceived' = -1 /\ lastEvent' = -1
        /\ covered' = covered /\ now' = now
    BY DEF BadInput, disconnect
  <1>3. bids' \in Levels /\ asks' \in Levels
    BY BookBounds DEF BadInput, disconnect, NoLevels, Levels
  <1>4. ready' \in BOOLEAN
    BY <1>2, Zenon
  <1>5. ClientTypes'
    BY <1>1, <1>2, <1>3, <1>4 DEF IInv, HistoryInv, ClientTypes
  <1>6. HeldInv'
    BY <1>2 DEF HeldInv
  <1> QED
    BY <1>1, <1>5, <1>6 DEF IInv

\* A snapshot replaces the book with levels of some published change.
LEMMA SnapshotKeeps == ASSUME IInv, NEW id \in DOMAIN books, Snapshot(id) PROVE IInv'
  <1>1. HistoryInv' /\ FrameInv' /\ Latest' = Latest
    BY VenueAlone DEF Snapshot
  <1>2. id \in 0..Latest /\ books[id].bids \in Levels /\ books[id].asks \in Levels
    BY DEF IInv, HistoryInv
  <1>3. /\ bids' \in Levels /\ \A p \in Prices : bids'[p] \in {0, books[id].bids[p]}
        /\ asks' \in Levels /\ \A p \in Prices : asks'[p] \in {0, books[id].asks[p]}
    BY <1>2, SnapshotLevels DEF Snapshot, Sides
  <1>4. ClientTypes'
    <2>1. ready' \in BOOLEAN /\ covered' \in BOOLEAN
      BY Zenon DEF Snapshot, Covers
    <2> QED
      BY <1>1, <1>2, <1>3, <2>1 DEF Snapshot, IInv, HistoryInv, ClientTypes
  <1>5. HeldInv'
    BY <1>1, <1>2, <1>3 DEF Snapshot, Covers, venueVars, HeldInv
  <1> QED
    BY <1>1, <1>4, <1>5 DEF IInv

\* A frame is ignored, applied, or reveals a hole and discards the book.
LEMMA ApplyKeeps == ASSUME IInv, NEW f \in frames, Apply(f) PROVE IInv'
  <1>1. HistoryInv' /\ FrameInv' /\ Latest' = Latest
    BY VenueAlone DEF Apply
  <1>2. f.u \in 0..Latest /\ f.E \in 0..now /\ lastId \in 0..Latest
    BY DEF Apply, Bridges, IInv, HistoryInv, FrameInv, ClientTypes
  <1>3. /\ bids' = Merged(bids, f, "bids") /\ asks' = Merged(asks, f, "asks")
        /\ lastId' = f.u /\ lastReceived' = now /\ lastEvent' = f.E /\ ready'
        /\ UNCHANGED <<venueVars, covered, now>> /\ Tradable(bids', asks')
    BY DEF Apply
  <1>4. /\ bids' \in Levels /\ asks' \in Levels
        /\ \A p \in Prices : /\ bids'[p] > 0 => bids'[p] = books[f.u].bids[p]
                             /\ asks'[p] > 0 => asks'[p] = books[f.u].asks[p]
    BY <1>2, <1>3, MergeIsTrue DEF Apply, Sides, IInv, ClientTypes, HeldInv
  <1>5. covered => bids' = books[f.u].bids /\ asks' = books[f.u].asks
    <2> SUFFICES ASSUME covered PROVE bids' = books[f.u].bids /\ asks' = books[f.u].asks
      OBVIOUS
    <2>1. bids = books[lastId].bids /\ asks = books[lastId].asks
      BY <1>2 DEF IInv, HeldInv
    <2>2. \A p \in Prices : bids'[p] = books[f.u].bids[p] /\ asks'[p] = books[f.u].asks[p]
      BY <1>2, <1>3, <2>1, MergeIsTrue DEF Apply, Sides, IInv, ClientTypes
    <2>3. books[f.u].bids \in Levels /\ books[f.u].asks \in Levels
      BY <1>2 DEF IInv, HistoryInv
    <2> QED
      BY <1>4, <2>2, <2>3 DEF Levels
  <1>6. ClientTypes'
    BY <1>1, <1>2, <1>3, <1>4 DEF IInv, ClientTypes, HistoryInv
  <1>7. HeldInv'
    BY <1>1, <1>2, <1>3, <1>4, <1>5 DEF IInv, HeldInv, FrameInv, Tradable, venueVars
  <1> QED
    BY <1>1, <1>6, <1>7 DEF IInv
-----------------------------------------------------------------------------
\* The inductive invariant holds.
LEMMA Invariance == Spec => []IInv
  <1>1. Init => IInv
    <2> SUFFICES ASSUME Init PROVE IInv
      OBVIOUS
    <2>1. PICK b \in Levels, a \in Levels :
             books = [id \in {0} |-> [bids |-> b, asks |-> a]]
      BY DEF Init
    <2>2. DOMAIN books = 0..0 /\ books[0] \in [bids : Levels, asks : Levels]
      BY <2>1
    <2>3. Latest = 0
      BY <2>2, LatestIsLast
    <2>4. HistoryInv
      BY <2>1, <2>2, <2>3, BookBounds DEF Init, HistoryInv
    <2>5. ClientTypes
      <3>1. ready \in BOOLEAN /\ covered \in BOOLEAN
        BY Zenon DEF Init
      <3>2. bids \in Levels /\ asks \in Levels
        BY BookBounds DEF Init, Levels, NoLevels
      <3> QED
        BY <2>3, <3>1, <3>2 DEF Init, ClientTypes
    <2> QED
      BY <2>3, <2>4, <2>5 DEF Init, IInv, FrameInv, HeldInv
  <1>2. IInv /\ [Next]_vars => IInv'
    <2> SUFFICES ASSUME IInv, [Next]_vars PROVE IInv'
      OBVIOUS
    <2>1. ASSUME UNCHANGED vars PROVE IInv'
      <3>1. HistoryInv' /\ FrameInv' /\ Latest' = Latest
        BY <2>1, VenueAlone DEF vars
      <3> QED
        BY <2>1, <3>1 DEF vars, clientVars, venueVars, IInv, ClientTypes, HeldInv
    <2>2. CASE Client
      BY <2>1, <2>2, DropKeeps, SnapshotKeeps, ApplyKeeps
      DEF Client, TopRefuses, ApplyRejects, ApplyDuplicate
    <2>3. CASE Venue
      BY <2>3, ChangesKeeps, PublishesKeeps DEF Venue, Sides
    <2> QED
      BY <2>1, <2>2, <2>3, TickKeeps DEF Next
  <1> QED
    BY <1>1, <1>2, PTL DEF Spec

\* The book's fields stay in range, and one that can be quoted has both sides and
\* they do not cross.
THEOREM TypeCorrect == Spec => []TypeOK
  <1>1. IInv => TypeOK
    BY DEF IInv, HistoryInv, FrameInv, ClientTypes, HeldInv, TypeOK
  <1> QED
    BY <1>1, Invariance, PTL

\* Whatever frames were lost, repeated or overtaken, a level that is held is the
\* venue's own as of change lastId.
THEOREM LevelsAreTrue == Spec => []HeldLevelsAreTrue
  <1>1. IInv => HeldLevelsAreTrue
    BY DEF IInv, HeldInv, HeldLevelsAreTrue
  <1> QED
    BY <1>1, Invariance, PTL

\* A snapshot that left nothing out makes top() the venue's best bid and ask.
THEOREM TopIsTrue == Spec => []TopIsVenueTop
  <1>1. IInv => TopIsVenueTop
    BY DEF IInv, HeldInv, TopIsVenueTop
  <1> QED
    BY <1>1, Invariance, PTL

\* A book that top() answers from lacks no change older than max_age_ms.
THEOREM MissingAreRecent == Spec => []MissingChangesAreRecent
  <1>1. IInv => MissingChangesAreRecent
    BY BookBounds
    DEF IInv, HistoryInv, ClientTypes, HeldInv, MissingChangesAreRecent, Fresh, InTime
  <1> QED
    BY <1>1, Invariance, PTL
=============================================================================
