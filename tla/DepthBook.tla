----------------------------- MODULE DepthBook -----------------------------
(***************************************************************************)
(* The local order book (strategy.py, DepthBook): snapshot, apply, top and *)
(* disconnect, fed by the depth read of client_session.py and the frames   *)
(* of TestnetReadOnlyTransport.depth_events.                               *)
(*                                                                         *)
(* The venue is external.  It numbers every change of one level of its     *)
(* book and publishes, now and then, one frame for the changes since the   *)
(* previous frame.  A frame may reach the client at any later time, more   *)
(* than once, out of order or never; a snapshot is the book as it was at   *)
(* any earlier change, cut to its best Depth levels.                       *)
(*                                                                         *)
(* A price is a tick in 1..Ticks and a quantity a number of lots; 0 means  *)
(* that there is no level.  A frame or a snapshot that fails validation,   *)
(* whatever the field, is BadInput.                                        *)
(***************************************************************************)
EXTENDS Integers, FiniteSets

CONSTANTS Ticks,     \* bound: prices
          MaxLots,   \* bound: quantity of a level
          Depth,     \* levels of each side in a snapshot (20 in client_session.depth)
          MaxAge,    \* max_age_ms
          MaxTime,   \* bound: the clock
          MaxId      \* bound: changes the venue numbers

ASSUME BookBounds == /\ Ticks \in Nat \ {0} /\ MaxLots \in Nat \ {0} /\ Depth \in Nat \ {0}
                     /\ MaxAge \in Nat /\ MaxTime \in Nat /\ MaxId \in Nat

VARIABLES
    \* the client
    ready, lastId, lastReceived, lastEvent, bids, asks,
    \* the venue: its book after each change, when the change was made, the last
    \* change published, and the frames published so far
    books, changedAt, published, frames,
    covered,   \* the last snapshot left no level of the venue's book out
    now

clientVars == <<ready, lastId, lastReceived, lastEvent, bids, asks>>
venueVars == <<books, changedAt, published, frames>>
vars == <<clientVars, venueVars, covered, now>>

Prices == 1..Ticks
Levels == [Prices -> 0..MaxLots]
NoLevels == [p \in Prices |-> 0]

On(levels) == {p \in Prices : levels[p] > 0}
\* The price top() answers with, as a set: empty when the side is.
Best(side, levels) ==
    {p \in On(levels) :
        \A q \in On(levels) : IF side = "bids" THEN q <= p ELSE p <= q}
Uncrossed(b, a) == \A p \in On(b), q \in On(a) : p < q
Latest == CHOOSE id \in DOMAIN books : \A j \in DOMAIN books : j <= id
Current == books[Latest]

Init == /\ ready = FALSE /\ lastId = -1 /\ lastReceived = -1 /\ lastEvent = -1
        /\ bids = NoLevels /\ asks = NoLevels
        /\ \E b, a \in Levels :
              /\ Uncrossed(b, a) /\ On(b) # {} /\ On(a) # {}
              /\ books = [id \in {0} |-> [bids |-> b, asks |-> a]]
        /\ changedAt = [id \in {0} |-> 0]
        /\ published = 0 /\ frames = {} /\ covered = FALSE
        /\ now = 0
-----------------------------------------------------------------------------
(* The venue. *)

Changes(side, p, n) ==
    LET id == Latest + 1
        new == [Current EXCEPT ![side][p] = n]
    IN  /\ id <= MaxId
        /\ Current[side][p] # n
        /\ Uncrossed(new.bids, new.asks)
        /\ books' = [j \in DOMAIN books \union {id} |-> IF j = id THEN new ELSE books[j]]
        /\ changedAt' = [j \in DOMAIN books \union {id} |->
                            IF j = id THEN now ELSE changedAt[j]]
        /\ UNCHANGED <<published, frames, clientVars, covered, now>>

\* A frame holds the new quantity of every level changed since the last one.
Publishes ==
    /\ published < Latest
    /\ frames' = frames \union
           {[U |-> published + 1, u |-> Latest, pu |-> published, E |-> now]}
    /\ published' = Latest
    /\ UNCHANGED <<books, changedAt, clientVars, covered, now>>

Touched(frame, side) ==
    {p \in Prices : \E id \in frame.U..frame.u : books[id][side][p] # books[id - 1][side][p]}

Tick == /\ now < MaxTime
        /\ now' = now + 1
        /\ UNCHANGED <<clientVars, venueVars, covered>>
-----------------------------------------------------------------------------
(* The client. *)

disconnect ==
    /\ ready' = FALSE /\ lastId' = -1 /\ lastReceived' = -1 /\ lastEvent' = -1
    /\ bids' = NoLevels /\ asks' = NoLevels

\* The application drops the book, or a snapshot or a frame is malformed.
BadInput == disconnect /\ UNCHANGED <<venueVars, covered, now>>

BestLevels(side, levels) ==
    [p \in Prices |->
        LET better == {q \in On(levels) : IF side = "bids" THEN q > p ELSE q < p}
        IN  IF Cardinality(better) < Depth THEN levels[p] ELSE 0]

Covers(id) == /\ BestLevels("bids", books[id].bids) = books[id].bids
              /\ BestLevels("asks", books[id].asks) = books[id].asks

SnapshotOnTop(id) ==                       \* mutant: the old levels are not cleared
    LET kept(old, new) == [p \in Prices |-> IF new[p] > 0 THEN new[p] ELSE old[p]]
    IN  /\ ready' = FALSE /\ lastReceived' = -1 /\ lastEvent' = -1
        /\ lastId' = id
        /\ bids' = kept(bids, BestLevels("bids", books[id].bids))
        /\ asks' = kept(asks, BestLevels("asks", books[id].asks))
        /\ covered' = Covers(id)
        /\ UNCHANGED <<venueVars, now>>
Snapshot(id) ==
    /\ ready' = FALSE /\ lastReceived' = -1 /\ lastEvent' = -1
    /\ lastId' = id
    /\ bids' = BestLevels("bids", books[id].bids)
    /\ asks' = BestLevels("asks", books[id].asks)
    /\ covered' = Covers(id)
    /\ UNCHANGED <<venueVars, now>>

EmptyLevelsStay(levels, frame, side) ==    \* mutant: a zero quantity removes nothing
    [p \in Prices |-> IF p \in Touched(frame, side) /\ books[frame.u][side][p] > 0
                      THEN books[frame.u][side][p] ELSE levels[p]]
Merged(levels, frame, side) ==
    [p \in Prices |-> IF p \in Touched(frame, side) THEN books[frame.u][side][p]
                      ELSE levels[p]]

InTime(stamp) == now - stamp \in 0..MaxAge

Bridges(f) == /\ lastId >= 0
              /\ f.U <= lastId + 1 /\ lastId + 1 <= f.u

Follows(f) == IF ready THEN f.pu = lastId ELSE f.pu <= lastId

OneSideIsEnough(b, a) == Uncrossed(b, a)   \* mutant: an empty side passes
Tradable(b, a) == On(b) # {} /\ On(a) # {} /\ Uncrossed(b, a)

\* A frame of changes the book already has: nothing happens, and it stays as old
\* as it was.
ApplyDuplicate(f) ==
    /\ InTime(f.E) /\ f.u <= lastId
    /\ UNCHANGED vars

Apply(f) ==
    LET b == Merged(bids, f, "bids")
        a == Merged(asks, f, "asks")
    IN  /\ InTime(f.E) /\ lastId < f.u
        /\ Bridges(f) /\ Follows(f)
        /\ Tradable(b, a)
        /\ bids' = b /\ asks' = a
        /\ lastId' = f.u /\ lastReceived' = now /\ lastEvent' = f.E
        /\ ready' = TRUE
        /\ UNCHANGED <<venueVars, covered, now>>

\* Stale, gapped, out of order, empty or crossed: the book is discarded.
ApplyRejects(f) ==
    LET b == Merged(bids, f, "bids")
        a == Merged(asks, f, "asks")
    IN  /\ \/ ~InTime(f.E)
           \/ /\ lastId < f.u
              /\ ~Bridges(f) \/ ~Follows(f) \/ ~Tradable(b, a)
        /\ BadInput

ReceivedInTime == ready /\ InTime(lastReceived)   \* mutant: the event's own age is not read
Fresh == ready /\ InTime(lastReceived) /\ InTime(lastEvent)

\* top either answers, changing nothing, or drops the book.
TopRefuses == ~Fresh /\ BadInput
-----------------------------------------------------------------------------
Client == \/ BadInput \/ TopRefuses
          \/ \E id \in DOMAIN books : Snapshot(id)
          \/ \E f \in frames : Apply(f) \/ ApplyDuplicate(f) \/ ApplyRejects(f)

Venue == \/ \E side \in {"bids", "asks"}, p \in Prices, n \in 0..MaxLots : Changes(side, p, n)
         \/ Publishes

Next == Client \/ Venue \/ Tick

Spec == Init /\ [][Next]_vars
-----------------------------------------------------------------------------
(* Properties. *)

\* Types; a book that can be quoted has both sides and they do not cross.
TypeOK ==
    /\ ready \in BOOLEAN /\ covered \in BOOLEAN /\ lastId \in -1..Latest
    /\ lastReceived \in -1..now /\ lastEvent \in -1..now
    /\ bids \in Levels /\ asks \in Levels
    /\ DOMAIN books \in {0..n : n \in 0..MaxId} /\ DOMAIN changedAt = DOMAIN books
    /\ \A id \in DOMAIN books : books[id] \in [bids : Levels, asks : Levels]
    /\ published \in 0..Latest
    /\ ready => On(bids) # {} /\ On(asks) # {} /\ Uncrossed(bids, asks)

\* Whatever frames were lost, repeated or overtaken, every level of a book that
\* can be quoted is the venue's own level as of change lastId.
HeldLevelsAreTrue ==
    ready => \A p \in Prices : /\ bids[p] > 0 => bids[p] = books[lastId].bids[p]
                               /\ asks[p] > 0 => asks[p] = books[lastId].asks[p]

\* When the snapshot covered the whole book, top() returns the venue's best bid and
\* ask as of change lastId.
TopIsVenueTop ==
    ready /\ covered => /\ Best("bids", bids) = Best("bids", books[lastId].bids)
                        /\ Best("asks", asks) = Best("asks", books[lastId].asks)

\* When top() answers, no change missing from the book is older than max_age_ms:
\* duplicates and late frames never make an old book look fresh.
MissingChangesAreRecent ==
    Fresh => \A id \in DOMAIN books : id > lastId => now - changedAt[id] <= MaxAge
=============================================================================
