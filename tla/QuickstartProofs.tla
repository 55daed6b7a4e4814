-------------------------- MODULE QuickstartProofs --------------------------
(* Theorems about Quickstart: the trade under any contexts, and the demonstration *)
(* with any number of quotes.                                                     *)
EXTENDS Quickstart, TLAPS

Ids == 1..Quotes

\* The demonstration's records: the acknowledged orders are the first quotes, all of
\* them unless an exception is on its way, and they are dealt with in order.
DemoTypes ==
    /\ demoAt \in {"submit", "cleanup", "pass", "raised"} /\ k \in Nat \ {0}
    /\ orders \in [Ids -> {"absent", "NEW", "CANCELED"}]
    /\ acknowledged \subseteq Ids /\ demoOpen \subseteq acknowledged
    /\ demoUncertain \subseteq Ids /\ failures \in Nat
    /\ raising \in BOOLEAN /\ demoHalted \in BOOLEAN

Submitted ==
    demoAt = "submit" =>
        /\ k <= Quotes + 1 /\ acknowledged = 1..(k - 1) /\ demoOpen = acknowledged
        /\ demoUncertain = {} /\ failures = 0 /\ ~raising
        /\ \A i \in Ids : orders[i] = IF i < k THEN "NEW" ELSE "absent"

CleanedUp ==
    demoAt # "submit" =>
        /\ \E m \in 0..Quotes : acknowledged = 1..m
        /\ \A i \in acknowledged : i < k => orders[i] = "CANCELED" \/ i \in demoUncertain
        /\ \A i \in acknowledged : i >= k => i \in demoOpen
        /\ \A i \in Ids \ acknowledged : orders[i] = "NEW" => i \in demoUncertain
        /\ ~raising => acknowledged = Ids
        /\ ~raising /\ failures = 0 => demoUncertain = {}
        /\ Demo!Ended => k \notin acknowledged

DemoInv == DemoTypes /\ Submitted /\ CleanedUp /\ PassMeansClean

\* The trade's variables, and the one command that is on the wire at a time.
TradeTypes ==
    /\ at \in Steps \union {"start", "demo", "public", "watch"}
    /\ settings \in [mode : MODES, flag : BOOLEAN, priced : BOOLEAN,
                     valid : BOOLEAN, show : BOOLEAN]
    /\ pin \in Contexts \union {None} /\ registry \in Contexts \union {None}
    /\ published \in Contexts /\ readings \subseteq Contexts
    /\ wire \in {{}, {"submit"}, {"cancel"}} /\ uncertain \subseteq {"submit", "cancel"}
    /\ reply \in {"none", "NEW", "CANCELED", "receipt", "refused"}
    /\ order \in Statuses /\ proj \in Statuses
    /\ {open, pending, receipt, halted} \subseteq BOOLEAN

Asked == settings.mode = "trade" /\ settings.flag /\ settings.priced /\ ~settings.show
Before == {"start", "discover", "signin", "account", "market", "prepare", "submit"}
Sent == wire # {} \/ order # "absent"

\* Each mode has its own steps, and only a run that asks for orders trades.
ModeInv ==
    /\ at = "demo" => settings.mode = "offline"
    /\ at = "public" => settings.mode = "public"
    /\ at = "watch" => settings.mode = "stream"
    /\ settings.mode = "trade" /\ at \notin {"start", "returned", "raised"} => Asked
    /\ settings.mode = "trade" /\ ~settings.show /\ at = "returned" => Asked
    /\ Sent \/ readings # {} => Asked

\* From the first reading on every reading is of the client's registry, which the
\* order is signed for.
ContextInv ==
    /\ at \in {"start", "discover"} => readings = {} /\ registry = pin
    /\ settings.mode = "trade" /\ at \in Steps \ {"discover", "returned", "raised"} =>
          readings = {registry} /\ registry # None
    /\ at = "submit" => signed = registry /\ pin \in {None, registry}
    /\ Sent => readings = {signed} /\ pin \in {None, signed}

\* What is on its way, at each step of the process.
CommandInv ==
    /\ reply # "none" => wire = {}
    /\ at \in Before => wire = {} /\ reply = "none" /\ uncertain = {} /\ order = "absent"
    /\ at \in Before \union {"placing"} => ~receipt
    /\ at = "placing" =>
          /\ wire \subseteq {"submit"} /\ "submit" \in uncertain
          /\ reply \in {"none", "NEW", "refused"} /\ uncertain = {"submit"}
    /\ reply = "NEW" \/ at \in {"cancel", "cancelling", "query"} => order # "absent"
    /\ "submit" \in wire => order = "absent" /\ ~receipt
    /\ at = "cancel" => wire = {} /\ reply = "none" /\ uncertain = {}
    /\ at = "cancelling" =>
          /\ wire \subseteq {"cancel"} /\ uncertain = {"cancel"} /\ reply # "NEW"
    /\ at = "query" => wire = {} /\ reply = "none" /\ uncertain = {}

\* What the client knows of the order's end is true at the venue, and what it does
\* not know is on its record, at every step and not only when the run is left.
RecordInv ==
    /\ Terminal(proj) => order = proj
    /\ reply = "CANCELED" => order = "CANCELED"
    /\ "cancel" \in wire => "cancel" \in uncertain
    /\ order = "NEW" \/ "submit" \in wire => open \/ "submit" \in uncertain
    /\ order = "NEW" /\ (receipt \/ "cancel" \in wire) => pending \/ "cancel" \in uncertain

TradeInv == /\ TradeTypes /\ ModeInv /\ ContextInv /\ CommandInv /\ RecordInv
            /\ TradeReturnsSettled

IInv == DemoInv /\ TradeInv
-----------------------------------------------------------------------------
\* A step of the demonstration keeps its records in order.
LEMMA DemoKeeps == DemoInv /\ Demo!Next => DemoInv'
  <1> USE QuotesAssumption
      DEF DemoInv, DemoTypes, Submitted, CleanedUp, PassMeansClean, Demo!PassMeansClean,
          Demo!Ended, Demo!Ids, Ids
  <1>1. ASSUME DemoInv, Demo!SubmitAcked PROVE DemoInv'
    BY <1>1 DEF Demo!SubmitAcked, Demo!Submitting
  <1>2. ASSUME DemoInv, Demo!SubmitUnknown PROVE DemoInv'
    BY <1>2 DEF Demo!SubmitUnknown, Demo!Submitting, Demo!BeginCleanup
  <1>3. ASSUME DemoInv, Demo!PrepareFails PROVE DemoInv'
    BY <1>3 DEF Demo!PrepareFails, Demo!Submitting, Demo!BeginCleanup
  <1>4. ASSUME DemoInv, Demo!AllSubmitted PROVE DemoInv'
    BY <1>4 DEF Demo!AllSubmitted, Demo!BeginCleanup
  <1>5. ASSUME DemoInv, Demo!CancelConfirmed PROVE DemoInv'
    BY <1>5 DEF Demo!CancelConfirmed, Demo!CleaningUp
  <1>6. ASSUME DemoInv, Demo!CancelUnknown PROVE DemoInv'
    BY <1>6 DEF Demo!CancelUnknown, Demo!CleaningUp, Demo!CancelLost
  <1>7. ASSUME DemoInv, Demo!Finish PROVE DemoInv'
    BY <1>7 DEF Demo!Finish
  <1> QED
    BY <1>1, <1>2, <1>3, <1>4, <1>5, <1>6, <1>7 DEF Demo!Next

\* A step of the process in a trade: reads and checks, then the two commands.
LEMMA TradeKeeps == ASSUME TradeInv, TradeStep PROVE TradeInv'
  <1> USE TradeConstants
      DEF TradeInv, TradeTypes, ModeInv, ContextInv, CommandInv, RecordInv, TradeReturnsSettled,
          ReturnedIsSettled, Asked, Before, Sent, Steps, Terminal, Statuses, client, book
  <1>1. settings.mode = "trade" /\ UNCHANGED settings
    BY DEF TradeStep
  <1>2. ASSUME OpenAccount PROVE TradeInv'
    BY <1>1, <1>2 DEF OpenAccount, Discover, Unchanged
  <1>3. ASSUME SignIn PROVE TradeInv'
    BY <1>1, <1>3 DEF SignIn
  <1>4. ASSUME ReadAccount PROVE TradeInv'
    BY <1>1, <1>4 DEF ReadAccount
  <1>5. ASSUME ReadMarket PROVE TradeInv'
    BY <1>1, <1>5 DEF ReadMarket, Discover, Unchanged
  <1>6. ASSUME PrepareOrder PROVE TradeInv'
    BY <1>1, <1>6 DEF PrepareOrder
  <1>7. ASSUME Raises PROVE TradeInv'
    <2>1. TradeTypes'
      BY <1>1, <1>7 DEF Raises
    <2>2. (ModeInv /\ ContextInv)'
      BY <1>1, <1>7 DEF Raises
    <2>3. CommandInv'
      BY <1>1, <1>7 DEF Raises
    <2>4. (RecordInv /\ TradeReturnsSettled)'
      BY <1>1, <1>7 DEF Raises
    <2> QED
      BY <2>1, <2>2, <2>3, <2>4
  <1>8. ASSUME SubmitOrder PROVE TradeInv'
    BY <1>1, <1>8 DEF SubmitOrder
  <1>9. ASSUME SubmitAcked PROVE TradeInv'
    BY <1>1, <1>9 DEF SubmitAcked
  <1>10. ASSUME CancelOrder PROVE TradeInv'
    <2>1. TradeTypes'
      BY <1>1, <1>10 DEF CancelOrder
    <2>2. (ModeInv /\ ContextInv)'
      BY <1>1, <1>10 DEF CancelOrder
    <2>3. CommandInv'
      BY <1>1, <1>10 DEF CancelOrder
    <2>4. (RecordInv /\ TradeReturnsSettled)'
      BY <1>1, <1>10 DEF CancelOrder
    <2> QED
      BY <2>1, <2>2, <2>3, <2>4
  <1>11. ASSUME CancelAcked PROVE TradeInv'
    <2>1. TradeTypes'
      BY <1>1, <1>11 DEF CancelAcked, Settle
    <2>2. (ModeInv /\ ContextInv)'
      BY <1>1, <1>11 DEF CancelAcked, Settle
    <2>3. CommandInv'
      BY <1>1, <1>11 DEF CancelAcked, Settle
    <2>4. (RecordInv /\ TradeReturnsSettled)'
      BY <1>1, <1>11 DEF CancelAcked, Settle
    <2> QED
      BY <2>1, <2>2, <2>3, <2>4
  <1>12. ASSUME OutcomeUnknown PROVE TradeInv'
    BY <1>1, <1>12 DEF OutcomeUnknown
  <1>13. ASSUME QueryOrder PROVE TradeInv'
    BY <1>1, <1>13 DEF QueryOrder
  <1> QED
    BY <1>2, <1>3, <1>4, <1>5, <1>6, <1>7, <1>8, <1>9, <1>10, <1>11, <1>12, <1>13
    DEF TradeStep, Process

\* A step of the venue in a trade.
LEMMA VenueKeeps == ASSUME TradeInv, VenueStep PROVE TradeInv'
  <1> USE TradeConstants
      DEF TradeInv, TradeTypes, ModeInv, ContextInv, CommandInv, RecordInv, TradeReturnsSettled,
          ReturnedIsSettled, Asked, Before, Sent, Steps, Terminal, Statuses, client, book
  <1>1. settings.mode = "trade" /\ UNCHANGED settings /\ at # "start"
    BY DEF VenueStep
  <1>2. ASSUME Rotates PROVE TradeInv'
    BY <1>1, <1>2 DEF Rotates
  <1>3. ASSUME VenuePlaces PROVE TradeInv'
    <2>1. TradeTypes'
      <3> HIDE DEF ModeInv, ContextInv, RecordInv, TradeReturnsSettled
      <3>1. at' = at /\ UNCHANGED client /\ UNCHANGED <<published, proj>>
        BY <1>1, <1>3 DEF VenuePlaces
      <3>2. wire' = {}
        BY <1>1, <1>3 DEF VenuePlaces
      <3>3. /\ reply' \in {"none", "NEW", "CANCELED", "receipt", "refused"}
            /\ order' \in Statuses /\ receipt' \in BOOLEAN
        BY <1>1, <1>3 DEF VenuePlaces
      <3> QED
        BY <1>1, <3>1, <3>2, <3>3
    <2>2. (ModeInv /\ ContextInv)'
      BY <1>1, <1>3 DEF VenuePlaces
    <2>3. CommandInv'
      BY <1>1, <1>3 DEF VenuePlaces
    <2>4. (RecordInv /\ TradeReturnsSettled)'
      BY <1>1, <1>3 DEF VenuePlaces
    <2> QED
      BY <2>1, <2>2, <2>3, <2>4
  <1>4. ASSUME VenueCancels PROVE TradeInv'
    <2>1. TradeTypes'
      <3> HIDE DEF ModeInv, ContextInv, RecordInv, TradeReturnsSettled
      <3>1. at' = at /\ UNCHANGED client /\ UNCHANGED <<published, proj>>
        BY <1>1, <1>4 DEF VenueCancels
      <3>2. wire' = {}
        BY <1>1, <1>4 DEF VenueCancels
      <3>3. /\ reply' \in {"none", "NEW", "CANCELED", "receipt", "refused"}
            /\ order' \in Statuses /\ receipt' \in BOOLEAN
        BY <1>1, <1>4 DEF VenueCancels
      <3> QED
        BY <1>1, <3>1, <3>2, <3>3
    <2>2. (ModeInv /\ ContextInv)'
      BY <1>1, <1>4 DEF VenueCancels
    <2>3. CommandInv'
      BY <1>1, <1>4 DEF VenueCancels
    <2>4. (RecordInv /\ TradeReturnsSettled)'
      BY <1>1, <1>4 DEF VenueCancels
    <2> QED
      BY <2>1, <2>2, <2>3, <2>4
  <1>5. ASSUME ReceiptCarriedOut PROVE TradeInv'
    <2>1. TradeTypes'
      <3> HIDE DEF ModeInv, ContextInv, RecordInv, TradeReturnsSettled
      <3>1. at' = at /\ UNCHANGED client /\ UNCHANGED <<published, proj>>
        BY <1>1, <1>5 DEF ReceiptCarriedOut
      <3>2. wire' = wire
        BY <1>1, <1>5 DEF ReceiptCarriedOut
      <3>3. /\ reply' \in {"none", "NEW", "CANCELED", "receipt", "refused"}
            /\ order' \in Statuses /\ receipt' \in BOOLEAN
        BY <1>1, <1>5 DEF ReceiptCarriedOut
      <3> QED
        BY <1>1, <3>1, <3>2, <3>3
    <2>2. (ModeInv /\ ContextInv)'
      BY <1>1, <1>5 DEF ReceiptCarriedOut
    <2>3. CommandInv'
      BY <1>1, <1>5 DEF ReceiptCarriedOut
    <2>4. (RecordInv /\ TradeReturnsSettled)'
      BY <1>1, <1>5 DEF ReceiptCarriedOut
    <2> QED
      BY <2>1, <2>2, <2>3, <2>4
  <1>6. ASSUME OrderEnds PROVE TradeInv'
    BY <1>1, <1>6 DEF OrderEnds
  <1>7. ASSUME Lost PROVE TradeInv'
    BY <1>1, <1>7 DEF Lost
  <1>8. ASSUME Projects PROVE TradeInv'
    BY <1>1, <1>8 DEF Projects
  <1> QED
    BY <1>2, <1>3, <1>4, <1>5, <1>6, <1>7, <1>8 DEF VenueStep, Venue

\* The other modes, and the choice between them, touch no order and no reading.
LEMMA OthersKeep ==
    ASSUME TradeInv,
           Dispatches \/ DemoSetupFails \/ DemoStep \/ DemoEnds \/ PublicReads \/ PrivateStep
    PROVE  TradeInv'
  <1> USE DEF TradeInv, TradeTypes, ModeInv, ContextInv, CommandInv, RecordInv,
              TradeReturnsSettled, ReturnedIsSettled, Asked, Before, Sent, Steps, Terminal,
              Statuses, client, book, trade, vars
  <1>1. CASE Dispatches
    BY <1>1 DEF Dispatches, Runnable, FlagFits, FirstStep, MODES
  <1>2. CASE DemoSetupFails \/ DemoEnds
    <2>1. UNCHANGED <<trade, settings>> /\ at = "demo" /\ at' \in {"returned", "raised"}
      BY <1>2 DEF DemoSetupFails, DemoEnds
    <2>2. TradeTypes'
      <3> HIDE DEF ModeInv, ContextInv, RecordInv, TradeReturnsSettled
      <3> QED
        BY <2>1
    <2>3. (ModeInv /\ ContextInv)'
      BY <2>1
    <2>4. (CommandInv /\ RecordInv /\ TradeReturnsSettled)'
      BY <2>1
    <2> QED
      BY <2>2, <2>3, <2>4
  <1>3. CASE DemoStep
    BY <1>3 DEF DemoStep
  <1>4. CASE PublicReads
    BY <1>4 DEF PublicReads
  <1>5. CASE PrivateStep
    <2>1. settings.mode \in {"private", "stream"} /\ UNCHANGED <<settings, demo>>
      BY <1>5 DEF PrivateStep
    <2>2. ASSUME SignIn PROVE TradeInv'
      BY <2>1, <2>2 DEF SignIn
    <2>3. ASSUME ReadsAccountOnly PROVE TradeInv'
      BY <2>1, <2>3 DEF ReadsAccountOnly
    <2>4. ASSUME Watches PROVE TradeInv'
      BY <2>1, <2>4 DEF Watches
    <2>5. ASSUME Raises, at \in {"signin", "account"} PROVE TradeInv'
      <3>1. TradeTypes'
        <4> HIDE DEF ModeInv, ContextInv, RecordInv, TradeReturnsSettled
        <4>1. /\ at' = "raised"
              /\ UNCHANGED <<pin, registry, readings, open, pending, uncertain, published,
                             book, settings>>
          BY <2>1, <2>5 DEF Raises
        <4>2. halted' \in BOOLEAN
          BY <2>5 DEF Raises
        <4> QED
          BY <4>1, <4>2
      <3>2. (ModeInv /\ ContextInv /\ CommandInv)'
        BY <2>1, <2>5 DEF Raises
      <3>3. (RecordInv /\ TradeReturnsSettled)'
        BY <2>1, <2>5 DEF Raises
      <3> QED
        BY <3>1, <3>2, <3>3
    <2> QED
      BY <1>5, <2>2, <2>3, <2>4, <2>5 DEF PrivateStep
  <1> QED
    BY <1>1, <1>2, <1>3, <1>4, <1>5

\* The inductive invariant holds.
LEMMA Invariance == RunSpec => []IInv
  <1>1. RunInit => IInv
    <2> SUFFICES ASSUME RunInit PROVE IInv
      OBVIOUS
    <2>1. DemoInv
      <3>1. DemoTypes
        <4>1. /\ demoAt = "submit" /\ k = 1 /\ failures = 0
              /\ raising = FALSE /\ demoHalted = FALSE
              /\ acknowledged = {} /\ demoOpen = {} /\ demoUncertain = {}
          BY DEF RunInit, Demo!Init
        <4>2. orders \in [Ids -> {"absent", "NEW", "CANCELED"}]
          BY DEF RunInit, Demo!Init, Demo!Ids, Ids
        <4>3. raising \in BOOLEAN /\ demoHalted \in BOOLEAN
          BY <4>1, Zenon
        <4> QED
          BY <4>1, <4>2, <4>3 DEF DemoTypes
      <3>2. Submitted
        BY QuotesAssumption DEF RunInit, Demo!Init, Submitted, Demo!Ids, Ids
      <3> QED
        BY <3>1, <3>2
        DEF RunInit, Demo!Init, DemoInv, CleanedUp, PassMeansClean, Demo!PassMeansClean
    <2>2. TradeTypes
      BY TradeConstants DEF RunInit, InitAt, TradeTypes, Steps, Statuses
    <2>3. ModeInv /\ ContextInv /\ CommandInv /\ RecordInv /\ TradeReturnsSettled
      BY TradeConstants
      DEF RunInit, InitAt, ModeInv, ContextInv, CommandInv, RecordInv, TradeReturnsSettled,
          ReturnedIsSettled, Asked, Before, Sent, Terminal, Steps
    <2> QED
      BY <2>1, <2>2, <2>3 DEF IInv, TradeInv
  <1>2. IInv /\ [RunNext]_runVars => IInv'
    <2> SUFFICES ASSUME IInv, [RunNext]_runVars PROVE IInv'
      OBVIOUS
    <2>1. ASSUME UNCHANGED demo PROVE DemoInv'
      BY <2>1 DEF demo, IInv, DemoInv, DemoTypes, Submitted, CleanedUp, PassMeansClean,
         Demo!PassMeansClean, Demo!Ended, Demo!Ids
    <2>2. DemoInv'
      <3>1. CASE DemoStep
        BY <3>1, DemoKeeps DEF DemoStep, IInv
      <3>2. CASE ~DemoStep
        BY <2>1, <3>2
        DEF RunNext, Program, Dispatches, DemoSetupFails, DemoEnds, PublicReads,
           PrivateStep, TradeStep, VenueStep, runVars
      <3> QED
        BY <3>1, <3>2
    <2>3. ASSUME UNCHANGED runVars PROVE TradeInv'
      BY <2>3
      DEF runVars, vars, client, book, IInv, TradeInv, TradeTypes, ModeInv, ContextInv,
         CommandInv, RecordInv, TradeReturnsSettled, ReturnedIsSettled, Asked, Sent
    <2> QED
      BY <2>2, <2>3, TradeKeeps, VenueKeeps, OthersKeep DEF IInv, RunNext, Program
  <1> QED
    BY <1>1, <1>2, PTL DEF RunSpec

\* The demonstration, with any number of quotes, prints PASS only when every quote
\* was placed and cancelled with certainty.
THEOREM PassIsClean == RunSpec => []PassMeansClean
  BY Invariance, PTL DEF IInv, DemoInv

\* However it ends, each acknowledged order was cancelled or had its attempt.
THEOREM CleanupIsComplete == RunSpec => []CleanupReachesEveryOrder
  <1>1. IInv => CleanupReachesEveryOrder
    BY QuotesAssumption
    DEF IInv, DemoInv, DemoTypes, CleanedUp, CleanupReachesEveryOrder,
        Demo!CleanupReachesEveryOrder, Demo!Ended, Ids
  <1> QED
    BY <1>1, Invariance, PTL

\* An order of the demonstration that is open at the venue when the run ends is on
\* the client's record as unresolved: the safety part of EndsAccountedFor.
THEOREM EndIsAccountedFor == RunSpec => [](Demo!Ended => Demo!AccountedFor)
  <1>1. IInv => (Demo!Ended => Demo!AccountedFor)
    BY QuotesAssumption
    DEF IInv, DemoInv, DemoTypes, CleanedUp, Demo!AccountedFor, Demo!Ended, Demo!Ids, Ids
  <1> QED
    BY <1>1, Invariance, PTL

\* An order is sent under one context, the one every reading showed and the pin.
THEOREM SignedUnderOneContext == RunSpec => []OneSigningContext
  <1>1. IInv => OneSigningContext
    BY DEF IInv, TradeInv, ContextInv, OneSigningContext, Sent
  <1> QED
    BY <1>1, Invariance, PTL

\* A trade that returns normally leaves an order that is over at the venue itself.
THEOREM ReturnIsSettled == RunSpec => []TradeReturnsSettled
  BY Invariance, PTL DEF IInv, TradeInv

\* A trade that raises has on record whatever may still trade or be cancelled.
THEOREM RaiseIsOnRecord == RunSpec => []RaisedIsOnRecord
  <1>1. IInv => RaisedIsOnRecord
    BY DEF IInv, TradeInv, RecordInv, RaisedIsOnRecord
  <1> QED
    BY <1>1, Invariance, PTL

\* No run discovers a context or sends an order unless mode, flag and price ask.
THEOREM TradesOnlyIfAsked == RunSpec => []OrdersOnlyIfAsked
  <1>1. IInv => OrdersOnlyIfAsked
    BY DEF IInv, TradeInv, ModeInv, Sent, Asked, OrdersOnlyIfAsked
  <1> QED
    BY <1>1, Invariance, PTL
=============================================================================
