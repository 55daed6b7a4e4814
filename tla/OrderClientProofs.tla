------------------------- MODULE OrderClientProofs -------------------------
(* Theorems about OrderClient, for every value of its constants. *)
EXTENDS OrderClient, FiniteSetTheorems, TLAPS

Preflight == step \in {"positions", "orders", "check"}
Outstanding == step \in {"await", "rebuild", "pending"}

\* A command in flight or given up on was attempted; while the client is not
\* halted the only uncertain command is the one being awaited or applied.
CommandInv ==
    /\ uncertain \subseteq attempted /\ wire \subseteq attempted
    /\ Outstanding => cmd \in uncertain
    /\ \A c \in uncertain : halted \/ InFlight(c)
    /\ Preflight => ~halted /\ cmd \in Placements /\ cmd \notin attempted
    /\ \A i \in Intents : SubmitOf(i) \in wire => SubmitOf(i) \in uncertain

\* A placement reaches the venue's book only after it was sent, and once; neither
\* the projection nor a query under way shows an order ended that is still live.
BookInv ==
    /\ \A i \in Intents : SubmitOf(i) \notin attempted \/ SubmitOf(i) \in wire
                            => order[i] = Absent
    /\ \A i \in Orders : Terminal(proj[i]) => Terminal(order[i])
    /\ \A r \in Readers : \A i \in reading[r] : Terminal(order[i])

\* What the response on its way to the client, or being applied, says is true of
\* the book.
ReplyInv ==
    /\ reply # NoReply => Outstanding
    /\ step \in {"rebuild", "pending"} => cmd \notin Placements
    /\ \A i \in Intents : Awaited(SubmitOf(i)) /\ SubmitOf(i) \in wire => reply = NoReply
    /\ \A i \in Intents : Awaited(SubmitOf(i)) /\ reply # NoReply =>
          /\ reply.ids = {i} /\ order[i].status # "absent"
          /\ reply.status \in {"NEW", "PARTIALLY_FILLED"} \/ Terminal(order[i])
    /\ \A i \in Orders : InFlight(CancelOf(i)) /\ reply.status = "CANCELED" =>
          Terminal(order[i])
    /\ \A i \in Orders : InFlight(CancelOf(i)) /\ step # "await" =>
          reply.status = "CANCELED"
    /\ \A w \in Sweeps : InFlight(SweepOf(w)) =>
          \A i \in reply.ids : Terminal(order[i])

\* A cancellation the client attempted has been decided, or the client says so.
CancelInv ==
    /\ \A i \in cancelAttempted : \/ Terminal(order[i]) \/ i \in pending
                                   \/ CancelOf(i) \in uncertain
    /\ Preflight => pending = {}

\* An older copy of _open holds no live order that _open does not, and what the
\* trader is about to store in _open loses none: only dropped orders are missing.
\* The trader copies _open, and then _pending_cancels, while it applies an answer.
Done(i) == Terminal(order[i]) \/ i \in dropped
RebuildInv ==
    /\ \A t \in Threads : \A i \in viewing[t] : i \in open \/ Done(i)
    /\ step = "rebuild" => \A i \in open : i \in viewing["trader"] \/ Done(i)
    /\ "trader" \in current => step = "rebuild"
    /\ "trader" \in resized => step = "pending"

IInv == /\ TypeOK /\ CommandInv /\ BookInv /\ ReplyInv
        /\ CancelInv /\ RebuildInv /\ NoForgottenOrder
-----------------------------------------------------------------------------
(* Lemmas about the operators. *)

\* This client's orders and those of others are the account's orders; the readers
\* and the trader are the threads.
LEMMA Membership ==
    /\ \A i \in Intents : i \in Orders
    /\ \A i \in Others : i \in Orders /\ i \notin Intents
    /\ \A r \in Readers : r \in Threads /\ r # "trader"
    /\ "trader" \in Threads
  BY ConstantTypes DEF Orders, Threads

\* Commands of different kinds, or of different orders, are different commands.
LEMMA CommandIdentity ==
    /\ \A i \in Intents : /\ SubmitOf(i) \in Placements /\ SubmitOf(i) \in Commands
                         /\ SubmitOf(i).of = i /\ SubmitOf(i) # NoCommand
    /\ \A i \in Orders : /\ CancelOf(i) \in Commands /\ CancelOf(i) \notin Placements
                        /\ CancelOf(i).of = i /\ CancelOf(i) # NoCommand
    /\ \A w \in Sweeps : /\ SweepOf(w) \in Commands /\ SweepOf(w) \notin Placements
                        /\ SweepOf(w) # NoCommand
    /\ \A i, j \in Intents : SubmitOf(i) = SubmitOf(j) => i = j
    /\ \A i, j \in Orders : CancelOf(i) = CancelOf(j) => i = j
    /\ \A i \in Intents, j \in Orders : SubmitOf(i) # CancelOf(j)
    /\ \A i \in Intents, w \in Sweeps : SubmitOf(i) # SweepOf(w)
    /\ \A i \in Orders, w \in Sweeps : CancelOf(i) # SweepOf(w)
    /\ \A v, w \in Sweeps : SweepOf(v) = SweepOf(w) => v = w
    /\ NoCommand \notin Commands
    /\ \A c \in Placements : \E i \in Intents : c = SubmitOf(i)
    /\ Placements \subseteq Commands
  BY DEF Commands, Placements, SubmitOf, CancelOf, SweepOf, NoCommand
-----------------------------------------------------------------------------
(* Type correctness. *)

\* Replacing one order by a well-typed one leaves a well-typed book.
LEMMA BookUpdate ==
  ASSUME NEW book, BookTypes(book), NEW i \in Orders,
         NEW o \in [status : OrderStatuses, filled : Nat],
         o.filled <= Qty[i], Resting(o) => o.filled < Qty[i]
  PROVE  BookTypes([book EXCEPT ![i] = o])
  BY DEF BookTypes

\* An order that leaves the book keeps what it has filled.
LEMMA BookEnd ==
  ASSUME NEW book, BookTypes(book), NEW i \in Orders,
         NEW s \in {"CANCELED", "EXPIRED"}
  PROVE  BookTypes([book EXCEPT ![i].status = s])
  <1> DEFINE o == [book[i] EXCEPT !.status = s]
  <1>1. o \in [status : OrderStatuses, filled : Nat] /\ ~Resting(o)
    BY DEF BookTypes, OrderStatuses, Resting
  <1>2. o.filled <= Qty[i]
    BY DEF BookTypes
  <1>3. BookTypes([book EXCEPT ![i] = o])
    BY <1>1, <1>2, BookUpdate
  <1> QED
    BY <1>3

\* The initial state is well typed.
LEMMA InitTypeOK == Init => TypeOK
  <1> SUFFICES ASSUME Init PROVE TypeOK
    OBVIOUS
  <1>1. BookTypes(order)
    BY ConstantTypes DEF Init, BookTypes, Absent, OrderStatuses, Resting
  <1>2. BookTypes(proj)
    BY <1>1 DEF Init
  <1>3. reply \in [status : OrderStatuses \union {"none", "receipt", "swept"},
                  ids : SUBSET Orders]
    BY DEF Init, NoReply
  <1>4. 0 \in 0..MaxSessions
    BY ConstantTypes
  <1>5. /\ session \in 0..MaxSessions /\ prepared \in [Intents -> 0..MaxSessions]
        /\ leftRead \in [Orders -> Nat]
    BY <1>4 DEF Init
  <1> QED
    BY <1>1, <1>2, <1>3, <1>5, CommandIdentity, Membership DEF Init, TypeOK

\* Every step keeps the types: one step of the proof per action.
LEMMA NextTypeOK == TypeOK /\ [Next]_vars => TypeOK'
  <1> SUFFICES ASSUME TypeOK, [Next]_vars PROVE TypeOK'
    OBVIOUS
  <1> USE ConstantTypes, CommandIdentity, Membership
  <1>1. ASSUME Authenticate PROVE TypeOK'
    BY <1>1 DEF TypeOK, BookTypes, Authenticate, clientVars, preflightVars, readerVars,
       rebuildVars, venueVars
  <1>2. ASSUME AuthenticateFails PROVE TypeOK'
    <2>1. halted' \in BOOLEAN
      BY <1>2, Zenon DEF TypeOK, AuthenticateFails
    <2> QED
      BY <1>2, <2>1 DEF TypeOK, BookTypes, AuthenticateFails, clientVars, preflightVars,
         readerVars, rebuildVars, venueVars
  <1>3. ASSUME NEW i \in Intents, NEW n \in Nonces, PrepareOrder(i, n) PROVE TypeOK'
    <2>1. prepared' \in [Intents -> 0..MaxSessions] /\ nonces' \subseteq Nonces
      BY <1>3 DEF TypeOK, PrepareOrder
    <2> QED
      BY <1>3, <2>1 DEF TypeOK, BookTypes, PrepareOrder, preflightVars, readerVars,
         rebuildVars, venueVars
  <1>4. ASSUME NEW i \in Intents, SubmitBegins(i) PROVE TypeOK'
    BY <1>4 DEF TypeOK, BookTypes, SubmitBegins, clientVars, preflightVars, readerVars,
       rebuildVars, venueVars
  <1>5. ASSUME ReadPositions PROVE TypeOK'
    BY <1>5 DEF TypeOK, BookTypes, ReadPositions, clientVars, preflightVars, readerVars,
       rebuildVars, venueVars
  <1>6. ASSUME ReadOpenOrders PROVE TypeOK'
    BY <1>6 DEF TypeOK, BookTypes, ReadOpenOrders, clientVars, preflightVars, readerVars,
       rebuildVars, venueVars, Left, Resting
  <1>7. ASSUME NEW i \in Intents, CheckAndSend(i) PROVE TypeOK'
    BY <1>7 DEF TypeOK, BookTypes, CheckAndSend, clientVars, preflightVars, readerVars,
       rebuildVars, venueVars
  <1>8. ASSUME PreflightRefuses PROVE TypeOK'
    BY <1>8 DEF TypeOK, BookTypes, PreflightRefuses, clientVars, preflightVars,
       readerVars, rebuildVars, venueVars
  <1>9. ASSUME NEW i \in Intents, SubmitAcked(i) PROVE TypeOK'
    <2>1. open' \subseteq Intents
      BY <1>9 DEF TypeOK, SubmitAcked, OpenAfterAck
    <2>2. viewing' \in [Threads -> SUBSET Intents]
      BY <1>9, <2>1 DEF TypeOK, SubmitAcked
    <2>3. resized' \subseteq Threads
      BY <1>9 DEF TypeOK, SubmitAcked
    <2> QED
      BY <1>9, <2>1, <2>2, <2>3 DEF TypeOK, BookTypes, SubmitAcked, clientVars,
         preflightVars, readerVars, rebuildVars, venueVars, NoReply, OrderStatuses
  <1>10. ASSUME OutcomeUnknown PROVE TypeOK'
    BY <1>10 DEF TypeOK, BookTypes, OutcomeUnknown, clientVars, preflightVars, readerVars,
       rebuildVars, venueVars, NoReply, OrderStatuses
  <1>28. ASSUME AnswerRebuilds PROVE TypeOK'
    BY <1>28 DEF TypeOK, BookTypes, AnswerRebuilds, BeginsRebuild, clientVars,
       preflightVars, readerVars, rebuildVars, venueVars
  <1>11. ASSUME NEW i \in Orders, CancelSend(i) PROVE TypeOK'
    BY <1>11 DEF TypeOK, BookTypes, CancelSend, clientVars, preflightVars, readerVars,
       rebuildVars, venueVars
  <1>12. ASSUME NEW i \in Orders, CancelAcked(i) PROVE TypeOK'
    BY <1>12 DEF TypeOK, BookTypes, CancelAcked, StoresRebuild, clientVars, preflightVars,
       readerVars, rebuildVars, venueVars, NoReply, OrderStatuses
  <1>13. ASSUME NEW w \in Sweeps, SweepSend(w) PROVE TypeOK'
    BY <1>13 DEF TypeOK, BookTypes, SweepSend, clientVars, preflightVars, readerVars,
       rebuildVars, venueVars
  <1>14. ASSUME NEW w \in Sweeps, SweepAcked(w) PROVE TypeOK'
    BY <1>14 DEF TypeOK, BookTypes, SweepAcked, clientVars, preflightVars, readerVars,
       rebuildVars, venueVars, NoReply, OrderStatuses
  <1>29. ASSUME NEW w \in Sweeps, SweepDropsOpen(w) PROVE TypeOK'
    BY <1>29 DEF TypeOK, BookTypes, SweepDropsOpen, StoresRebuild, clientVars,
       preflightVars, readerVars, rebuildVars, venueVars
  <1>15. ASSUME NEW r \in Readers, NEW i \in Orders, QueryReads(r, i) PROVE TypeOK'
    BY <1>15 DEF TypeOK, BookTypes, QueryReads, clientVars, preflightVars, readerVars,
       rebuildVars, venueVars
  <1>16. ASSUME NEW r \in Readers,
                QueryPops(r) \/ QueryRebuilds(r) \/ QueryApplies(r) \/ QueryRaises(r)
         PROVE  TypeOK'
    <2>1. CASE QueryPops(r)
      BY <2>1 DEF TypeOK, BookTypes, QueryPops, clientVars, preflightVars, venueVars
    <2>2. CASE QueryRebuilds(r)
      BY <2>2 DEF TypeOK, BookTypes, QueryRebuilds, BeginsRebuild, clientVars,
         preflightVars, venueVars
    <2>3. CASE QueryApplies(r)
      BY <2>3 DEF TypeOK, BookTypes, QueryApplies, QueryReturns, StoresRebuild,
         clientVars, preflightVars, venueVars
    <2>4. CASE QueryRaises(r)
      BY <2>4 DEF TypeOK, BookTypes, QueryRaises, QueryReturns, clientVars,
         preflightVars, venueVars
    <2> QED
      BY <1>16, <2>1, <2>2, <2>3, <2>4
  <1>17. ASSUME SessionExpires PROVE TypeOK'
    BY <1>17 DEF TypeOK, BookTypes, SessionExpires, clientVars, preflightVars, readerVars,
       rebuildVars, venueVars
  <1>18. ASSUME NEW i \in Intents, VenueAccepts(i) PROVE TypeOK'
    <2>1. PICK o \in AcceptedAs(i) :
             /\ order' = [order EXCEPT ![i] = o]
             /\ reply' = IF Awaited(SubmitOf(i)) THEN Reply(o.status, {i}) ELSE reply
      BY <1>18 DEF VenueAccepts
    <2>2. /\ o \in [status : OrderStatuses, filled : Nat] /\ o.filled <= Qty[i]
          /\ Resting(o) => o.filled < Qty[i]
      BY DEF AcceptedAs, ACKNOWLEDGED_STATUSES, Modes, OrderStatuses, Resting
    <2>3. BookTypes(order')
      BY <2>1, <2>2, BookUpdate DEF TypeOK
    <2>4. reply' \in [status : OrderStatuses \union {"none", "receipt", "swept"},
                     ids : SUBSET Orders]
      BY <2>1, <2>2 DEF TypeOK, Reply
    <2> QED
      BY <1>18, <2>3, <2>4 DEF TypeOK, VenueAccepts, clientUnchanged, clientVars,
         preflightVars, readerVars, rebuildVars
  <1>19. ASSUME NEW c \in Commands, VenueDrops(c) PROVE TypeOK'
    BY <1>19 DEF TypeOK, BookTypes, VenueDrops, clientUnchanged, clientVars,
       preflightVars, readerVars, rebuildVars, Resting, OrderStatuses
  <1>20. ASSUME NEW i \in Orders, VenueFills(i) PROVE TypeOK'
    <2>1. PICK f \in (order[i].filled + 1)..Qty[i] :
             order' = [order EXCEPT ![i] = [status |-> FillStatus(i, f), filled |-> f]]
      BY <1>20 DEF VenueFills
    <2>2. f \in Nat /\ f <= Qty[i]
      BY DEF TypeOK, BookTypes
    <2>3. [status |-> FillStatus(i, f), filled |-> f]
              \in [status : OrderStatuses, filled : Nat]
      BY <2>2 DEF FillStatus, OrderStatuses
    <2>4. Resting([status |-> FillStatus(i, f), filled |-> f]) => f < Qty[i]
      BY <2>2 DEF FillStatus, Resting
    <2>5. BookTypes(order')
      BY <2>1, <2>2, <2>3, <2>4, BookUpdate DEF TypeOK
    <2> QED
      BY <1>20, <2>5 DEF TypeOK, VenueFills, clientUnchanged, clientVars, preflightVars,
         readerVars, rebuildVars
  <1>21. ASSUME NEW i \in Orders, VenueExpires(i) PROVE TypeOK'
    <2>1. BookTypes(order')
      BY <1>21, BookEnd DEF TypeOK, VenueExpires
    <2> QED
      BY <1>21, <2>1 DEF TypeOK, VenueExpires, clientUnchanged, clientVars, preflightVars,
         readerVars, rebuildVars
  <1>22. ASSUME NEW i \in Orders, VenueReceipts(i) PROVE TypeOK'
    BY <1>22 DEF TypeOK, BookTypes, VenueReceipts, clientUnchanged, clientVars,
       preflightVars, readerVars, rebuildVars, Resting, OrderStatuses, Reply
  <1>23. ASSUME NEW i \in Orders, VenueCancels(i) PROVE TypeOK'
    <2>1. BookTypes(order')
      <3>1. CASE Resting(order[i])
        <4>1. order' = [order EXCEPT ![i].status = "CANCELED"]
          BY <1>23, <3>1 DEF VenueCancels
        <4>2. BookTypes([order EXCEPT ![i].status = "CANCELED"])
          BY BookEnd DEF TypeOK
        <4> QED
          BY <4>1, <4>2
      <3>2. CASE ~Resting(order[i])
        BY <1>23, <3>2 DEF TypeOK, VenueCancels
      <3> QED
        BY <3>1, <3>2
    <2>2. reply' \in [status : OrderStatuses \union {"none", "receipt", "swept"},
                     ids : SUBSET Orders]
      BY <1>23 DEF TypeOK, VenueCancels, Reply, OrderStatuses
    <2> QED
      BY <1>23, <2>1, <2>2 DEF TypeOK, VenueCancels, clientUnchanged, clientVars,
         preflightVars, readerVars, rebuildVars
  <1>24. ASSUME NEW w \in Sweeps, VenueSweeps(w) PROVE TypeOK'
    <2>1. PICK swept \in SUBSET {i \in Of(Symbol[w]) : Resting(order[i])} :
             /\ order' = [i \in Orders |-> IF i \in swept
                            THEN [order[i] EXCEPT !.status = "CANCELED"] ELSE order[i]]
             /\ reply' = IF Awaited(SweepOf(w)) THEN Reply("swept", swept) ELSE reply
      BY <1>24 DEF VenueSweeps
    <2>2. swept \subseteq Orders
      BY DEF Of
    <2>3. BookTypes(order')
      BY <2>1 DEF TypeOK, BookTypes, OrderStatuses, Resting
    <2>4. reply' \in [status : OrderStatuses \union {"none", "receipt", "swept"},
                     ids : SUBSET Orders]
      BY <2>1, <2>2 DEF TypeOK, Reply
    <2> QED
      BY <1>24, <2>3, <2>4 DEF TypeOK, VenueSweeps, clientUnchanged, clientVars,
         preflightVars, readerVars, rebuildVars
  <1>30. ASSUME NEW i \in Others, OtherPlaces(i) PROVE TypeOK'
    <2>1. PICK o \in AcceptedAs(i) : order' = [order EXCEPT ![i] = o]
      BY <1>30 DEF OtherPlaces
    <2>2. /\ o \in [status : OrderStatuses, filled : Nat] /\ o.filled <= Qty[i]
          /\ Resting(o) => o.filled < Qty[i]
      BY DEF AcceptedAs, ACKNOWLEDGED_STATUSES, Modes, OrderStatuses, Resting
    <2>3. BookTypes(order')
      BY <2>1, <2>2, BookUpdate DEF TypeOK
    <2> QED
      BY <1>30, <2>3 DEF TypeOK, OtherPlaces, clientUnchanged, clientVars, preflightVars,
         readerVars, rebuildVars
  <1>31. ASSUME NEW i \in Others, OtherCancels(i) PROVE TypeOK'
    <2>1. BookTypes(order')
      BY <1>31, BookEnd DEF TypeOK, OtherCancels
    <2> QED
      BY <1>31, <2>1 DEF TypeOK, OtherCancels, clientUnchanged, clientVars,
         preflightVars, readerVars, rebuildVars
  <1>25. ASSUME NEW i \in Orders, Projects(i) PROVE TypeOK'
    BY <1>25 DEF TypeOK, BookTypes, Projects, clientUnchanged, clientVars, preflightVars,
       readerVars, rebuildVars, Resting, OrderStatuses
  <1>26. CASE UNCHANGED vars
    BY <1>26 DEF TypeOK, BookTypes, vars
  <1>27. QED
    BY <1>1, <1>2, <1>3, <1>4, <1>5, <1>6, <1>7, <1>8, <1>9, <1>10, <1>11, <1>12, <1>13,
       <1>14, <1>15, <1>16, <1>17, <1>18, <1>19, <1>20, <1>21, <1>22, <1>23, <1>24, <1>25,
       <1>26, <1>28, <1>29, <1>30, <1>31 DEF Next, Trader, Reader, Venue

\* Whatever a placement may answer is an order status, and never "absent".
LEMMA AcknowledgedStatuses ==
  \A i \in Orders :
     ACKNOWLEDGED_STATUSES[Mode[i]]
         \subseteq {"NEW", "PARTIALLY_FILLED", "FILLED", "EXPIRED", "CANCELED"}
  <1>1. \A m \in Modes : ACKNOWLEDGED_STATUSES[m]
            \subseteq {"NEW", "PARTIALLY_FILLED", "FILLED", "EXPIRED", "CANCELED"}
    <2> SUFFICES ASSUME NEW m \in Modes
                 PROVE  ACKNOWLEDGED_STATUSES[m] \subseteq
                          {"NEW", "PARTIALLY_FILLED", "FILLED", "EXPIRED", "CANCELED"}
      OBVIOUS
    <2>1. CASE m = "POST_ONLY"
      BY <2>1 DEF ACKNOWLEDGED_STATUSES, Modes
    <2>2. CASE m = "GTC"
      BY <2>2 DEF ACKNOWLEDGED_STATUSES, Modes
    <2>3. CASE ~(m \in {"POST_ONLY", "GTC"})
      BY <2>3 DEF ACKNOWLEDGED_STATUSES, Modes
    <2> QED
      BY <2>1, <2>2, <2>3
  <1> QED
    BY <1>1, ConstantTypes

\* A cancellation carried out changes no order but its own, and only ends that one.
LEMMA VenueCancelsOne ==
  ASSUME TypeOK, NEW i \in Orders, VenueCancels(i)
  PROVE  /\ \A j \in Orders : \/ order'[j] = order[j]
                              \/ Resting(order[j]) /\ order'[j].status = "CANCELED"
         /\ UNCHANGED <<attempted, cancelAttempted, uncertain, open, pending, step, cmd,
                         reading, viewing, dropped>>
  <1>1. CASE Resting(order[i])
    <2>1. order' = [order EXCEPT ![i].status = "CANCELED"]
      BY <1>1 DEF VenueCancels
    <2>2. /\ order'[i].status = "CANCELED"
          /\ \A j \in Orders : j # i => order'[j] = order[j]
      BY <2>1 DEF TypeOK, BookTypes
    <2> QED
      BY <1>1, <2>2 DEF VenueCancels, clientUnchanged, clientVars, readerVars, rebuildVars
  <1>2. CASE ~Resting(order[i])
    BY <1>2 DEF VenueCancels, clientUnchanged, clientVars, readerVars, rebuildVars
  <1> QED
    BY <1>1, <1>2

\* A query writes nothing but _open, _pending_cancels and its own state.
LEMMA QueryWrites ==
  ASSUME NEW r \in Readers, Reader(r)
  PROVE  UNCHANGED <<halted, session, nonces, prepared, attempted, cancelAttempted,
                     uncertainAll, uncertain, step, cmd, posRead, leftRead, wire, reply,
                     order, proj>>
  BY DEF Reader, QueryReads, QueryPops, QueryRebuilds, QueryApplies, QueryRaises,
     clientVars, preflightVars, venueVars

\* The venue writes nothing of the client's.
LEMMA VenueWrites ==
  ASSUME Venue
  PROVE  UNCHANGED <<halted, session, attempted, cancelAttempted, open, pending, uncertain,
                     step, cmd, posRead, leftRead, phase, reading, viewing, current,
                     resized, dropped>>
  BY DEF Venue, VenueAccepts, OtherPlaces, OtherCancels, VenueFills, VenueExpires,
     VenueReceipts, VenueCancels, Projects, VenueSweeps, VenueDrops, clientUnchanged,
     clientVars, preflightVars, readerVars, rebuildVars

\* The trader's steps write nothing of the venue's book or of its projection.
LEMMA TraderKeepsBook ==
  ASSUME Trader
  PROVE  UNCHANGED <<order, proj>>
  BY DEF Trader, Authenticate, AuthenticateFails, PrepareOrder, SubmitBegins, CheckAndSend,
     SubmitAcked, ReadPositions, ReadOpenOrders, PreflightRefuses, OutcomeUnknown,
     AnswerRebuilds, CancelSend, CancelAcked, SweepSend, SweepDropsOpen, SweepAcked,
     venueVars

\* Every reachable state is well typed: no order overfilled, and the lock of the
\* order client (client_orders.py, self._lock) held exactly while a command runs.
THEOREM TypeCorrect == Spec => []TypeOK
  BY InitTypeOK, NextTypeOK, PTL DEF Spec
-----------------------------------------------------------------------------
(* The commands. *)

\* Every step keeps the accounting of commands.
LEMMA NextCommandInv == TypeOK /\ CommandInv /\ ReplyInv /\ [Next]_vars => CommandInv'
  <1> SUFFICES ASSUME TypeOK /\ CommandInv /\ ReplyInv, [Next]_vars PROVE CommandInv'
    OBVIOUS
  <1> USE CommandIdentity, Membership DEF Outstanding, InFlight
  <1>1. ASSUME \/ Authenticate \/ SessionExpires
               \/ \E i \in Intents, n \in Nonces : PrepareOrder(i, n)
               \/ \E r \in Readers : Reader(r)
               \/ Venue /\ UNCHANGED wire
               \/ UNCHANGED vars
       PROVE  CommandInv'
    <2>1. UNCHANGED <<halted, attempted, uncertain, step, cmd, wire>>
      BY <1>1, QueryWrites, VenueWrites DEF vars, clientVars, venueVars, Authenticate,
         PrepareOrder, SessionExpires
    <2> QED
      BY <2>1 DEF CommandInv, Preflight
  <1>2. ASSUME AuthenticateFails PROVE CommandInv'
    BY <1>2 DEF TypeOK, CommandInv, Preflight,
       AuthenticateFails, clientVars, preflightVars, readerVars, rebuildVars, venueVars
  <1>3. ASSUME NEW i \in Intents, SubmitBegins(i) PROVE CommandInv'
    BY <1>3 DEF TypeOK, CommandInv, Preflight, SubmitBegins, clientVars, preflightVars,
       readerVars, rebuildVars, venueVars, MaySubmit
  <1>4. ASSUME ReadPositions PROVE CommandInv'
    BY <1>4 DEF TypeOK, CommandInv, Preflight,
       ReadPositions, clientVars, preflightVars, readerVars, rebuildVars, venueVars
  <1>5. ASSUME ReadOpenOrders PROVE CommandInv'
    BY <1>5 DEF TypeOK, CommandInv, Preflight,
       ReadOpenOrders, clientVars, preflightVars, readerVars, rebuildVars, venueVars
  <1>6. ASSUME NEW i \in Intents, CheckAndSend(i) PROVE CommandInv'
    BY <1>6 DEF TypeOK, CommandInv, Preflight,
       CheckAndSend, clientVars, preflightVars, readerVars, rebuildVars, venueVars
  <1>7. ASSUME PreflightRefuses PROVE CommandInv'
    BY <1>7 DEF TypeOK, CommandInv, Preflight,
       PreflightRefuses, clientVars, preflightVars, readerVars, rebuildVars, venueVars
  <1>8. ASSUME NEW i \in Intents, SubmitAcked(i) PROVE CommandInv'
    <2>1. SubmitOf(i) \notin wire
      BY <1>8, AcknowledgedStatuses, Membership DEF SubmitAcked, ReplyInv, Awaited, NoReply
    <2> QED
      BY <1>8, <2>1 DEF TypeOK, CommandInv, Preflight,
         SubmitAcked, clientVars, preflightVars, readerVars, rebuildVars, venueVars
  <1>9. ASSUME OutcomeUnknown PROVE CommandInv'
    BY <1>9 DEF TypeOK, CommandInv, Preflight,
       OutcomeUnknown, clientVars, preflightVars, readerVars, rebuildVars, venueVars
  <1>10. ASSUME NEW i \in Orders, CancelSend(i) PROVE CommandInv'
    BY <1>10 DEF TypeOK, CommandInv, Preflight,
       CancelSend, clientVars, preflightVars, readerVars, rebuildVars, venueVars
  <1>11. ASSUME \/ AnswerRebuilds
                \/ \E i \in Orders : CancelAcked(i)
                \/ \E w \in Sweeps : SweepDropsOpen(w) \/ SweepAcked(w)
         PROVE  CommandInv'
    <2>1. /\ step \in {"await", "rebuild", "pending"} /\ cmd \notin Placements
          /\ \A i \in Intents : cmd # SubmitOf(i)
          /\ UNCHANGED <<halted, attempted, wire>>
          /\ \/ /\ step' \in {"rebuild", "pending"} /\ UNCHANGED <<cmd, uncertain>>
             \/ step' = "idle" /\ cmd' = NoCommand /\ uncertain' = uncertain \ {cmd}
      <3>1. CASE AnswerRebuilds \/ \E w \in Sweeps : SweepDropsOpen(w)
        BY <3>1 DEF AnswerRebuilds, SweepDropsOpen, clientVars, venueVars
      <3>2. CASE \E i \in Orders : CancelAcked(i)
        BY <3>2 DEF CancelAcked
      <3>3. CASE \E w \in Sweeps : SweepAcked(w)
        BY <3>3 DEF SweepAcked
      <3> QED
        BY <1>11, <3>1, <3>2, <3>3
    <2> QED
      BY <2>1 DEF TypeOK, CommandInv, Preflight
  <1>12. ASSUME NEW w \in Sweeps, SweepSend(w) PROVE CommandInv'
    BY <1>12 DEF TypeOK, CommandInv, Preflight,
       SweepSend, clientVars, preflightVars, readerVars, rebuildVars, venueVars
  <1>14. ASSUME NEW i \in Intents, VenueAccepts(i) PROVE CommandInv'
    BY <1>14 DEF TypeOK, CommandInv, Preflight,
       VenueAccepts, clientUnchanged, clientVars, preflightVars, readerVars, rebuildVars
  <1>15. ASSUME NEW c \in Commands, VenueDrops(c) PROVE CommandInv'
    BY <1>15 DEF TypeOK, CommandInv, Preflight,
       VenueDrops, clientUnchanged, clientVars, preflightVars, readerVars, rebuildVars
  <1>16. ASSUME \/ \E i \in Orders : VenueCancels(i)
                \/ \E w \in Sweeps : VenueSweeps(w)
         PROVE  CommandInv'
    <2>1. /\ wire' \subseteq wire
          /\ UNCHANGED <<halted, attempted, uncertain, step, cmd>>
      BY <1>16 DEF VenueCancels, VenueSweeps, clientUnchanged, clientVars
    <2> QED
      BY <2>1 DEF TypeOK, CommandInv, Preflight
  <1>18. CASE Trader
    BY <1>1, <1>2, <1>3, <1>4, <1>5, <1>6, <1>7, <1>8, <1>9, <1>10, <1>11, <1>12, <1>18
       DEF Trader
  <1>20. CASE Venue
    <2>1. ASSUME NEW i \in Orders, \/ i \in Others /\ (OtherPlaces(i) \/ OtherCancels(i))
                                   \/ VenueFills(i) \/ VenueExpires(i)
                                   \/ VenueReceipts(i) \/ Projects(i)
          PROVE  UNCHANGED wire
      BY <2>1 DEF OtherPlaces, OtherCancels, VenueFills, VenueExpires, VenueReceipts,
         Projects
    <2> QED
      BY <1>1, <1>14, <1>15, <1>16, <1>20, <2>1 DEF Venue
  <1> QED
    BY <1>1, <1>18, <1>20 DEF Next
-----------------------------------------------------------------------------
(* The book, its projection and the responses. *)

\* Every step keeps the relation of the book to what was sent and projected.
LEMMA NextBookInv == TypeOK /\ CommandInv /\ BookInv /\ [Next]_vars => BookInv'
  <1> SUFFICES ASSUME TypeOK /\ CommandInv /\ BookInv, [Next]_vars PROVE BookInv'
    OBVIOUS
  <1>1. ASSUME \/ Authenticate \/ AuthenticateFails \/ ReadPositions
               \/ ReadOpenOrders \/ PreflightRefuses \/ OutcomeUnknown \/ AnswerRebuilds
               \/ SessionExpires
               \/ \E i \in Intents, n \in Nonces : PrepareOrder(i, n)
               \/ \E i \in Intents : SubmitBegins(i) \/ SubmitAcked(i)
               \/ \E i \in Orders : CancelAcked(i) \/ VenueReceipts(i)
               \/ \E w \in Sweeps : SweepDropsOpen(w) \/ SweepAcked(w)
               \/ UNCHANGED vars
       PROVE  BookInv'
    <2>1. UNCHANGED <<attempted, wire, order, proj, reading>>
      BY <1>1 DEF vars, clientVars, readerVars, venueVars, clientUnchanged, Authenticate,
         AuthenticateFails, PrepareOrder, SubmitBegins, ReadPositions, ReadOpenOrders,
         PreflightRefuses, SubmitAcked, OutcomeUnknown, AnswerRebuilds, CancelAcked,
         SweepDropsOpen, SweepAcked, SessionExpires, VenueReceipts
    <2> QED
      BY <2>1 DEF BookInv, Terminal, Absent
  <1>2. ASSUME NEW i \in Intents, CheckAndSend(i) PROVE BookInv'
    BY <1>2, CommandIdentity, Membership DEF TypeOK, CommandInv, BookInv, Terminal,
       Absent, CheckAndSend, clientVars, preflightVars, readerVars, rebuildVars,
       venueVars, Preflight
  <1>3. ASSUME NEW i \in Orders, CancelSend(i) PROVE BookInv'
    BY <1>3, CommandIdentity, Membership DEF TypeOK, CommandInv, BookInv, Terminal, Absent,
       CancelSend, clientVars, preflightVars, readerVars, rebuildVars, venueVars
  <1>4. ASSUME NEW w \in Sweeps, SweepSend(w) PROVE BookInv'
    BY <1>4, CommandIdentity, Membership DEF TypeOK, CommandInv, BookInv, Terminal, Absent,
       SweepSend, clientVars, preflightVars, readerVars, rebuildVars, venueVars
  <1>5. ASSUME NEW r \in Readers, Reader(r) PROVE BookInv'
    <2>1. UNCHANGED <<attempted, wire, order, proj>>
      BY <1>5, QueryWrites
    <2>2. ASSUME NEW q \in Readers, NEW i \in reading'[q] PROVE Terminal(order[i])
      <3>1. \/ reading'[q] \in {reading[q], {}}
            \/ \E j \in Orders : reading'[q] = {j} /\ Terminal(proj[j])
        BY <1>5 DEF TypeOK, Reader, QueryReads, QueryPops, QueryRebuilds, QueryApplies,
           QueryRaises, QueryReturns
      <3> QED
        BY <2>2, <3>1 DEF BookInv
    <2> QED
      BY <2>1, <2>2 DEF BookInv, Terminal
  <1>7. ASSUME NEW i \in Intents, VenueAccepts(i) PROVE BookInv'
    BY <1>7, CommandIdentity, Membership DEF TypeOK, CommandInv, BookInv, Terminal, Absent,
       VenueAccepts, clientUnchanged, clientVars, preflightVars, readerVars, rebuildVars
  <1>8. ASSUME NEW c \in Commands, VenueDrops(c) PROVE BookInv'
    BY <1>8, CommandIdentity, Membership DEF TypeOK, CommandInv, BookInv, Terminal, Absent,
       VenueDrops, clientUnchanged, clientVars, preflightVars, readerVars, rebuildVars
  <1>9. ASSUME NEW i \in Orders, NEW o, order' = [order EXCEPT ![i] = o],
               Terminal(order[i]) => Terminal(o), i \in Intents => order[i] # Absent,
               UNCHANGED <<attempted, proj, reading>>, wire' \subseteq wire
        PROVE  BookInv'
    <2>1. /\ order'[i] = o
          /\ \A j \in Orders : j # i => order'[j] = order[j]
      BY <1>9 DEF TypeOK, BookTypes
    <2>2. \A r \in Readers : reading[r] \subseteq Orders
      BY DEF TypeOK
    <2> QED
      BY <1>9, <2>1, <2>2, Membership DEF BookInv, Terminal
  <1>10. ASSUME NEW i \in Orders, VenueFills(i) \/ VenueExpires(i) PROVE BookInv'
    <2>1. /\ UNCHANGED <<attempted, proj, reading, wire>>
          /\ ~Terminal(order[i]) /\ order[i] # Absent
      BY <1>10 DEF VenueFills, VenueExpires, clientUnchanged, clientVars, readerVars,
         Resting, Terminal, Absent
    <2>2. \E o : order' = [order EXCEPT ![i] = o]
      BY <1>10 DEF VenueFills, VenueExpires
    <2> QED
      BY <1>9, <2>1, <2>2
  <1>17. ASSUME NEW i \in Others, OtherPlaces(i) \/ OtherCancels(i) PROVE BookInv'
    <2>1. /\ UNCHANGED <<attempted, proj, reading, wire>>
          /\ ~Terminal(order[i]) /\ i \notin Intents /\ i \in Orders
      BY <1>17, Membership DEF OtherPlaces, OtherCancels, clientUnchanged, clientVars,
         readerVars, Resting, Terminal, Absent
    <2>2. \E o : order' = [order EXCEPT ![i] = o]
      BY <1>17 DEF OtherPlaces, OtherCancels
    <2> QED
      BY <1>9, <2>1, <2>2
  <1>11. ASSUME NEW i \in Orders, VenueCancels(i) PROVE BookInv'
    <2>1. /\ UNCHANGED <<attempted, proj, reading>> /\ wire' \subseteq wire
      BY <1>11 DEF VenueCancels, clientUnchanged, clientVars, readerVars
    <2>2. CASE Resting(order[i])
      <3>1. ~Terminal(order[i]) /\ order[i] # Absent
        BY <2>2 DEF Resting, Terminal, Absent
      <3>2. \E o : order' = [order EXCEPT ![i] = o]
        BY <1>11, <2>2 DEF VenueCancels
      <3> QED
        BY <1>9, <2>1, <3>1, <3>2
    <2>3. CASE ~Resting(order[i])
      BY <1>11, <2>1, <2>3 DEF BookInv, VenueCancels, Terminal
    <2> QED
      BY <2>2, <2>3
  <1>12. ASSUME NEW w \in Sweeps, VenueSweeps(w) PROVE BookInv'
    <2>1. /\ UNCHANGED <<attempted, proj, reading>> /\ wire' \subseteq wire
          /\ \A i \in Orders : \/ order'[i] = order[i]
                               \/ Resting(order[i]) /\ Terminal(order'[i])
      BY <1>12 DEF VenueSweeps, clientUnchanged, clientVars, readerVars, TypeOK,
         BookTypes, Terminal
    <2>2. \A r \in Readers : reading[r] \subseteq Orders
      BY DEF TypeOK
    <2> QED
      BY <2>1, <2>2, Membership DEF BookInv, Terminal, Resting, Absent
  <1>13. ASSUME NEW i \in Orders, Projects(i) PROVE BookInv'
    BY <1>13, CommandIdentity, Membership DEF TypeOK, CommandInv, BookInv, Terminal, Absent,
       Projects, clientUnchanged, clientVars, preflightVars, readerVars, rebuildVars
  <1>14. CASE Trader
    BY <1>1, <1>2, <1>3, <1>4, <1>14 DEF Trader
  <1>16. CASE Venue
    BY <1>1, <1>7, <1>8, <1>10, <1>11, <1>12, <1>13, <1>16, <1>17 DEF Venue
  <1> QED
    BY <1>1, <1>5, <1>14, <1>16 DEF Next

\* What the venue can do to an order: place one that was sent, or end one that rests.
LEMMA VenueMoves ==
  ASSUME TypeOK, CommandInv, BookInv, Venue
  PROVE  /\ wire' \subseteq wire
         /\ \A i \in Orders :
               \/ order'[i] = order[i]
               \/ Resting(order[i]) /\ order'[i].status # "absent"
               \/ order[i] = Absent /\ (i \in Intents => VenueAccepts(i))
         /\ \A i \in Orders : Terminal(order[i]) => order'[i] = order[i]
  <1> DEFINE Moves(i) == \/ order'[i] = order[i]
                         \/ Resting(order[i]) /\ order'[i].status # "absent"
                         \/ order[i] = Absent /\ (i \in Intents => VenueAccepts(i))
  <1>1. /\ order \in [Orders -> [status : OrderStatuses, filled : Nat]]
        /\ \A i \in Orders : order[i].status \in OrderStatuses
    BY DEF TypeOK, BookTypes
  <1>2. ASSUME NEW i \in Intents, VenueAccepts(i)
        PROVE  wire' \subseteq wire /\ \A j \in Orders : Moves(j)
    <2>1. /\ order[i] = Absent /\ wire' \subseteq wire
          /\ \A j \in Orders : j # i => order'[j] = order[j]
      BY <1>1, <1>2 DEF VenueAccepts, BookInv
    <2> QED
      BY <1>2, <2>1
  <1>3. ASSUME NEW i \in Others, OtherPlaces(i)
        PROVE  wire' \subseteq wire /\ \A j \in Orders : Moves(j)
    BY <1>1, <1>3, Membership DEF OtherPlaces
  <1>4. ASSUME NEW i \in Orders,
               VenueFills(i) \/ VenueExpires(i) \/ (i \in Others /\ OtherCancels(i))
        PROVE  wire' \subseteq wire /\ \A j \in Orders : Moves(j)
    <2>1. Resting(order[i]) /\ UNCHANGED wire
      BY <1>4 DEF VenueFills, VenueExpires, OtherCancels
    <2>2. \A j \in Orders : j # i => order'[j] = order[j]
      BY <1>1, <1>4 DEF VenueFills, VenueExpires, OtherCancels
    <2>3. CASE VenueFills(i)
      <3>1. PICK f : order' = [order EXCEPT ![i] =
                                   [status |-> FillStatus(i, f), filled |-> f]]
        BY <2>3 DEF VenueFills
      <3>2. order'[i].status # "absent"
        BY <1>1, <3>1 DEF FillStatus
      <3> QED
        BY <2>1, <2>2, <3>2
    <2>4. CASE VenueExpires(i) \/ OtherCancels(i)
      <3>1. order'[i].status # "absent"
        BY <1>1, <2>4 DEF VenueExpires, OtherCancels
      <3> QED
        BY <2>1, <2>2, <3>1
    <2> QED
      BY <1>4, <2>3, <2>4
  <1>5. ASSUME NEW i \in Orders, VenueCancels(i)
        PROVE  wire' \subseteq wire /\ \A j \in Orders : Moves(j)
    <2>1. wire' \subseteq wire
      BY <1>5 DEF VenueCancels
    <2> QED
      BY <1>5, <2>1, VenueCancelsOne
  <1>6. ASSUME NEW w \in Sweeps, VenueSweeps(w)
        PROVE  wire' \subseteq wire /\ \A j \in Orders : Moves(j)
    BY <1>1, <1>6 DEF VenueSweeps
  <1>7. ASSUME \/ \E i \in Orders : VenueReceipts(i) \/ Projects(i)
               \/ \E c \in Commands : VenueDrops(c)
        PROVE  wire' \subseteq wire /\ \A j \in Orders : Moves(j)
    BY <1>7 DEF VenueReceipts, Projects, VenueDrops
  <1>8. wire' \subseteq wire /\ \A i \in Orders : Moves(i)
    BY <1>2, <1>3, <1>4, <1>5, <1>6, <1>7, Membership DEF Venue
  <1>9. \A i \in Orders : Terminal(order[i]) => order[i] # Absent /\ ~Resting(order[i])
    BY DEF Terminal, Absent, Resting
  <1> QED
    BY <1>8, <1>9

\* Every step keeps the truth of the response on its way.
LEMMA NextReplyInv == TypeOK /\ CommandInv /\ BookInv /\ ReplyInv /\ [Next]_vars => ReplyInv'
  <1> SUFFICES ASSUME TypeOK /\ CommandInv /\ BookInv /\ ReplyInv, [Next]_vars PROVE ReplyInv'
    OBVIOUS
  <1>1. ASSUME \/ Authenticate \/ AuthenticateFails \/ SessionExpires
               \/ \E i \in Intents, n \in Nonces : PrepareOrder(i, n)
               \/ \E r \in Readers : Reader(r)
               \/ \E i \in Orders : Projects(i)
               \/ UNCHANGED vars
       PROVE  ReplyInv'
    <2>1. UNCHANGED <<step, cmd, wire, reply, order>>
      BY <1>1, QueryWrites DEF vars, venueVars, clientUnchanged, Authenticate,
         AuthenticateFails, PrepareOrder, SessionExpires, Projects
    <2> QED
      BY <2>1 DEF ReplyInv, Awaited, InFlight, Outstanding, NoReply, Terminal
  <1>2. ASSUME NEW i \in Intents, SubmitBegins(i) PROVE ReplyInv'
    BY <1>2, CommandIdentity, Membership DEF TypeOK, CommandInv, ReplyInv, Awaited,
       InFlight, Outstanding, NoReply, Terminal, SubmitBegins, clientVars, preflightVars,
       readerVars, rebuildVars, venueVars
  <1>3. ASSUME ReadPositions PROVE ReplyInv'
    BY <1>3, CommandIdentity, Membership DEF TypeOK, CommandInv, ReplyInv, Awaited,
       InFlight, Outstanding, NoReply, Terminal, ReadPositions, clientVars, preflightVars,
       readerVars, rebuildVars, venueVars
  <1>4. ASSUME ReadOpenOrders PROVE ReplyInv'
    BY <1>4, CommandIdentity, Membership DEF TypeOK, CommandInv, ReplyInv, Awaited,
       InFlight, Outstanding, NoReply, Terminal, ReadOpenOrders, clientVars,
       preflightVars, readerVars, rebuildVars, venueVars
  <1>5. ASSUME NEW i \in Intents, CheckAndSend(i) PROVE ReplyInv'
    BY <1>5, CommandIdentity, Membership DEF TypeOK, CommandInv, ReplyInv, Awaited,
       InFlight, Outstanding, NoReply, Terminal, CheckAndSend, clientVars, preflightVars,
       readerVars, rebuildVars, venueVars
  <1>6. ASSUME PreflightRefuses PROVE ReplyInv'
    BY <1>6, CommandIdentity, Membership DEF TypeOK, CommandInv, ReplyInv, Awaited,
       InFlight, Outstanding, NoReply, Terminal, PreflightRefuses, clientVars,
       preflightVars, readerVars, rebuildVars, venueVars
  <1>7. ASSUME NEW i \in Intents, SubmitAcked(i) PROVE ReplyInv'
    BY <1>7, CommandIdentity, Membership DEF TypeOK, CommandInv, ReplyInv, Awaited,
       InFlight, Outstanding, NoReply, Terminal, SubmitAcked, clientVars, preflightVars,
       readerVars, rebuildVars, venueVars
  <1>8. ASSUME OutcomeUnknown PROVE ReplyInv'
    BY <1>8, CommandIdentity, Membership DEF TypeOK, CommandInv, ReplyInv, Awaited,
       InFlight, Outstanding, NoReply, Terminal, OutcomeUnknown, clientVars,
       preflightVars, readerVars, rebuildVars, venueVars
  <1>9. ASSUME NEW i \in Orders, CancelSend(i) PROVE ReplyInv'
    BY <1>9, CommandIdentity, Membership DEF TypeOK, CommandInv, ReplyInv, Awaited,
       InFlight, Outstanding, NoReply, Terminal, CancelSend, clientVars, preflightVars,
       readerVars, rebuildVars, venueVars
  <1>10. ASSUME NEW i \in Orders, CancelAcked(i) PROVE ReplyInv'
    BY <1>10, CommandIdentity, Membership DEF TypeOK, CommandInv, ReplyInv, Awaited,
       InFlight, Outstanding, NoReply, Terminal, CancelAcked, clientVars, preflightVars,
       readerVars, rebuildVars, venueVars
  <1>11. ASSUME NEW w \in Sweeps, SweepSend(w) PROVE ReplyInv'
    BY <1>11, CommandIdentity, Membership DEF TypeOK, CommandInv, ReplyInv, Awaited,
       InFlight, Outstanding, NoReply, Terminal, SweepSend, clientVars, preflightVars,
       readerVars, rebuildVars, venueVars
  <1>12. ASSUME NEW w \in Sweeps, SweepAcked(w) PROVE ReplyInv'
    BY <1>12, CommandIdentity, Membership DEF TypeOK, CommandInv, ReplyInv, Awaited,
       InFlight, Outstanding, NoReply, Terminal, SweepAcked, clientVars, preflightVars,
       readerVars, rebuildVars, venueVars
  <1>23. ASSUME AnswerRebuilds \/ \E w \in Sweeps : SweepDropsOpen(w) PROVE ReplyInv'
    <2>1. /\ step \in {"await", "rebuild"} /\ step' \in {"rebuild", "pending"}
          /\ \/ (\E i \in Orders : cmd = CancelOf(i)) /\ reply.status = "CANCELED"
             \/ \E w \in Sweeps : cmd = SweepOf(w)
          /\ UNCHANGED <<cmd, wire, reply, order>>
      BY <1>23 DEF AnswerRebuilds, SweepDropsOpen, venueVars
    <2> QED
      BY <2>1, CommandIdentity, Membership DEF TypeOK, ReplyInv, Awaited, InFlight,
         Outstanding, NoReply, Terminal
  <1>13. ASSUME NEW i \in Intents, VenueAccepts(i) PROVE ReplyInv'
    <2>1. PICK o \in AcceptedAs(i) :
             /\ order' = [order EXCEPT ![i] = o]
             /\ reply' = IF Awaited(SubmitOf(i)) THEN Reply(o.status, {i}) ELSE reply
      BY <1>13 DEF VenueAccepts
    <2>2. /\ o.status # "absent"
          /\ o.status \in {"NEW", "PARTIALLY_FILLED"} \/ Terminal(o)
      BY AcknowledgedStatuses, Membership DEF AcceptedAs, Terminal
    <2>3. ~Terminal(order[i])
      BY <1>13 DEF VenueAccepts, BookInv, Terminal, Absent
    <2>4. /\ order'[i] = o
          /\ \A j \in Orders : j # i => order'[j] = order[j]
      BY <2>1, Membership DEF TypeOK, BookTypes
    <2>5. /\ UNCHANGED <<step, cmd>> /\ wire' = wire \ {SubmitOf(i)}
      BY <1>13 DEF VenueAccepts, clientUnchanged
    <2>6. CASE Awaited(SubmitOf(i))
      <3>1. reply' = [status |-> o.status, ids |-> {i}]
        BY <2>1, <2>6 DEF Reply
      <3> QED
        BY <2>2, <2>4, <2>5, <2>6, <3>1, CommandIdentity, Membership
        DEF ReplyInv, Awaited, InFlight, Outstanding, Terminal
    <2>7. CASE ~Awaited(SubmitOf(i))
      <3>1. reply' = reply
        BY <2>1, <2>7
      <3> QED
        BY <2>3, <2>4, <2>5, <2>7, <3>1, CommandIdentity, Membership
        DEF ReplyInv, Awaited, InFlight, Outstanding, TypeOK, Terminal
    <2> QED
      BY <2>6, <2>7
  <1>14. ASSUME NEW c \in Commands, VenueDrops(c) PROVE ReplyInv'
    BY <1>14, CommandIdentity, Membership DEF TypeOK, CommandInv, ReplyInv, Awaited,
       InFlight, Outstanding, NoReply, Terminal, VenueDrops, clientUnchanged, clientVars,
       preflightVars, readerVars, rebuildVars
  <1>15. ASSUME NEW i \in Orders, NEW o, order' = [order EXCEPT ![i] = o],
                o.status # "absent", Terminal(order[i]) => Terminal(o),
                UNCHANGED <<step, cmd, reply>>, wire' \subseteq wire
         PROVE  ReplyInv'
    <2>1. /\ order'[i] = o
          /\ \A j \in Orders : j # i => order'[j] = order[j]
      BY <1>15 DEF TypeOK, BookTypes
    <2>2. reply.ids \subseteq Orders
      BY DEF TypeOK
    <2> QED
      BY <1>15, <2>1, <2>2, Membership DEF ReplyInv, Awaited, InFlight, Outstanding,
         Terminal
  <1>16. ASSUME NEW i \in Orders, \/ VenueFills(i) \/ VenueExpires(i)
                                  \/ i \in Others /\ (OtherPlaces(i) \/ OtherCancels(i))
         PROVE  ReplyInv'
    <2>1. UNCHANGED <<step, cmd, reply, wire>> /\ ~Terminal(order[i])
      BY <1>16 DEF VenueFills, VenueExpires, OtherPlaces, OtherCancels, clientUnchanged,
         Resting, Terminal, Absent
    <2>2. \E o : order' = [order EXCEPT ![i] = o] /\ o.status # "absent"
      <3>1. CASE VenueFills(i)
        <4>1. PICK f : order' = [order EXCEPT ![i] =
                                     [status |-> FillStatus(i, f), filled |-> f]]
          BY <3>1 DEF VenueFills
        <4>2. [status |-> FillStatus(i, f), filled |-> f].status # "absent"
          BY DEF FillStatus
        <4> QED
          BY <4>1, <4>2
      <3>2. CASE VenueExpires(i) \/ OtherCancels(i)
        <4>1. PICK x \in {"EXPIRED", "CANCELED"} : order' = [order EXCEPT ![i].status = x]
          BY <3>2 DEF VenueExpires, OtherCancels
        <4>2. order' = [order EXCEPT ![i] = [order[i] EXCEPT !.status = x]]
          BY <4>1
        <4>3. [order[i] EXCEPT !.status = x].status = x
          BY DEF TypeOK, BookTypes
        <4> QED
          BY <4>2, <4>3
      <3>3. CASE OtherPlaces(i)
        BY <3>3, AcknowledgedStatuses DEF OtherPlaces, AcceptedAs
      <3> QED
        BY <1>16, <3>1, <3>2, <3>3
    <2> QED
      BY <1>15, <2>1, <2>2
  <1>17. ASSUME NEW i \in Orders, VenueReceipts(i) PROVE ReplyInv'
    BY <1>17, CommandIdentity, Membership DEF TypeOK, CommandInv, ReplyInv, Awaited,
       InFlight, Outstanding, NoReply, Terminal, VenueReceipts, clientUnchanged,
       clientVars, preflightVars, readerVars, rebuildVars, Reply
  <1>18. ASSUME NEW i \in Orders, VenueCancels(i) PROVE ReplyInv'
    <2>1. UNCHANGED <<step, cmd>> /\ wire' = wire \ {CancelOf(i)}
      BY <1>18 DEF VenueCancels, clientUnchanged
    <2>2. CASE Resting(order[i])
      <3>1. order' = [order EXCEPT ![i].status = "CANCELED"]
        BY <1>18, <2>2 DEF VenueCancels
      <3>2. /\ order'[i].status = "CANCELED"
            /\ \A j \in Orders : j # i => order'[j] = order[j]
        BY <3>1 DEF TypeOK, BookTypes
      <3>3. CASE Awaited(CancelOf(i)) /\ reply = NoReply
        <4>1. reply' = [status |-> "CANCELED", ids |-> {i}]
          BY <1>18, <2>2, <3>3 DEF VenueCancels, Reply
        <4> QED
          BY <2>1, <3>2, <3>3, <4>1, CommandIdentity, Membership DEF ReplyInv, Awaited,
             InFlight, Outstanding, Terminal
      <3>4. CASE ~(Awaited(CancelOf(i)) /\ reply = NoReply)
        <4>1. reply' = reply
          BY <1>18, <2>2, <3>4 DEF VenueCancels
        <4> QED
          BY <2>1, <3>2, <4>1, CommandIdentity, Membership DEF ReplyInv, Awaited,
             InFlight, Outstanding, Terminal, TypeOK
      <3> QED
        BY <3>3, <3>4
    <2>3. CASE ~Resting(order[i])
      <3>1. UNCHANGED <<order, reply>>
        BY <1>18, <2>3 DEF VenueCancels
      <3> QED
        BY <2>1, <3>1 DEF ReplyInv, Awaited, InFlight, Outstanding
    <2> QED
      BY <2>2, <2>3
  <1>19. ASSUME NEW w \in Sweeps, VenueSweeps(w) PROVE ReplyInv'
    <2>1. PICK swept \in SUBSET {i \in Of(Symbol[w]) : Resting(order[i])} :
             /\ order' = [i \in Orders |-> IF i \in swept
                            THEN [order[i] EXCEPT !.status = "CANCELED"] ELSE order[i]]
             /\ reply' = IF Awaited(SweepOf(w)) THEN Reply("swept", swept) ELSE reply
      BY <1>19 DEF VenueSweeps
    <2>2. /\ swept \subseteq Orders
          /\ \A i \in swept : Terminal(order'[i])
          /\ \A i \in Orders \ swept : order'[i] = order[i]
      BY <2>1 DEF Of, Terminal, TypeOK, BookTypes
    <2>3. UNCHANGED <<step, cmd>> /\ wire' = wire \ {SweepOf(w)}
      BY <1>19 DEF VenueSweeps, clientUnchanged
    <2>4. CASE Awaited(SweepOf(w))
      <3>1. reply' = [status |-> "swept", ids |-> swept]
        BY <2>1, <2>4 DEF Reply
      <3> QED
        BY <2>2, <2>3, <2>4, <3>1, CommandIdentity DEF ReplyInv, Awaited, InFlight,
           Outstanding
    <2>5. CASE ~Awaited(SweepOf(w))
      <3>1. reply' = reply
        BY <2>1, <2>5
      <3>2. \A i \in Orders : Terminal(order'[i]) \/ order'[i] = order[i]
        BY <2>2
      <3>3. \A i \in Orders : order[i].status # "absent" => order'[i].status # "absent"
        BY <3>2 DEF Terminal
      <3> QED
        BY <2>3, <3>1, <3>2, <3>3, Membership DEF ReplyInv, Awaited, InFlight,
           Outstanding, Terminal, TypeOK
    <2> QED
      BY <2>4, <2>5
  <1>20. CASE Trader
    BY <1>1, <1>2, <1>3, <1>4, <1>5, <1>6, <1>7, <1>8, <1>9, <1>10, <1>11, <1>12,
       <1>20, <1>23 DEF Trader
  <1>22. CASE Venue
    BY <1>1, <1>13, <1>14, <1>16, <1>17, <1>18, <1>19, <1>22, Membership DEF Venue
  <1> QED
    BY <1>1, <1>20, <1>22 DEF Next
-----------------------------------------------------------------------------
(* Orders that can still trade, and cancellations. *)

\* What a rebuild has dropped stays on the history's record.
LEMMA DropsAreKept ==
  ASSUME [Next]_vars
  PROVE  dropped \subseteq dropped'
  <1>1. CASE Trader
    BY <1>1 DEF Trader, Authenticate, AuthenticateFails, PrepareOrder, SubmitBegins,
       CheckAndSend, SubmitAcked, ReadPositions, ReadOpenOrders, PreflightRefuses,
       OutcomeUnknown, AnswerRebuilds, CancelSend, CancelAcked, SweepSend,
       SweepDropsOpen, SweepAcked, rebuildVars
  <1>2. ASSUME NEW r \in Readers, Reader(r) PROVE dropped \subseteq dropped'
    BY <1>2 DEF Reader, QueryReads, QueryPops, QueryRebuilds, QueryApplies, QueryRaises,
       rebuildVars
  <1>3. CASE Venue \/ SessionExpires \/ UNCHANGED vars
    BY <1>3, VenueWrites DEF SessionExpires, rebuildVars, vars
  <1> QED
    BY <1>1, <1>2, <1>3 DEF Next

\* An order that has ended, or that a rebuild has dropped, stays so.
LEMMA DoneForGood ==
  ASSUME TypeOK, CommandInv, BookInv, [Next]_vars, NEW i \in Orders, Done(i)
  PROVE  Done(i)'
  <1>1. dropped \subseteq dropped'
    BY DropsAreKept
  <1>2. Terminal(order[i]) => order'[i] = order[i]
    <2>1. CASE Venue
      BY <2>1, VenueMoves
    <2>2. CASE ~Venue
      BY <2>2, TraderKeepsBook, QueryWrites DEF Next, SessionExpires, venueVars, vars
    <2> QED
      BY <2>1, <2>2
  <1> QED
    BY <1>1, <1>2 DEF Done

\* Every step keeps live orders accounted for.
LEMMA NextNoForgottenOrder == IInv /\ [Next]_vars => NoForgottenOrder'
  <1> SUFFICES ASSUME IInv, [Next]_vars PROVE NoForgottenOrder'
    OBVIOUS
  <1> USE DEF IInv
  <1>1. ASSUME UNCHANGED <<order, open, dropped>>, uncertain \subseteq uncertain'
        PROVE  NoForgottenOrder'
    BY <1>1 DEF NoForgottenOrder, Resting
  <1>2. ASSUME NEW i \in Intents, SubmitAcked(i) PROVE NoForgottenOrder'
    <2>1. reply # NoReply
      BY <1>2, AcknowledgedStatuses, Membership DEF SubmitAcked, NoReply
    <2>2. reply.status \in {"NEW", "PARTIALLY_FILLED"} \/ Terminal(order[i])
      BY <1>2, <2>1 DEF SubmitAcked, ReplyInv, Awaited
    <2>3. Resting(order[i]) => i \in open'
      BY <1>2, <2>2 DEF SubmitAcked, OpenAfterAck, Resting, Terminal
    <2>4. \A j \in Intents : j # i => SubmitOf(j) # cmd
      BY <1>2, CommandIdentity DEF SubmitAcked
    <2>5. open \subseteq open' /\ UNCHANGED <<order, dropped>>
      BY <1>2 DEF SubmitAcked, OpenAfterAck
    <2> QED
      BY <1>2, <2>3, <2>4, <2>5 DEF NoForgottenOrder, SubmitAcked, Resting
  <1>3. ASSUME NEW ids, StoresRebuild("trader", ids), step = "rebuild",
               \A i \in ids : Terminal(order[i]), UNCHANGED <<order, dropped>>,
               \A i \in Intents : SubmitOf(i) \in uncertain => SubmitOf(i) \in uncertain'
        PROVE  NoForgottenOrder'
    <2> SUFFICES ASSUME NEW i \in Intents, Resting(order[i])
                 PROVE  i \in open' \/ SubmitOf(i) \in uncertain' \/ i \in dropped'
      BY <1>3 DEF NoForgottenOrder, Resting
    <2>1. ~Terminal(order[i])
      BY DEF Terminal, Resting
    <2>2. CASE i \in open
      <3>1. i \in viewing["trader"] \/ i \in dropped
        BY <1>3, <2>1, <2>2 DEF RebuildInv, Done
      <3> QED
        BY <1>3, <2>1, <3>1 DEF StoresRebuild
    <2> QED
      BY <1>3, <2>2 DEF NoForgottenOrder
  <1>4. ASSUME NEW i \in Orders, CancelAcked(i) PROVE NoForgottenOrder'
    <2>1. \A j \in Intents : SubmitOf(j) # cmd
      BY <1>4, CommandIdentity DEF CancelAcked
    <2>2. CASE step = "rebuild"
      <3>1. Terminal(order[i])
        BY <1>4, <2>2 DEF CancelAcked, ReplyInv, InFlight
      <3> QED
        BY <1>3, <1>4, <2>1, <2>2, <3>1 DEF CancelAcked
    <2>3. CASE step # "rebuild"
      BY <1>4, <2>1, <2>3 DEF CancelAcked, NoForgottenOrder, Resting
    <2> QED
      BY <2>2, <2>3
  <1>5. ASSUME NEW w \in Sweeps, SweepDropsOpen(w) PROVE NoForgottenOrder'
    <2>1. \A i \in reply.ids : Terminal(order[i])
      BY <1>5 DEF SweepDropsOpen, ReplyInv, InFlight
    <2> QED
      BY <1>3, <1>5, <2>1 DEF SweepDropsOpen, clientVars, venueVars
  <1>6. ASSUME NEW w \in Sweeps, SweepAcked(w) PROVE NoForgottenOrder'
    <2>1. \A j \in Intents : SubmitOf(j) # cmd
      BY <1>6, CommandIdentity DEF SweepAcked
    <2> QED
      BY <1>6, <2>1 DEF SweepAcked, NoForgottenOrder, Resting, rebuildVars
  <1>7. CASE Trader
    <2>1. ASSUME \/ Authenticate \/ AuthenticateFails \/ ReadPositions \/ ReadOpenOrders
                 \/ PreflightRefuses \/ OutcomeUnknown \/ AnswerRebuilds
                 \/ \E i \in Intents, n \in Nonces : PrepareOrder(i, n)
                 \/ \E i \in Intents : SubmitBegins(i) \/ CheckAndSend(i)
                 \/ \E i \in Orders : CancelSend(i)
                 \/ \E w \in Sweeps : SweepSend(w)
          PROVE  UNCHANGED <<open, dropped>> /\ uncertain \subseteq uncertain'
      BY <2>1 DEF Authenticate, AuthenticateFails, PrepareOrder, SubmitBegins,
         CheckAndSend, ReadPositions, ReadOpenOrders, PreflightRefuses, OutcomeUnknown,
         AnswerRebuilds, CancelSend, SweepSend, clientVars, rebuildVars
    <2> QED
      BY <1>1, <1>2, <1>4, <1>5, <1>6, <1>7, <2>1, TraderKeepsBook DEF Trader
  <1>8. ASSUME NEW r \in Readers, Reader(r) PROVE NoForgottenOrder'
    <2>1. UNCHANGED <<order, uncertain>>
      BY <1>8, QueryWrites
    <2>2. CASE QueryApplies(r)
      <3>1. /\ open' = viewing[r] \ reading[r]
            /\ dropped' = dropped \union ((open \ reading[r]) \ viewing[r])
        BY <2>2 DEF QueryApplies, StoresRebuild
      <3>2. \A i \in reading[r] : ~Resting(order[i])
        BY DEF BookInv, Terminal, Resting
      <3> QED
        BY <2>1, <3>1, <3>2 DEF NoForgottenOrder, Resting
    <2>3. CASE ~QueryApplies(r)
      <3>1. UNCHANGED <<open, dropped>>
        BY <1>8, <2>3 DEF Reader, QueryReads, QueryPops, QueryRebuilds, QueryRaises,
           rebuildVars
      <3> QED
        BY <1>1, <2>1, <3>1
    <2> QED
      BY <2>2, <2>3
  <1>9. CASE Venue
    <2>1. UNCHANGED <<open, uncertain, dropped>>
      BY <1>9, VenueWrites
    <2>2. \A i \in Intents : order'[i] = order[i] \/ Resting(order[i]) \/ VenueAccepts(i)
      BY <1>9, VenueMoves, Membership
    <2>3. \A i \in Intents : VenueAccepts(i) => SubmitOf(i) \in uncertain
      BY DEF VenueAccepts, CommandInv
    <2> QED
      BY <2>1, <2>2, <2>3 DEF NoForgottenOrder, Resting
  <1>10. CASE SessionExpires \/ UNCHANGED vars
    BY <1>1, <1>10 DEF SessionExpires, clientVars, rebuildVars, venueVars, vars
  <1> QED
    BY <1>7, <1>8, <1>9, <1>10 DEF Next

\* Every step keeps the accounting of cancellations.
LEMMA NextCancelInv == IInv /\ [Next]_vars => CancelInv'
  <1> SUFFICES ASSUME IInv, [Next]_vars PROVE CancelInv'
    OBVIOUS
  <1> USE DEF IInv
  <1>1. cancelAttempted \subseteq Orders /\ \A r \in Readers : reading[r] \subseteq Orders
    BY DEF TypeOK
  <1>2. ASSUME UNCHANGED <<order, cancelAttempted, pending>>,
               uncertain \subseteq uncertain', Preflight' => Preflight
        PROVE  CancelInv'
    BY <1>2 DEF CancelInv, Terminal
  <1>3. ASSUME NEW i \in Intents, SubmitBegins(i) PROVE CancelInv'
    <2>1. UNCHANGED <<order, cancelAttempted, pending, uncertain>> /\ pending = {}
      BY <1>3 DEF SubmitBegins, NoPendingCancels, clientVars, venueVars
    <2> QED
      BY <2>1 DEF CancelInv, Terminal
  <1>4. ASSUME NEW i \in Intents, SubmitAcked(i) PROVE CancelInv'
    <2>1. /\ \A j \in Orders : CancelOf(j) # cmd
          /\ UNCHANGED <<order, cancelAttempted, pending>>
          /\ uncertain' = uncertain \ {cmd} /\ ~Preflight'
      BY <1>4, CommandIdentity DEF SubmitAcked, Preflight
    <2> QED
      BY <1>1, <2>1 DEF CancelInv, Terminal
  <1>5. ASSUME NEW i \in Orders, CancelSend(i) PROVE CancelInv'
    BY <1>5 DEF CancelSend, CancelInv, Terminal, Preflight
  <1>6. ASSUME NEW i \in Orders, CancelAcked(i) PROVE CancelInv'
    <2>1. /\ \A j \in Orders : j # i => CancelOf(j) # cmd
          /\ UNCHANGED <<order, cancelAttempted>> /\ pending \subseteq pending'
          /\ uncertain' = uncertain \ {cmd} /\ ~Preflight'
      BY <1>6, CommandIdentity DEF CancelAcked, Preflight
    <2>2. Terminal(order[i]) \/ i \in pending'
      BY <1>6 DEF CancelAcked, ReplyInv, InFlight
    <2> QED
      BY <1>1, <2>1, <2>2 DEF CancelInv, Terminal
  <1>7. ASSUME NEW w \in Sweeps, SweepAcked(w) PROVE CancelInv'
    <2>1. /\ \A j \in Orders : CancelOf(j) # cmd
          /\ UNCHANGED <<order, cancelAttempted>> /\ pending' = pending \ reply.ids
          /\ uncertain' = uncertain \ {cmd} /\ ~Preflight'
      BY <1>7, CommandIdentity DEF SweepAcked, Preflight
    <2>2. \A i \in reply.ids : Terminal(order[i])
      BY <1>7 DEF SweepAcked, ReplyInv, InFlight
    <2> QED
      BY <1>1, <2>1, <2>2 DEF CancelInv, Terminal
  <1>8. ASSUME Trader,
               \/ Authenticate \/ AuthenticateFails \/ ReadPositions \/ ReadOpenOrders
               \/ PreflightRefuses \/ OutcomeUnknown \/ AnswerRebuilds
               \/ \E i \in Intents, n \in Nonces : PrepareOrder(i, n)
               \/ \E i \in Intents : CheckAndSend(i)
               \/ \E w \in Sweeps : SweepSend(w) \/ SweepDropsOpen(w)
        PROVE  CancelInv'
    <2>1. /\ UNCHANGED <<cancelAttempted, pending>>
          /\ uncertain \subseteq uncertain' /\ (Preflight' => Preflight)
      BY <1>8 DEF Authenticate, AuthenticateFails, PrepareOrder, CheckAndSend,
         ReadPositions, ReadOpenOrders, PreflightRefuses, OutcomeUnknown, AnswerRebuilds,
         SweepSend, SweepDropsOpen, clientVars, Preflight
    <2> QED
      BY <1>2, <1>8, <2>1, TraderKeepsBook
  <1>9. ASSUME NEW r \in Readers, Reader(r) PROVE CancelInv'
    <2>1. UNCHANGED <<order, cancelAttempted, uncertain, step>>
      BY <1>9, QueryWrites
    <2>2. pending' \in {pending, pending \ reading[r]}
      BY <1>9 DEF Reader, QueryReads, QueryPops, QueryRebuilds, QueryApplies, QueryRaises
    <2>3. \A i \in reading[r] : Terminal(order[i])
      BY DEF BookInv
    <2> QED
      BY <2>1, <2>2, <2>3 DEF CancelInv, Terminal, Preflight
  <1>10. CASE Venue
    <2>1. UNCHANGED <<cancelAttempted, pending, uncertain, step>>
      BY <1>10, VenueWrites
    <2>2. \A i \in Orders : Terminal(order[i]) => order'[i] = order[i]
      BY <1>10, VenueMoves
    <2> QED
      BY <1>1, <2>1, <2>2 DEF CancelInv, Terminal, Preflight
  <1>11. CASE SessionExpires \/ UNCHANGED vars
    BY <1>2, <1>11 DEF SessionExpires, clientVars, venueVars, vars, Preflight
  <1>12. CASE Trader
    BY <1>3, <1>4, <1>5, <1>6, <1>7, <1>8, <1>12 DEF Trader
  <1> QED
    BY <1>9, <1>10, <1>11, <1>12 DEF Next

\* Every step keeps the copies of _open faithful but for what is dropped.
LEMMA NextRebuildInv == IInv /\ [Next]_vars => RebuildInv'
  <1> SUFFICES ASSUME IInv, [Next]_vars PROVE RebuildInv'
    OBVIOUS
  <1> USE DEF IInv
  <1>1. \A i \in Intents : Done(i) => Done(i)'
    BY DoneForGood, Membership
  <1>2. /\ open \subseteq Intents /\ viewing \in [Threads -> SUBSET Intents]
        /\ \A r \in Readers : r \in Threads /\ r # "trader"
        /\ "trader" \in Threads
    BY Membership DEF TypeOK
  <1>3. ASSUME UNCHANGED <<open, viewing, current, resized>>,
               step' = step \/ (step \notin {"rebuild", "pending"} /\ step' # "rebuild")
        PROVE  RebuildInv'
    BY <1>1, <1>2, <1>3 DEF RebuildInv
  <1>4. ASSUME NEW i \in Intents, SubmitAcked(i) PROVE RebuildInv'
    <2>1. /\ open \subseteq open' /\ step = "await" /\ step' = "idle"
          /\ viewing' = [t \in Threads |-> IF t \in current THEN open' ELSE viewing[t]]
          /\ resized' \subseteq resized \union current /\ UNCHANGED current
      BY <1>4 DEF SubmitAcked, OpenAfterAck
    <2> QED
      BY <1>1, <1>2, <2>1 DEF RebuildInv
  <1>5. ASSUME OutcomeUnknown PROVE RebuildInv'
    <2>1. /\ step \in {"await", "pending"} /\ step' = "idle"
          /\ UNCHANGED <<open, viewing, current>> /\ resized' = resized \ {"trader"}
      BY <1>5 DEF OutcomeUnknown, RebuildInv
    <2> QED
      BY <1>1, <1>2, <2>1 DEF RebuildInv
  <1>6. ASSUME NEW t \in Threads, BeginsRebuild(t), UNCHANGED <<open, resized>>,
               \/ t = "trader" /\ step = "await" /\ step' = "rebuild"
               \/ t # "trader" /\ step' = step
        PROVE  RebuildInv'
    <2>1. /\ viewing'[t] = open /\ current' = current \union {t}
          /\ \A u \in Threads : u # t => viewing'[u] = viewing[u]
      BY <1>2, <1>6 DEF BeginsRebuild
    <2> QED
      BY <1>1, <1>2, <1>6, <2>1 DEF RebuildInv
  <1>7. ASSUME NEW ids, StoresRebuild("trader", ids), step = "rebuild", step' # "rebuild",
               \A i \in ids : Terminal(order[i]), UNCHANGED resized
        PROVE  RebuildInv'
    <2>1. /\ open' = viewing["trader"] \ ids /\ viewing'["trader"] = {} /\ current' = {}
          /\ \A u \in Threads : u # "trader" => viewing'[u] = viewing[u]
      BY <1>2, <1>7 DEF StoresRebuild
    <2>2. ASSUME NEW u \in Threads, NEW i \in viewing'[u] PROVE i \in open' \/ Done(i)'
      <3>1. u # "trader" /\ i \in viewing[u] /\ i \in Intents
        BY <1>2, <2>1, <2>2
      <3>2. i \in viewing["trader"] \/ Done(i)
        BY <1>7, <3>1 DEF RebuildInv
      <3>3. i \in open' \/ Done(i)
        BY <1>7, <2>1, <3>2 DEF Done
      <3> QED
        BY <1>1, <3>1, <3>3
    <2>3. "trader" \notin resized'
      BY <1>7 DEF RebuildInv
    <2> QED
      BY <1>7, <2>1, <2>2, <2>3 DEF RebuildInv
  <1>8. ASSUME NEW i \in Orders, CancelAcked(i) PROVE RebuildInv'
    <2>1. CASE step = "rebuild"
      <3>1. Terminal(order[i])
        BY <1>8, <2>1 DEF CancelAcked, ReplyInv, InFlight
      <3> QED
        BY <1>7, <1>8, <2>1, <3>1 DEF CancelAcked
    <2>2. CASE step # "rebuild"
      BY <1>3, <1>8, <2>2 DEF CancelAcked
    <2> QED
      BY <2>1, <2>2
  <1>9. ASSUME NEW w \in Sweeps, SweepDropsOpen(w) PROVE RebuildInv'
    <2>1. \A i \in reply.ids : Terminal(order[i])
      BY <1>9 DEF SweepDropsOpen, ReplyInv, InFlight
    <2> QED
      BY <1>7, <1>9, <2>1 DEF SweepDropsOpen
  <1>10. ASSUME NEW w \in Sweeps, SweepAcked(w) PROVE RebuildInv'
    BY <1>1, <1>2, <1>10 DEF SweepAcked, RebuildInv, rebuildVars
  <1>11. CASE Trader
    <2>1. ASSUME \/ Authenticate \/ AuthenticateFails \/ ReadPositions \/ ReadOpenOrders
                 \/ PreflightRefuses
                 \/ \E i \in Intents, n \in Nonces : PrepareOrder(i, n)
                 \/ \E i \in Intents : SubmitBegins(i) \/ CheckAndSend(i)
                 \/ \E i \in Orders : CancelSend(i)
                 \/ \E w \in Sweeps : SweepSend(w)
          PROVE  /\ UNCHANGED <<open, viewing, current, resized>>
                 /\ step' = step \/ (step \notin {"rebuild", "pending"} /\ step' # "rebuild")
      BY <2>1 DEF Authenticate, AuthenticateFails, PrepareOrder, SubmitBegins,
         CheckAndSend, ReadPositions, ReadOpenOrders, PreflightRefuses, CancelSend,
         SweepSend, rebuildVars
    <2>2. ASSUME AnswerRebuilds PROVE RebuildInv'
      BY <1>2, <1>6, <2>2 DEF AnswerRebuilds
    <2> QED
      BY <1>3, <1>4, <1>5, <1>8, <1>9, <1>10, <1>11, <2>1, <2>2 DEF Trader
  <1>12. ASSUME NEW r \in Readers, Reader(r) PROVE RebuildInv'
    <2>1. UNCHANGED step
      BY <1>12, QueryWrites
    <2>2. ASSUME NEW i \in Orders, QueryReads(r, i) PROVE RebuildInv'
      BY <1>3, <2>2 DEF QueryReads, rebuildVars
    <2>3. CASE QueryPops(r)
      <3>1. /\ UNCHANGED <<open, viewing, current>>
            /\ "trader" \in resized' => "trader" \in resized \/ step = "pending"
        BY <2>3 DEF QueryPops
      <3> QED
        BY <1>1, <1>2, <2>1, <3>1 DEF RebuildInv
    <2>4. CASE QueryRebuilds(r)
      BY <1>2, <1>6, <2>1, <2>4 DEF QueryRebuilds
    <2>5. CASE QueryApplies(r)
      <3>1. /\ open' = viewing[r] \ reading[r] /\ viewing'[r] = {} /\ current' = {}
            /\ \A u \in Threads : u # r => viewing'[u] = viewing[u]
            /\ dropped' = dropped \union ((open \ reading[r]) \ viewing[r])
            /\ UNCHANGED <<order, resized>>
        BY <1>2, <2>5 DEF QueryApplies, StoresRebuild, venueVars
      <3>2. \A i \in reading[r] : Terminal(order[i])
        BY DEF BookInv
      <3>3. ASSUME NEW u \in Threads, NEW i \in viewing'[u] PROVE i \in open' \/ Done(i)'
        <4>1. i \in viewing[u] /\ i \in Intents
          BY <1>2, <3>1, <3>3
        <4>2. i \in open \/ Done(i)
          BY <4>1 DEF RebuildInv
        <4>3. i \in open => i \in open' \/ Done(i)'
          BY <3>1, <3>2 DEF Done
        <4> QED
          BY <1>1, <4>1, <4>2, <4>3
      <3>4. ASSUME step = "rebuild", NEW i \in open'
            PROVE  i \in viewing'["trader"] \/ Done(i)'
        <4>1. i \in viewing[r] /\ i \in Intents
          BY <1>2, <3>1, <3>4
        <4>2. i \in viewing["trader"] \/ Done(i)
          BY <1>2, <3>4, <4>1 DEF RebuildInv
        <4> QED
          BY <1>1, <1>2, <3>1, <4>1, <4>2
      <3> QED
        BY <2>1, <3>1, <3>3, <3>4 DEF RebuildInv
    <2>6. CASE QueryRaises(r)
      <3>1. /\ UNCHANGED open /\ viewing'[r] = {} /\ current' \subseteq current
            /\ \A u \in Threads : u # r => viewing'[u] = viewing[u]
            /\ resized' \subseteq resized
        BY <1>2, <2>6 DEF QueryRaises
      <3> QED
        BY <1>1, <1>2, <2>1, <3>1 DEF RebuildInv
    <2> QED
      BY <1>12, <2>2, <2>3, <2>4, <2>5, <2>6 DEF Reader
  <1>13. CASE Venue
    BY <1>3, <1>13, VenueWrites
  <1>14. CASE SessionExpires \/ UNCHANGED vars
    BY <1>3, <1>14 DEF SessionExpires, rebuildVars, vars
  <1> QED
    BY <1>11, <1>12, <1>13, <1>14 DEF Next
-----------------------------------------------------------------------------
\* The inductive invariant holds initially,
LEMMA InitIInv == Init => IInv
  <1> SUFFICES ASSUME Init PROVE IInv
    OBVIOUS
  <1>1. TypeOK
    BY InitTypeOK
  <1>2. \A i \in Orders : order[i] = Absent /\ proj[i] = Absent
    BY DEF Init
  <1>3. CommandInv /\ CancelInv /\ RebuildInv
    BY DEF Init, CommandInv, CancelInv, RebuildInv, Preflight, Outstanding
  <1>4. BookInv /\ ReplyInv /\ NoForgottenOrder
    BY <1>2, Membership DEF Init, BookInv, ReplyInv, NoForgottenOrder, Awaited, InFlight,
       Outstanding, Terminal, Resting, Absent
  <1> QED
    BY <1>1, <1>3, <1>4 DEF IInv

\* every step keeps it,
LEMMA NextIInv == IInv /\ [Next]_vars => IInv'
  BY NextTypeOK, NextCommandInv, NextBookInv, NextReplyInv, NextNoForgottenOrder,
     NextCancelInv, NextRebuildInv DEF IInv

\* and so it always holds.
LEMMA Invariance == Spec => []IInv
  BY InitIInv, NextIInv, PTL DEF Spec

\* Every order of this client that can still trade is in _open or among the uncertain
\* commands (client_orders.py), or was lost by the one race that loses orders: a query
\* storing a copy of _open older than the order (client_account.py:81).
THEOREM NothingForgotten == Spec => []NoForgottenOrder
  <1>1. IInv => NoForgottenOrder
    BY DEF IInv
  <1> QED
    BY <1>1, Invariance, PTL

\* submit_order never sends while a cancellation this client attempted may
\* still be undecided at the venue.
THEOREM CancelledBeforeReplaced == Spec => NoOverlapWithCancelled
  <1>1. IInv => \A i \in Intents : CheckAndSend(i) =>
                   \A o \in cancelAttempted : Terminal(order[o])
    <2> SUFFICES ASSUME IInv, NEW i \in Intents, CheckAndSend(i),
                        NEW o \in cancelAttempted
                 PROVE  Terminal(order[o])
      OBVIOUS
    <2>1. ~halted /\ pending = {}
      BY DEF CheckAndSend, IInv, CommandInv, CancelInv, Preflight
    <2>2. uncertain = {}
      BY <2>1 DEF CheckAndSend, IInv, CommandInv, InFlight
    <2> QED
      BY <2>1, <2>2 DEF IInv, CancelInv
  <1> QED
    BY <1>1, Invariance, PTL DEF NoOverlapWithCancelled
-----------------------------------------------------------------------------
(* The limits that hold of this client's own orders in the venue's book.   *)
(* Live orders, those still on their way included and those a rebuild lost *)
(* excepted, only grow when a placement is sent, and then every earlier    *)
(* one was among the open orders the preflight listed.                     *)

Live == {i \in Intents \ dropped : Resting(order[i]) \/ SubmitOf(i) \in wire}

\* When a placement is sent, every order that is live at the venue is among the
\* open orders its preflight read.
LEMMA SendSeesEveryLiveOrder ==
  ASSUME IInv, NEW i \in Intents, CheckAndSend(i)
  PROVE  Live \subseteq Listed /\ Live' \subseteq Live \union {i}
  <1>1. uncertain = {}
    BY DEF CheckAndSend, IInv, CommandInv, Preflight, InFlight
  <1>2. Live \subseteq open
    BY <1>1 DEF Live, IInv, NoForgottenOrder, CommandInv
  <1>3. open \subseteq Listed
    BY DEF CheckAndSend, Reconciled
  <1>4. order' = order /\ dropped' = dropped /\ wire' = wire \union {SubmitOf(i)}
    BY DEF CheckAndSend, rebuildVars
  <1>5. Live' \subseteq Live \union {i}
    BY <1>4, CommandIdentity DEF Live, Resting
  <1> QED
    BY <1>2, <1>3, <1>5

\* Only sending a placement makes an order live.
LEMMA OnlySendsAddLive ==
  ASSUME IInv, [Next]_vars, \A i \in Intents : ~CheckAndSend(i)
  PROVE  Live' \subseteq Live
  <1>1. dropped \subseteq dropped'
    BY DropsAreKept
  <1>2. ASSUME order' = order, \A i \in Intents : SubmitOf(i) \in wire' => SubmitOf(i) \in wire
        PROVE  Live' \subseteq Live
    BY <1>1, <1>2 DEF Live, Resting
  <1>3. CASE Trader
    <2>1. \/ UNCHANGED wire
          \/ \E i \in Orders : wire' = wire \union {CancelOf(i)}
          \/ \E w \in Sweeps : wire' = wire \union {SweepOf(w)}
      BY <1>3 DEF Trader, Authenticate, AuthenticateFails, PrepareOrder, SubmitBegins,
         SubmitAcked, ReadPositions, ReadOpenOrders, PreflightRefuses, OutcomeUnknown,
         AnswerRebuilds, CancelSend, CancelAcked, SweepSend, SweepDropsOpen, SweepAcked,
         venueVars
    <2> QED
      BY <1>2, <1>3, <2>1, TraderKeepsBook, CommandIdentity
  <1>4. CASE (\E r \in Readers : Reader(r)) \/ SessionExpires \/ UNCHANGED vars
    <2>1. UNCHANGED <<order, wire>>
      BY <1>4, QueryWrites DEF SessionExpires, venueVars, vars
    <2> QED
      BY <1>2, <2>1
  <1>5. CASE Venue
    <2>1. /\ wire' \subseteq wire
          /\ \A i \in Intents : \/ order'[i] = order[i] \/ Resting(order[i])
                                \/ SubmitOf(i) \in wire
      BY <1>5, VenueMoves, Membership DEF IInv, VenueAccepts
    <2> QED
      BY <1>1, <2>1 DEF Live, Resting
  <1> QED
    BY <1>3, <1>4, <1>5 DEF Next

\* No order is live at first.
LEMMA InitNoneLive == Init => Live = {}
  BY Membership DEF Init, Live, Resting, Absent

\* BOND_MAX_OPEN_ORDERS is never exceeded at the venue by this client's own orders, in
\* any market, however late the projection: BelowOrderLimit counts it, Reconciled
\* makes it complete for all of them but one that a query's rebuild lost.
THEOREM OrderLimitHolds == Spec => []OpenOrderLimit
  <1> DEFINE Few == Cardinality(Live) <= MaxOpenOrders
  <1>0. IsFiniteSet(Live) /\ IsFiniteSet(Live') /\ IsFiniteSet(Listed)
    BY OrdersAreFinite, Membership, FS_Subset DEF Live, Listed
  <1>1. Init => Few
    <2>1. Cardinality({}) = 0 /\ MaxOpenOrders \in Nat
      BY FS_EmptySet, ConstantTypes
    <2> QED
      BY <2>1, InitNoneLive
  <1>2. IInv /\ Few /\ [Next]_vars => Few'
    <2> SUFFICES ASSUME IInv, Few, [Next]_vars PROVE Few'
      OBVIOUS
    <2>1. ASSUME NEW i \in Intents, CheckAndSend(i) PROVE Few'
      <3>1. Live' \subseteq Listed \union {i}
        BY <2>1, SendSeesEveryLiveOrder
      <3>2. /\ IsFiniteSet(Listed \union {i})
            /\ Cardinality(Listed \union {i}) <= Cardinality(Listed) + 1
        <4>1. /\ IsFiniteSet(Listed \union {i})
              /\ \/ Cardinality(Listed \union {i}) = Cardinality(Listed)
                 \/ Cardinality(Listed \union {i}) = Cardinality(Listed) + 1
          BY <1>0, FS_AddElement
        <4>2. Cardinality(Listed) \in Nat
          BY <1>0, FS_CardinalityType
        <4> HIDE DEF Few
        <4> QED
          BY <4>1, <4>2
      <3>3. Cardinality(Live') <= Cardinality(Listed \union {i})
        BY <3>1, <3>2, FS_Subset
      <3>4. Cardinality(Listed) < MaxOpenOrders
        BY <2>1 DEF CheckAndSend, BelowOrderLimit
      <3>5. /\ Cardinality(Listed) \in Nat /\ Cardinality(Live') \in Nat
            /\ Cardinality(Listed \union {i}) \in Nat /\ MaxOpenOrders \in Nat
        BY <1>0, <3>2, FS_CardinalityType, ConstantTypes
      <3> HIDE DEF Live, Listed
      <3> QED
        BY <3>2, <3>3, <3>4, <3>5
    <2>2. CASE \A i \in Intents : ~CheckAndSend(i)
      <3>1. Live' \subseteq Live
        BY <2>2, OnlySendsAddLive
      <3>2. Cardinality(Live') <= Cardinality(Live)
        BY <1>0, <3>1, FS_Subset
      <3>3. /\ Cardinality(Live') \in Nat /\ Cardinality(Live) \in Nat
            /\ MaxOpenOrders \in Nat
        BY <1>0, FS_CardinalityType, ConstantTypes
      <3> QED
        BY <3>2, <3>3
    <2> QED
      BY <2>1, <2>2
  <1>3. Few => OpenOrderLimit
    <2> SUFFICES ASSUME Few, NEW s \in Symbols
                 PROVE  Cardinality({i \in Of(s) \cap (Intents \ dropped) :
                                        Resting(order[i]) \/ SubmitOf(i) \in wire})
                          <= MaxOpenOrders
      BY DEF OpenOrderLimit
    <2> DEFINE here == {i \in Of(s) \cap (Intents \ dropped) :
                           Resting(order[i]) \/ SubmitOf(i) \in wire}
    <2>1. here \subseteq Live
      BY DEF Live
    <2>2. Cardinality(here) <= Cardinality(Live) /\ IsFiniteSet(here)
      BY <1>0, <2>1, FS_Subset
    <2>3. Cardinality(here) \in Nat /\ Cardinality(Live) \in Nat /\ MaxOpenOrders \in Nat
      BY <1>0, <2>2, FS_CardinalityType, ConstantTypes
    <2> HIDE DEF here
    <2> QED
      BY <2>2, <2>3 DEF here
  <1> HIDE DEF Few
  <1> QED
    BY <1>1, <1>2, <1>3, Invariance, PTL DEF Spec

\* What the preflight lists is all in the market of the order it is for.
ListedInv == step = "check" => \A i \in Listed : Symbol[i] = Symbol[cmd.of]

\* The open orders a preflight compares are those ReadOpenOrders read for it.
LEMMA OnlyReadsList ==
  [Next]_vars => \/ ReadOpenOrders
                 \/ UNCHANGED <<step, cmd, leftRead>>
                 \/ step' # "check"
  <1> SUFFICES ASSUME [Next]_vars
               PROVE  \/ ReadOpenOrders
                      \/ UNCHANGED <<step, cmd, leftRead>>
                      \/ step' # "check"
    OBVIOUS
  <1>1. CASE Trader
    BY <1>1 DEF Trader, Authenticate, AuthenticateFails, PrepareOrder, SubmitBegins,
       CheckAndSend, SubmitAcked, ReadPositions, PreflightRefuses, OutcomeUnknown,
       AnswerRebuilds, CancelSend, CancelAcked, SweepSend, SweepDropsOpen, SweepAcked,
       preflightVars
  <1>2. CASE (\E r \in Readers : Reader(r)) \/ SessionExpires \/ UNCHANGED vars
    BY <1>2, QueryWrites DEF SessionExpires, preflightVars, vars
  <1>3. CASE Venue
    BY <1>3, VenueWrites
  <1> QED
    BY <1>1, <1>2, <1>3 DEF Next

\* A preflight only ever lists orders of its own market.
LEMMA ListsOneMarket == Spec => []ListedInv
  <1>1. Init => ListedInv
    BY DEF Init, ListedInv
  <1>2. ListedInv /\ [Next]_vars => ListedInv'
    BY OnlyReadsList DEF ReadOpenOrders, ListedInv, Listed
  <1> QED
    BY <1>1, <1>2, PTL DEF Spec

OneLiveMarket == \A i, j \in Live : Symbol[i] = Symbol[j]

\* A client with a live order in one market does not place one in another, unless it
\* lost the first to a query's rebuild.
THEOREM OneMarketAtATime == Spec => []OneActiveMarket
  <1>1. Init => OneLiveMarket
    BY InitNoneLive DEF OneLiveMarket
  <1>2. IInv /\ ListedInv /\ OneLiveMarket /\ [Next]_vars => OneLiveMarket'
    <2> SUFFICES ASSUME IInv, ListedInv, OneLiveMarket, [Next]_vars PROVE OneLiveMarket'
      OBVIOUS
    <2>1. ASSUME NEW i \in Intents, CheckAndSend(i) PROVE OneLiveMarket'
      <3>1. \A j \in Live : Symbol[j] = Symbol[i]
        BY <2>1, SendSeesEveryLiveOrder, CommandIdentity, Membership DEF CheckAndSend,
           ListedInv
      <3> QED
        BY <2>1, <3>1, SendSeesEveryLiveOrder DEF OneLiveMarket
    <2>2. CASE \A i \in Intents : ~CheckAndSend(i)
      BY <2>2, OnlySendsAddLive DEF OneLiveMarket
    <2> QED
      BY <2>1, <2>2
  <1>3. OneLiveMarket => OneActiveMarket
    BY DEF OneLiveMarket, OneActiveMarket, Live
  <1> QED
    BY <1>1, <1>2, <1>3, Invariance, ListsOneMarket, PTL DEF Spec
-----------------------------------------------------------------------------
(* Totals over sets of orders.  MapThenSumSet adds in an order CHOOSE picks; *)
(* these lemmas show that the order does not matter, with a smallest subset  *)
(* that would fail in place of an induction over the set.                    *)

\* A non-empty collection of subsets of a finite set has a smallest member: none
\* of its proper subsets is in the collection.
LEMMA SmallestSubset ==
  ASSUME NEW S, IsFiniteSet(S), NEW C \in SUBSET SUBSET S, C # {}
  PROVE  \E T \in C : \A U \in C : U \subseteq T => U = T
  <1>1. IsWellFoundedOn(StrictSubsetOrdering(S), SUBSET S)
    BY FS_StrictSubsetOrderingWellFounded, FS_FiniteSubsetsOfFinite
  <1>2. PICK T \in C : \A U \in C : <<U, T>> \notin StrictSubsetOrdering(S)
    BY <1>1, WFMin
  <1> QED
    BY <1>2 DEF StrictSubsetOrdering

\* The totals of left over the subsets of S, added in any order.
Adds(h, S, left) ==
  /\ h \in [SUBSET S -> Nat]
  /\ h[{}] = 0
  /\ \A T \in SUBSET S : \A x \in T : h[T] = left[x] + h[T \ {x}]

\* The subsets of a finite set have such totals.
LEMMA TotalsExist ==
  ASSUME NEW S, IsFiniteSet(S), NEW left, \A x \in S : left[x] \in Nat
  PROVE  \E h : Adds(h, S, left)
  <1> DEFINE Fails == {T \in SUBSET S : ~\E h : Adds(h, T, left)}
  <1> SUFFICES ASSUME S \in Fails PROVE FALSE
    OBVIOUS
  <1>1. PICK T \in Fails : \A U \in Fails : U \subseteq T => U = T
    <2>1. Fails \in SUBSET SUBSET S /\ Fails # {}
      OBVIOUS
    <2> HIDE DEF Fails
    <2> QED
      BY <2>1, SmallestSubset
  <1>2. T # {}
    <2>1. Adds([U \in SUBSET {} |-> 0], {}, left)
      BY DEF Adds
    <2> QED
      BY <1>1, <2>1
  <1>3. PICK x \in T : TRUE
    BY <1>2
  <1>4. PICK h : Adds(h, T \ {x}, left)
    <2>1. T \ {x} \notin Fails
      BY <1>1, <1>3
    <2> QED
      BY <1>1, <2>1
  <1> DEFINE k == [U \in SUBSET T |-> IF x \in U THEN left[x] + h[U \ {x}] ELSE h[U]]
  <1>5. h \in [SUBSET (T \ {x}) -> Nat] /\ h[{}] = 0 /\ left[x] \in Nat
    BY <1>1, <1>3, <1>4 DEF Adds
  <1>6. k \in [SUBSET T -> Nat]
    <2> SUFFICES ASSUME NEW U \in SUBSET T PROVE k[U] \in Nat
      OBVIOUS
    <2>1. U \ {x} \in SUBSET (T \ {x}) /\ (x \notin U => U = U \ {x})
      OBVIOUS
    <2> QED
      BY <2>1, <1>5
  <1>7. k[{}] = 0
    BY <1>5
  <1>8. ASSUME NEW U \in SUBSET T, NEW y \in U PROVE k[U] = left[y] + k[U \ {y}]
    <2>1. left[y] \in Nat
      BY <1>1
    <2>2. CASE y = x
      BY <2>2
    <2>3. CASE y # x /\ x \in U
      <3>1. U \ {x} \in SUBSET (T \ {x}) /\ y \in U \ {x} /\ x \in U \ {y}
        BY <2>3
      <3>2. h[U \ {x}] = left[y] + h[(U \ {x}) \ {y}]
        BY <1>4, <3>1 DEF Adds
      <3>3. (U \ {x}) \ {y} = (U \ {y}) \ {x} /\ (U \ {y}) \ {x} \in SUBSET (T \ {x})
        OBVIOUS
      <3>4. h[(U \ {y}) \ {x}] \in Nat /\ U \ {y} \in SUBSET T
        BY <1>5, <3>3
      <3>5. k[U] = left[x] + h[U \ {x}] /\ k[U \ {y}] = left[x] + h[(U \ {y}) \ {x}]
        BY <2>3, <3>1, <3>4
      <3>6. h[U \ {x}] = left[y] + h[(U \ {y}) \ {x}]
        BY <3>2, <3>3
      <3> HIDE DEF k
      <3> QED
        BY <2>1, <1>5, <3>4, <3>5, <3>6
    <2>4. CASE x \notin U
      <3>1. U \in SUBSET (T \ {x}) /\ x \notin U \ {y}
        BY <2>4
      <3>2. h[U] = left[y] + h[U \ {y}]
        BY <1>4, <3>1 DEF Adds
      <3> QED
        BY <2>4, <3>1, <3>2
    <2> QED
      BY <2>2, <2>3, <2>4
  <1>9. Adds(k, T, left)
    BY <1>6, <1>7, <1>8 DEF Adds
  <1> QED
    BY <1>1, <1>9

\* The equation by which the folds of the community modules define a sum.
Pick(s) == CHOOSE x \in s : TRUE
Solves(g, S, left) ==
  g = [s \in SUBSET S |-> IF s = {} THEN 0 ELSE left[Pick(s)] + g[s \ {Pick(s)}]]

\* TotalLeft, unfolded through MapThenSumSet and MapThenFoldSet.
LEMMA TotalLeftSolves ==
  ASSUME NEW S, NEW left
  PROVE  TotalLeft(S, left) = (CHOOSE g : Solves(g, S, left))[S]
  BY DEF TotalLeft, MapThenSumSet, MapThenFoldSet, Solves, Pick

\* Adding in the order CHOOSE picks gives the total of any order.
LEMMA TotalLeftAdds ==
  ASSUME NEW S, IsFiniteSet(S), NEW left, NEW h, Adds(h, S, left)
  PROVE  TotalLeft(S, left) = h[S]
  <1> DEFINE g == CHOOSE g : Solves(g, S, left)
  <1>1. \A s : s # {} => Pick(s) \in s
    BY DEF Pick
  <1>2. Solves(h, S, left)
    <2> DEFINE r == [s \in SUBSET S |->
                       IF s = {} THEN 0 ELSE left[Pick(s)] + h[s \ {Pick(s)}]]
    <2>1. \A s \in SUBSET S : h[s] = r[s]
      BY <1>1 DEF Adds
    <2>2. h = [s \in SUBSET S |-> h[s]]
      BY DEF Adds
    <2>3. h = r
      BY <2>1, <2>2
    <2> QED
      BY <2>3 DEF Solves
  <1>3. Solves(g, S, left)
    BY <1>2
  <1> HIDE DEF g
  <1> DEFINE Differ == {s \in SUBSET S : g[s] # h[s]}
  <1>4. Differ = {}
    <2> SUFFICES ASSUME Differ # {} PROVE FALSE
      OBVIOUS
    <2>1. PICK T \in Differ : \A U \in Differ : U \subseteq T => U = T
      <3>1. Differ \in SUBSET SUBSET S
        OBVIOUS
      <3> HIDE DEF Differ
      <3> QED
        BY <3>1, SmallestSubset
    <2>2. T # {}
      <3>1. {} \in SUBSET S
        OBVIOUS
      <3>2. g[{}] = 0
        BY <1>3, <3>1 DEF Solves
      <3> QED
        BY <2>1, <3>2 DEF Adds
    <2>3. Pick(T) \in T /\ T \in SUBSET S
      BY <1>1, <2>1, <2>2
    <2>4. g[T] = left[Pick(T)] + g[T \ {Pick(T)}]
      BY <1>3, <2>2, <2>3 DEF Solves
    <2>5. h[T] = left[Pick(T)] + h[T \ {Pick(T)}]
      BY <2>3 DEF Adds
    <2>6. g[T \ {Pick(T)}] = h[T \ {Pick(T)}]
      BY <2>1, <2>3
    <2> QED
      BY <2>1, <2>4, <2>5, <2>6
  <1>5. g[S] = h[S]
    BY <1>4
  <1> QED
    BY <1>5, TotalLeftSolves DEF g

\* The total of a finite set of orders is that of the others and what is left of one.
LEMMA TotalLeftStep ==
  ASSUME NEW S, IsFiniteSet(S), NEW left, \A i \in S : left[i] \in Nat
  PROVE  /\ TotalLeft(S, left) \in Nat
         /\ S = {} => TotalLeft(S, left) = 0
         /\ \A i \in S : TotalLeft(S, left) = left[i] + TotalLeft(S \ {i}, left)
  <1>1. PICK h : Adds(h, S, left)
    BY TotalsExist
  <1>2. TotalLeft(S, left) = h[S] /\ h[S] \in Nat /\ h[{}] = 0
    <2>1. TotalLeft(S, left) = h[S]
      BY <1>1, TotalLeftAdds
    <2> QED
      BY <1>1, <2>1 DEF Adds
  <1>3. ASSUME NEW i \in S PROVE TotalLeft(S, left) = left[i] + TotalLeft(S \ {i}, left)
    <2> DEFINE T == S \ {i}
               k == [U \in SUBSET T |-> h[U]]
    <2>1. IsFiniteSet(T)
      BY FS_Subset
    <2>2. \A U \in SUBSET T : U \in SUBSET S /\ h[U] \in Nat
      BY <1>1 DEF Adds
    <2>3. Adds(k, T, left)
      <3>1. k \in [SUBSET T -> Nat] /\ k[{}] = 0
        BY <2>2, <1>2
      <3>2. ASSUME NEW U \in SUBSET T, NEW x \in U PROVE k[U] = left[x] + k[U \ {x}]
        <4>1. U \ {x} \in SUBSET T
          OBVIOUS
        <4> QED
          BY <1>1, <2>2, <4>1 DEF Adds
      <3> QED
        BY <3>1, <3>2 DEF Adds
    <2>4. TotalLeft(T, left) = h[T]
      <3>1. TotalLeft(T, left) = k[T]
        BY <2>1, <2>3, TotalLeftAdds
      <3> QED
        BY <3>1
    <2>5. S \in SUBSET S /\ i \in S
      OBVIOUS
    <2>6. h[S] = left[i] + h[S \ {i}]
      BY <1>1, <2>5 DEF Adds
    <2> QED
      BY <1>2, <2>4, <2>6
  <1> QED
    BY <1>2, <1>3

\* What is left of some orders is no more than is counted of those among them
\* that are listed, when an order that is not listed has nothing left.
LEMMA TotalLeftMonotone ==
  ASSUME NEW S, IsFiniteSet(S), NEW L \in SUBSET S, NEW true, NEW left,
         \A i \in S : true[i] \in Nat /\ left[i] \in Nat,
         \A i \in S : IF i \in L THEN true[i] <= left[i] ELSE true[i] = 0
  PROVE  TotalLeft(S, true) <= TotalLeft(L, left)
  <1> DEFINE More == {T \in SUBSET S : ~(TotalLeft(T, true) <= TotalLeft(T \cap L, left))}
  <1>1. More = {}
    <2> SUFFICES ASSUME More # {} PROVE FALSE
      OBVIOUS
    <2>1. PICK T \in More : \A U \in More : U \subseteq T => U = T
      <3>1. More \in SUBSET SUBSET S
        OBVIOUS
      <3> HIDE DEF More
      <3> QED
        BY <3>1, SmallestSubset
    <2>2. \A U \in SUBSET S : IsFiniteSet(U)
      BY FS_Subset
    <2>3. T # {}
      <3>1. TotalLeft({}, true) = 0 /\ TotalLeft({}, left) = 0
        BY TotalLeftStep, FS_EmptySet
      <3>2. {} \cap L = {}
        OBVIOUS
      <3>3. {} \notin More
        BY <3>1, <3>2
      <3> QED
        BY <2>1, <3>3
    <2>4. PICK i \in T : TRUE
      BY <2>3
    <2>5. T \ {i} \in SUBSET S /\ T \ {i} \notin More
      BY <2>1, <2>4
    <2> DEFINE R == T \ {i}
    <2>6. TotalLeft(R, true) <= TotalLeft(R \cap L, left)
      BY <2>5
    <2>7. TotalLeft(T, true) = true[i] + TotalLeft(R, true) /\ TotalLeft(R, true) \in Nat
      BY <2>2, <2>4, <2>5, TotalLeftStep
    <2>8. TotalLeft(R \cap L, left) \in Nat
      BY <2>2, <2>5, TotalLeftStep
    <2>9. CASE i \in L
      <3>1. (T \cap L) \ {i} = R \cap L /\ i \in T \cap L /\ T \cap L \in SUBSET S
        BY <2>1, <2>4, <2>9
      <3>2. TotalLeft(T \cap L, left) = left[i] + TotalLeft((T \cap L) \ {i}, left)
        BY <2>2, <3>1, TotalLeftStep
      <3>3. true[i] <= left[i] /\ true[i] \in Nat /\ left[i] \in Nat
        BY <2>1, <2>4, <2>9
      <3>4. TotalLeft(T \cap L, left) = left[i] + TotalLeft(R \cap L, left)
        BY <3>1, <3>2
      <3>5. true[i] + TotalLeft(R, true) <= left[i] + TotalLeft(R \cap L, left)
        BY <2>6, <2>7, <2>8, <3>3
      <3>6. TotalLeft(T, true) <= TotalLeft(T \cap L, left)
        BY <2>7, <3>4, <3>5
      <3> QED
        BY <2>1, <3>6
    <2>10. CASE i \notin L
      <3>1. T \cap L = R \cap L /\ true[i] = 0
        BY <2>1, <2>4, <2>10
      <3>2. TotalLeft(T, true) <= TotalLeft(T \cap L, left)
        BY <2>6, <2>7, <2>8, <3>1
      <3> QED
        BY <2>1, <3>2
    <2> QED
      BY <2>9, <2>10
  <1>2. S \cap L = L
    OBVIOUS
  <1>3. S \in SUBSET S /\ S \notin More
    BY <1>1
  <1> QED
    BY <1>2, <1>3
-----------------------------------------------------------------------------
(* The position limit: what the preflight counted covers what can still fill. *)

\* The projection never shows more filled than the venue has filled.
LagInv == \A i \in Orders : proj[i].filled <= order[i].filled

\* What a preflight read as left of an order it lists is no less than what is.
ReadInv == step = "check" =>
    \A i \in Listed : Qty[i] - order[i].filled <= leftRead[i]

\* Orders only fill further, and the projection only ever copies the venue's book.
LEMMA FilledGrows ==
  ASSUME TypeOK, BookInv, [Next]_vars, NEW i \in Orders
  PROVE  /\ order[i].filled <= order'[i].filled
         /\ proj'[i] \in {proj[i], order[i]}
  <1>1. /\ order[i].filled \in Nat /\ order[i].filled <= order[i].filled
        /\ order \in [Orders -> [status : OrderStatuses, filled : Nat]]
        /\ proj \in [Orders -> [status : OrderStatuses, filled : Nat]]
    BY DEF TypeOK, BookTypes
  <1>2. CASE UNCHANGED <<order, proj>>
    BY <1>1, <1>2
  <1>3. ASSUME NEW j \in Intents, VenueAccepts(j)
        PROVE  order[i].filled <= order'[i].filled /\ proj' = proj
    <2>1. PICK o \in AcceptedAs(j) : order' = [order EXCEPT ![j] = o]
      BY <1>3 DEF VenueAccepts
    <2>2. o.filled \in Nat /\ order[j].filled = 0
      BY <1>3 DEF VenueAccepts, AcceptedAs, BookInv, Absent, ConstantTypes
    <2> QED
      BY <1>1, <1>3, <2>1, <2>2, Membership DEF VenueAccepts
  <1>12. ASSUME NEW j \in Others, OtherPlaces(j)
         PROVE  order[i].filled <= order'[i].filled /\ proj' = proj
    <2>1. PICK o \in AcceptedAs(j) : order' = [order EXCEPT ![j] = o]
      BY <1>12 DEF OtherPlaces
    <2>2. o.filled \in Nat /\ order[j].filled = 0
      BY <1>12 DEF OtherPlaces, AcceptedAs, Absent
    <2> QED
      BY <1>1, <1>12, <2>1, <2>2, Membership DEF OtherPlaces
  <1>13. ASSUME NEW j \in Others, OtherCancels(j)
         PROVE  order[i].filled <= order'[i].filled /\ proj' = proj
    BY <1>1, <1>13, Membership DEF OtherCancels
  <1>4. ASSUME NEW j \in Orders, VenueFills(j)
        PROVE  order[i].filled <= order'[i].filled /\ proj' = proj
    <2>1. PICK f \in (order[j].filled + 1)..Qty[j] :
             order' = [order EXCEPT ![j] = [status |-> FillStatus(j, f), filled |-> f]]
      BY <1>4 DEF VenueFills
    <2>2. order[j].filled <= f
      BY <1>1, <2>1
    <2> QED
      BY <1>1, <1>4, <2>1, <2>2 DEF VenueFills
  <1>5. ASSUME NEW j \in Orders, VenueExpires(j)
        PROVE  order[i].filled <= order'[i].filled /\ proj' = proj
    BY <1>1, <1>5 DEF VenueExpires
  <1>6. ASSUME NEW j \in Orders, VenueCancels(j)
        PROVE  order[i].filled <= order'[i].filled /\ proj' = proj
    BY <1>1, <1>6 DEF VenueCancels
  <1>7. ASSUME NEW w \in Sweeps, VenueSweeps(w)
        PROVE  order[i].filled <= order'[i].filled /\ proj' = proj
    BY <1>1, <1>7 DEF VenueSweeps
  <1>8. ASSUME NEW j \in Orders, Projects(j)
        PROVE  order' = order /\ proj'[i] \in {proj[i], order[i]}
    BY <1>1, <1>8 DEF Projects
  <1>9. CASE Trader
    BY <1>2, <1>9, TraderKeepsBook
  <1>10. CASE (\E r \in Readers : Reader(r)) \/ SessionExpires \/ UNCHANGED vars
    BY <1>2, <1>10, QueryWrites DEF SessionExpires, venueVars, vars
  <1>11. CASE Venue
    <2>1. ASSUME NEW j \in Orders, VenueReceipts(j) PROVE UNCHANGED <<order, proj>>
      BY <2>1 DEF VenueReceipts
    <2>2. ASSUME NEW c \in Commands, VenueDrops(c) PROVE UNCHANGED <<order, proj>>
      BY <2>2 DEF VenueDrops
    <2> QED
      BY <1>1, <1>2, <1>3, <1>4, <1>5, <1>6, <1>7, <1>8, <1>11, <1>12, <1>13, <2>1, <2>2
         DEF Venue
  <1> QED
    BY <1>9, <1>10, <1>11 DEF Next

\* Both relations hold in every reachable state.
LEMMA ReadsCover == Spec => [](LagInv /\ ReadInv)
  <1>1. Init => LagInv /\ ReadInv
    BY DEF Init, LagInv, ReadInv, Absent
  <1>2. IInv /\ LagInv /\ [Next]_vars => LagInv'
    <2> SUFFICES ASSUME IInv, LagInv, [Next]_vars, NEW i \in Orders
                 PROVE  proj'[i].filled <= order'[i].filled
      BY DEF LagInv
    <2>1. TypeOK' /\ TypeOK /\ BookInv
      BY NextTypeOK DEF IInv
    <2>2. /\ order[i].filled \in Nat /\ order'[i].filled \in Nat
          /\ proj[i].filled \in Nat
      BY <2>1 DEF TypeOK, BookTypes
    <2> QED
      BY <2>1, <2>2, FilledGrows DEF LagInv
  <1>3. IInv /\ LagInv /\ ReadInv /\ [Next]_vars => ReadInv'
    <2> SUFFICES ASSUME IInv, LagInv, ReadInv, [Next]_vars, step' = "check",
                        NEW i \in Listed'
                 PROVE  Qty[i] - order'[i].filled <= leftRead'[i]
      BY DEF ReadInv
    <2>1. TypeOK' /\ TypeOK /\ BookInv /\ i \in Orders
      BY NextTypeOK DEF IInv, Listed
    <2>2. /\ order[i].filled \in Nat /\ order'[i].filled \in Nat
          /\ proj[i].filled \in Nat /\ Qty[i] \in Nat
          /\ leftRead[i] \in Nat /\ leftRead'[i] \in Nat
      BY <2>1, ConstantTypes DEF TypeOK, BookTypes
    <2>3. order[i].filled <= order'[i].filled
      BY <2>1, FilledGrows
    <2>4. CASE UNCHANGED <<step, cmd, leftRead>>
      <3>1. Qty[i] - order[i].filled <= leftRead[i]
        BY <2>4 DEF ReadInv, Listed
      <3> QED
        BY <2>2, <2>3, <2>4, <3>1
    <2>5. CASE ReadOpenOrders
      <3>1. leftRead'[i] = Left(i, proj) /\ leftRead'[i] > 0
        BY <2>1, <2>5 DEF ReadOpenOrders, Listed
      <3>2. leftRead'[i] = Qty[i] - proj[i].filled
        BY <3>1 DEF Left
      <3> QED
        BY <2>1, <2>2, <2>3, <3>2 DEF LagInv
    <2> QED
      BY <2>4, <2>5, OnlyReadsList
  <1> QED
    BY <1>1, <1>2, <1>3, Invariance, PTL DEF Spec

\* At a send, no set of known orders has more left to fill than the preflight
\* counted for those of them it listed.
LEMMA ListedCoverWhatIsLeft ==
  ASSUME IInv, ListedInv, ReadInv, NEW i \in Intents, CheckAndSend(i),
         NEW S \in SUBSET Known
  PROVE  /\ TotalLeft(S, TrueLeft) <= TotalLeft(S \cap Listed, leftRead)
         /\ TotalLeft(S, TrueLeft) \in Nat /\ TotalLeft(S \cap Listed, leftRead) \in Nat
  <1>0. S \subseteq Orders
    BY Membership DEF Known, Listed
  <1>1. IsFiniteSet(S) /\ IsFiniteSet(S \cap Listed)
    BY <1>0, OrdersAreFinite, FS_Subset
  <1>2. ASSUME NEW j \in S
        PROVE  TrueLeft[j] \in Nat /\ leftRead[j] \in Nat
    <2>1. Qty[j] \in Nat /\ order[j].filled \in Nat /\ order[j].filled <= Qty[j]
      BY <1>0, ConstantTypes DEF IInv, TypeOK, BookTypes
    <2> QED
      BY <1>0, <2>1 DEF IInv, TypeOK, TrueLeft, Left
  <1>3. ASSUME NEW j \in S
        PROVE  IF j \in S \cap Listed THEN TrueLeft[j] <= leftRead[j] ELSE TrueLeft[j] = 0
    <2>1. CASE j \in Listed
      <3>1. Qty[j] - order[j].filled <= leftRead[j]
        BY <2>1 DEF CheckAndSend, ReadInv
      <3>2. TrueLeft[j] \in {0, Qty[j] - order[j].filled}
        BY <1>0 DEF TrueLeft, Left
      <3> QED
        BY <1>2, <2>1, <3>1, <3>2
    <2>2. CASE j \notin Listed
      BY <1>0, <2>2, SendSeesEveryLiveOrder DEF Known, Live, TrueLeft, Left
    <2> QED
      BY <2>1, <2>2
  <1>4. TotalLeft(S, TrueLeft) <= TotalLeft(S \cap Listed, leftRead)
    <2> DEFINE true == TrueLeft
               L == S \cap Listed
    <2>1. \A j \in S : true[j] \in Nat /\ leftRead[j] \in Nat
      BY <1>2
    <2>2. \A j \in S : IF j \in L THEN true[j] <= leftRead[j] ELSE true[j] = 0
      BY <1>3
    <2>3. L \in SUBSET S
      OBVIOUS
    <2> HIDE DEF true, L
    <2>4. TotalLeft(S, true) <= TotalLeft(L, leftRead)
      BY <1>1, <2>1, <2>2, <2>3, TotalLeftMonotone
    <2> QED
      BY <2>4 DEF true, L
  <1>5. TotalLeft(S, TrueLeft) \in Nat /\ TotalLeft(S \cap Listed, leftRead) \in Nat
    BY <1>1, <1>2, TotalLeftStep
  <1> QED
    BY <1>4, <1>5

\* When a placement leaves the client, the position its preflight read and all that
\* this client's orders, and those of others that it listed, can really still fill on
\* the placement's own side stay within BOND_MAX_POSITION (client_orders.py,
\* _live_preflight), however late the projection.
THEOREM RestingOrdersHaveRoom == Spec => RoomForEveryRestingOrder
  <1> DEFINE Room(i) ==
        LET known == Of(Symbol[i]) \cap Known
            buys  == TotalLeft(Buys(known), TrueLeft)
            sells == TotalLeft(Sells(known), TrueLeft)
        IN  /\ Side[i] = "BUY"  => posRead + buys + Qty[i] <= MaxPosition
            /\ Side[i] = "SELL" => posRead - sells - Qty[i] >= -MaxPosition
  <1>1. IInv /\ ListedInv /\ ReadInv => \A i \in Intents : CheckAndSend(i) => Room(i)
    <2> SUFFICES ASSUME IInv, ListedInv, ReadInv, NEW i \in Intents, CheckAndSend(i)
                 PROVE  Room(i)
      OBVIOUS
    <2> DEFINE known == Of(Symbol[i]) \cap Known
    <2>1. Listed \subseteq known /\ known \subseteq Known
      BY CommandIdentity DEF CheckAndSend, ListedInv, Listed, Of, Known
    <2>2. /\ Buys(known) \cap Listed = Buys(Listed) /\ Buys(known) \in SUBSET Known
          /\ Sells(known) \cap Listed = Sells(Listed) /\ Sells(known) \in SUBSET Known
      BY <2>1 DEF Buys, Sells
    <2>3. /\ posRead \in Int /\ Qty[i] \in Nat /\ MaxPosition \in Nat
          /\ Side[i] \in {"BUY", "SELL"}
      BY ConstantTypes, Membership DEF CheckAndSend, WithinPosition
    <2>4. CASE Side[i] = "BUY"
      <3>1. /\ TotalLeft(Buys(known), TrueLeft) <= TotalLeft(Buys(Listed), leftRead)
            /\ TotalLeft(Buys(known), TrueLeft) \in Nat
            /\ TotalLeft(Buys(Listed), leftRead) \in Nat
        BY <2>2, ListedCoverWhatIsLeft
      <3>2. posRead + (TotalLeft(Buys(Listed), leftRead) + Qty[i]) <= MaxPosition
        BY <2>3, <2>4, <3>1 DEF CheckAndSend, WithinPosition
      <3>3. posRead + TotalLeft(Buys(known), TrueLeft) + Qty[i] <= MaxPosition
        BY <2>3, <3>1, <3>2
      <3> QED
        BY <2>4, <3>3
    <2>5. CASE Side[i] = "SELL"
      <3>1. /\ TotalLeft(Sells(known), TrueLeft) <= TotalLeft(Sells(Listed), leftRead)
            /\ TotalLeft(Sells(known), TrueLeft) \in Nat
            /\ TotalLeft(Sells(Listed), leftRead) \in Nat
        BY <2>2, ListedCoverWhatIsLeft
      <3>2. posRead - (TotalLeft(Sells(Listed), leftRead) + Qty[i]) >= -MaxPosition
        BY <2>3, <2>5, <3>1 DEF CheckAndSend, WithinPosition
      <3>3. posRead - TotalLeft(Sells(known), TrueLeft) - Qty[i] >= -MaxPosition
        BY <2>3, <3>1, <3>2
      <3> QED
        BY <2>5, <3>3
    <2> QED
      BY <2>3, <2>4, <2>5
  <1> QED
    BY <1>1, Invariance, ListsOneMarket, ReadsCover, PTL DEF RoomForEveryRestingOrder
-----------------------------------------------------------------------------
(* OrderClient implements CommandLedger. *)

\* A step that moves no command and places nothing is a stutter of the ledger.
LEMMA LedgerStutter ==
  ASSUME UNCHANGED <<attempted, uncertain, order>>,
         \A c \in uncertain : InFlight(c)' <=> InFlight(c)
  PROVE  UNCHANGED Ledger!vars
  <1>1. LedgerStatus' = LedgerStatus
    BY DEF LedgerStatus
  <1>2. LedgerPlaced' = LedgerPlaced
    BY DEF LedgerPlaced
  <1> QED
    BY <1>1, <1>2 DEF Ledger!vars

\* The client files a command and sends it: Issue.
LEMMA SendIsIssue ==
  ASSUME IInv, NEW c \in Commands, c \notin attempted, ~Outstanding,
         c \in Placements => ~halted,
         attempted' = attempted \union {c}, uncertain' = uncertain \union {c},
         step' = "await", cmd' = c, order' = order
  PROVE  Ledger!Issue(c)
  <1>1. c \notin uncertain
    BY DEF IInv, CommandInv
  <1>2. LedgerStatus[c] = "new"
    BY DEF LedgerStatus
  <1>3. \A d \in Commands : LedgerStatus[d] # "sent"
    BY DEF LedgerStatus, InFlight, Outstanding
  <1>4. c \in Placements => \A d \in Commands : LedgerStatus[d] # "unknown"
    BY DEF LedgerStatus, IInv, CommandInv, InFlight, Outstanding
  <1>5. LedgerStatus' = [LedgerStatus EXCEPT ![c] = "sent"]
    BY <1>1 DEF LedgerStatus, InFlight, Outstanding
  <1>6. LedgerPlaced' = LedgerPlaced
    BY DEF LedgerPlaced
  <1> QED
    BY <1>2, <1>3, <1>4, <1>5, <1>6 DEF Ledger!Issue

\* An accepted answer: Acknowledge.
LEMMA AnswerIsAcknowledge ==
  ASSUME IInv, Outstanding, step' = "idle", uncertain' = uncertain \ {cmd},
         attempted' = attempted, order' = order, cmd' = NoCommand,
         \A i \in Intents : cmd = SubmitOf(i) => order[i].status # "absent"
  PROVE  cmd \in Commands /\ Ledger!Acknowledge(cmd)
  <1>1. cmd \in Commands /\ cmd \in uncertain /\ cmd \in attempted
    BY DEF IInv, TypeOK, CommandInv, Outstanding
  <1>2. LedgerStatus[cmd] = "sent"
    BY <1>1 DEF LedgerStatus, InFlight, Outstanding
  <1>3. cmd \in Placements => cmd \in LedgerPlaced
    BY CommandIdentity, Membership DEF LedgerPlaced
  <1>4. LedgerStatus' = [LedgerStatus EXCEPT ![cmd] = "acked"]
    BY <1>1 DEF LedgerStatus, InFlight
  <1>5. LedgerPlaced' = LedgerPlaced
    BY DEF LedgerPlaced
  <1> QED
    BY <1>1, <1>2, <1>3, <1>4, <1>5 DEF Ledger!Acknowledge

\* A lost, refused or unexpected answer: GiveUp.
LEMMA UnknownIsGiveUp ==
  ASSUME IInv, OutcomeUnknown
  PROVE  cmd \in Commands /\ Ledger!GiveUp(cmd)
  <1>1. cmd \in Commands /\ cmd \in uncertain /\ cmd \in attempted
    BY DEF IInv, TypeOK, CommandInv, RebuildInv, Outstanding, OutcomeUnknown
  <1>2. /\ Outstanding /\ step' = "idle"
        /\ UNCHANGED <<attempted, uncertain, order>>
    BY DEF OutcomeUnknown, clientVars, venueVars, IInv, RebuildInv, Outstanding
  <1>3. LedgerStatus[cmd] = "sent"
    BY <1>1, <1>2 DEF LedgerStatus, InFlight, Outstanding
  <1>4. LedgerStatus' = [LedgerStatus EXCEPT ![cmd] = "unknown"]
    BY <1>1, <1>2 DEF LedgerStatus, InFlight
  <1>5. LedgerPlaced' = LedgerPlaced
    BY <1>2 DEF LedgerPlaced
  <1> QED
    BY <1>1, <1>3, <1>4, <1>5 DEF Ledger!GiveUp

\* The venue accepts a placement, perhaps after the client gave up: Place.
LEMMA AcceptIsPlace ==
  ASSUME IInv, NEW i \in Intents, VenueAccepts(i)
  PROVE  Ledger!Place(SubmitOf(i))
  <1>1. SubmitOf(i) \in uncertain /\ SubmitOf(i) \in attempted /\ order[i] = Absent
    BY DEF IInv, CommandInv, BookInv, VenueAccepts
  <1>2. UNCHANGED <<attempted, uncertain, step, cmd>>
    BY DEF VenueAccepts, clientUnchanged, clientVars
  <1>3. LedgerStatus[SubmitOf(i)] \in {"sent", "unknown"}
    BY <1>1, CommandIdentity, Membership DEF LedgerStatus
  <1>4. SubmitOf(i) \notin LedgerPlaced
    BY <1>1, CommandIdentity, Membership DEF LedgerPlaced, Absent
  <1>5. PICK o \in AcceptedAs(i) : order' = [order EXCEPT ![i] = o]
    BY DEF VenueAccepts
  <1>6. o.status # "absent"
    BY AcknowledgedStatuses, Membership DEF AcceptedAs
  <1>7. \A j \in Intents : order'[j] = IF j = i THEN o ELSE order[j]
    BY <1>5, Membership DEF IInv, TypeOK, BookTypes
  <1>8. LedgerPlaced' = LedgerPlaced \union {SubmitOf(i)}
    BY <1>6, <1>7 DEF LedgerPlaced
  <1>9. LedgerStatus' = LedgerStatus
    BY <1>2 DEF LedgerStatus, InFlight
  <1> QED
    BY <1>3, <1>4, <1>8, <1>9 DEF Ledger!Place

\* The venue's other steps end orders and place none.
LEMMA VenueStutters ==
  ASSUME IInv, UNCHANGED <<attempted, uncertain, step, cmd>>,
         \A i \in Intents : order'[i].status = "absent" <=> order[i].status = "absent"
  PROVE  UNCHANGED Ledger!vars
  <1>1. LedgerStatus' = LedgerStatus
    BY DEF LedgerStatus, InFlight
  <1>2. LedgerPlaced' = LedgerPlaced
    BY DEF LedgerPlaced
  <1> QED
    BY <1>1, <1>2 DEF Ledger!vars

\* Every step of the client is a step of the ledger or a stutter.
LEMMA StepImplementsLedger == IInv /\ [Next]_vars => [Ledger!Next]_(Ledger!vars)
  <1> SUFFICES ASSUME IInv, [Next]_vars PROVE Ledger!Next \/ UNCHANGED Ledger!vars
    OBVIOUS
  <1>1. ASSUME UNCHANGED <<attempted, uncertain, order>>, ~Outstanding, ~Outstanding'
        PROVE  UNCHANGED Ledger!vars
    BY <1>1, LedgerStutter DEF InFlight, Outstanding
  <1>2. ASSUME UNCHANGED <<attempted, uncertain, order, cmd>>, Outstanding' <=> Outstanding
        PROVE  UNCHANGED Ledger!vars
    BY <1>2, LedgerStutter DEF InFlight, Outstanding
  <1>3. ASSUME NEW i \in Intents, CheckAndSend(i) PROVE Ledger!Next
    <2>1. /\ SubmitOf(i) \notin attempted /\ ~Outstanding /\ ~halted
          /\ attempted' = attempted \union {SubmitOf(i)}
          /\ uncertain' = uncertain \union {SubmitOf(i)}
          /\ step' = "await" /\ cmd' = SubmitOf(i) /\ order' = order
      BY <1>3 DEF CheckAndSend, IInv, CommandInv, Preflight, Outstanding
    <2> QED
      BY <2>1, SendIsIssue, CommandIdentity DEF Ledger!Next
  <1>4. ASSUME NEW i \in Orders, CancelSend(i) PROVE Ledger!Next
    <2>1. /\ CancelOf(i) \notin attempted /\ ~Outstanding
          /\ attempted' = attempted \union {CancelOf(i)}
          /\ uncertain' = uncertain \union {CancelOf(i)}
          /\ step' = "await" /\ cmd' = CancelOf(i) /\ order' = order
      BY <1>4 DEF CancelSend, Outstanding
    <2> QED
      BY <2>1, SendIsIssue, CommandIdentity DEF Ledger!Next
  <1>5. ASSUME NEW w \in Sweeps, SweepSend(w) PROVE Ledger!Next
    <2>1. /\ SweepOf(w) \notin attempted /\ ~Outstanding
          /\ attempted' = attempted \union {SweepOf(w)}
          /\ uncertain' = uncertain \union {SweepOf(w)}
          /\ step' = "await" /\ cmd' = SweepOf(w) /\ order' = order
      BY <1>5 DEF SweepSend, Outstanding
    <2> QED
      BY <2>1, SendIsIssue, CommandIdentity DEF Ledger!Next
  <1>6. ASSUME NEW i \in Intents, SubmitAcked(i) PROVE Ledger!Next
    <2>1. reply # NoReply
      BY <1>6, AcknowledgedStatuses, Membership DEF SubmitAcked, NoReply
    <2>2. order[i].status # "absent" /\ cmd = SubmitOf(i)
      BY <1>6, <2>1 DEF SubmitAcked, IInv, ReplyInv, Awaited
    <2>3. /\ Outstanding /\ step' = "idle" /\ cmd' = NoCommand
          /\ uncertain' = uncertain \ {cmd} /\ UNCHANGED <<attempted, order>>
      BY <1>6 DEF SubmitAcked, Outstanding
    <2> QED
      BY <2>2, <2>3, AnswerIsAcknowledge, CommandIdentity DEF Ledger!Next
  <1>7. ASSUME \/ \E i \in Orders : CancelAcked(i)
               \/ \E w \in Sweeps : SweepAcked(w)
        PROVE  Ledger!Next
    <2>1. /\ Outstanding /\ step' = "idle" /\ cmd' = NoCommand
          /\ uncertain' = uncertain \ {cmd} /\ UNCHANGED <<attempted, order>>
      BY <1>7 DEF CancelAcked, SweepAcked, Outstanding
    <2>2. \A i \in Intents : cmd # SubmitOf(i)
      BY <1>7, CommandIdentity DEF CancelAcked, SweepAcked
    <2> QED
      BY <2>1, <2>2, AnswerIsAcknowledge DEF Ledger!Next
  <1>8. ASSUME AnswerRebuilds \/ \E w \in Sweeps : SweepDropsOpen(w)
        PROVE  UNCHANGED Ledger!vars
    <2>1. UNCHANGED <<attempted, uncertain, order, cmd>> /\ Outstanding /\ Outstanding'
      BY <1>8 DEF AnswerRebuilds, SweepDropsOpen, clientVars, venueVars, Outstanding
    <2> QED
      BY <1>2, <2>1
  <1>9. CASE Trader
    <2>1. ASSUME \/ ReadPositions \/ ReadOpenOrders \/ PreflightRefuses
                 \/ \E i \in Intents : SubmitBegins(i)
          PROVE  UNCHANGED Ledger!vars
      <3>1. UNCHANGED <<attempted, uncertain, order>> /\ ~Outstanding /\ ~Outstanding'
        BY <2>1 DEF ReadPositions, ReadOpenOrders, PreflightRefuses, SubmitBegins,
           clientVars, venueVars, Outstanding
      <3> QED
        BY <1>1, <3>1
    <2>2. ASSUME \/ Authenticate \/ AuthenticateFails
                 \/ \E i \in Intents, n \in Nonces : PrepareOrder(i, n)
          PROVE  UNCHANGED Ledger!vars
      <3>1. UNCHANGED <<attempted, uncertain, order, step, cmd>>
        BY <2>2 DEF Authenticate, AuthenticateFails, PrepareOrder, clientVars, venueVars
      <3> QED
        BY <1>2, <3>1 DEF Outstanding
    <2>3. ASSUME OutcomeUnknown PROVE Ledger!Next
      BY <2>3, UnknownIsGiveUp DEF Ledger!Next
    <2> QED
      BY <1>3, <1>4, <1>5, <1>6, <1>7, <1>8, <1>9, <2>1, <2>2, <2>3 DEF Trader
  <1>10. CASE (\E r \in Readers : Reader(r)) \/ SessionExpires \/ UNCHANGED vars
    <2>1. UNCHANGED <<attempted, uncertain, order, step, cmd>>
      BY <1>10, QueryWrites DEF SessionExpires, clientVars, venueVars, vars
    <2> QED
      BY <1>2, <2>1 DEF Outstanding
  <1>11. CASE Venue
    <2>1. ASSUME NEW i \in Intents, VenueAccepts(i) PROVE Ledger!Next
      BY <2>1, AcceptIsPlace, CommandIdentity DEF Ledger!Next
    <2>2. ASSUME \A i \in Intents : ~VenueAccepts(i) PROVE UNCHANGED Ledger!vars
      <3>1. \A i \in Intents : order'[i].status = "absent" <=> order[i].status = "absent"
        BY <1>11, <2>2, VenueMoves, Membership DEF IInv, Resting
      <3> QED
        BY <1>11, <3>1, VenueWrites, VenueStutters
    <2> QED
      BY <2>1, <2>2
  <1> QED
    BY <1>9, <1>10, <1>11 DEF Next

\* Every behaviour of the client is one the ledger allows: commands leave at
\* most once, and no placement follows a command whose outcome is unknown.
THEOREM CommandsFollowLedger == Spec => ImplementsLedger
  <1>1. Init => Ledger!Init
    <2> SUFFICES ASSUME Init PROVE Ledger!Init
      OBVIOUS
    <2>1. LedgerStatus = [c \in Commands |-> "new"]
      BY DEF Init, LedgerStatus
    <2>2. LedgerPlaced = {}
      BY Membership DEF Init, LedgerPlaced, Absent
    <2> QED
      BY <2>1, <2>2 DEF Ledger!Init
  <1> QED
    BY <1>1, StepImplementsLedger, Invariance, PTL DEF Spec, ImplementsLedger, Ledger!Spec
=============================================================================
