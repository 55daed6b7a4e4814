---------------------------- MODULE OrderClient ----------------------------
(***************************************************************************)
(* The live command path of BondPerpDexClient: prepare_order, submit_order *)
(* with its preflight, cancel_order, cancel_all and the unknown-outcome    *)
(* halt (client_orders.py), query_order (client_account.py), and the       *)
(* session the commands need (client_session.py).                          *)
(*                                                                         *)
(* The trader holds the client's RLock for a whole command.  The readers   *)
(* call query_order, which takes no lock.  A thread may lose control after *)
(* any call and at the back-edge of any loop, so a rebuild of _open, which *)
(* copies the dict item by item and then stores the copy, is a step that   *)
(* begins and a step that stores, with the other threads' steps between.   *)
(*                                                                         *)
(* The venue is external: it may lose a request, act on it after the       *)
(* client gave up, fill or expire a resting order at any moment, and show  *)
(* all of this late in the account projection that the REST reads return.  *)
(* Its book also holds orders that this client did not place: those of the *)
(* account's other processes, and of earlier runs of this one.             *)
(*                                                                         *)
(* A client order ID stands for the order and for the UUID the venue gives *)
(* it.  Markets, signatures and request bodies are those that pass the     *)
(* client's checks on constant data; a preflight read or check that fails  *)
(* for a reason outside this model is PreflightRefuses.                    *)
(***************************************************************************)
EXTENDS Integers, FiniteSetsExt

CONSTANTS
    Intents,        \* client order IDs
    Others,         \* orders of the account that this client does not place
    Readers,        \* threads that call query_order
    Sweeps,         \* client IDs available to cancel_all commands
    Nonces,         \* order nonces the wallet may draw
    Symbol,         \* [Orders \union Sweeps -> symbol]
    Side,           \* [Orders -> {"BUY", "SELL"}]
    Qty,            \* [Orders -> Nat \ {0}]  base quantity, in lots
    Mode,           \* [Orders -> Modes]
    StartPosition,  \* [Symbols -> Int]  inventory before this process
    MaxPosition,    \* BOND_MAX_POSITION, in lots
    MaxOpenOrders,  \* BOND_MAX_OPEN_ORDERS
    MaxSessions     \* bound: sign-ins in one behaviour

Modes == {"POST_ONLY", "GTC", "IOC", "FOK"}
Orders == Intents \union Others
Symbols == {Symbol[i] : i \in Orders}
Threads == Readers \union {"trader"}

ASSUME OrdersAreFinite == IsFiniteSet(Orders)
ASSUME ConstantTypes ==
    /\ Intents \cap Others = {} /\ "trader" \notin Readers
    /\ DOMAIN Symbol = Orders \union Sweeps
    /\ Side \in [Orders -> {"BUY", "SELL"}]
    /\ Qty \in [Orders -> Nat \ {0}]
    /\ Mode \in [Orders -> Modes]
    /\ StartPosition \in [Symbols -> Int]
    /\ MaxPosition \in Nat /\ MaxOpenOrders \in Nat /\ MaxSessions \in Nat

VARIABLES
    \* the client's command state
    halted,           \* client.halted
    session,          \* the current session, 0 when none is active
    nonces,           \* _nonces
    prepared,         \* the session that signed each intent, 0 if none did
    attempted,        \* _attempted
    cancelAttempted,  \* _cancel_attempted
    open,             \* _open
    pending,          \* _pending_cancels
    uncertainAll,     \* _uncertain_cancel_all
    uncertain,        \* uncertain_commands
    \* the trader, inside the lock
    step,             \* where the command in progress is
    cmd,              \* the command in progress, NoCommand when step = "idle"
    posRead,          \* the position its preflight read
    leftRead,         \* the open orders its preflight read: quantity left, 0 if not listed
    \* the readers, inside query_order
    phase,            \* where each one is
    reading,          \* the order each one has found terminal (at most one)
    \* rebuilds of _open under way
    viewing,          \* what the dict each thread is copying holds
    current,          \* threads copying the dict that is _open now
    resized,          \* threads whose dict changed size since they began
    dropped,          \* history: orders a rebuild removed without having seen them
    \* the venue
    wire,             \* commands that left the client and are not yet acted on
    reply,            \* the response on its way to the client
    order,            \* the venue's orders
    proj              \* the account projection of them

clientVars == <<nonces, prepared, attempted, cancelAttempted, uncertainAll, uncertain>>
preflightVars == <<posRead, leftRead>>
readerVars == <<phase, reading>>
rebuildVars == <<viewing, current, resized, dropped>>
venueVars == <<wire, reply, order, proj>>
vars == <<halted, session, nonces, prepared, attempted, cancelAttempted, open,
          pending, uncertainAll, uncertain, step, cmd, posRead, leftRead, phase,
          reading, viewing, current, resized, dropped, wire, reply, order, proj>>
-----------------------------------------------------------------------------
(* Commands, by the client ID they are filed under. *)

SubmitOf(i) == [kind |-> "submit", of |-> i]
CancelOf(i) == [kind |-> "cancel", of |-> i]
SweepOf(w) == [kind |-> "sweep", of |-> w]
NoCommand == [kind |-> "none",   of |-> 0]

Placements == {SubmitOf(i) : i \in Intents}
Commands == Placements \union {CancelOf(i) : i \in Orders}
                       \union {SweepOf(w) : w \in Sweeps}

NoReply == [status |-> "none", ids |-> {}]
Reply(s, ids) == [status |-> s, ids |-> ids]

(* Orders as the venue and the projection hold them. *)

Absent == [status |-> "absent", filled |-> 0]
Resting(o) == o.status \in {"NEW", "PARTIALLY_FILLED"}
Terminal(o) == o.status \in {"CANCELED", "FILLED", "EXPIRED"}
OrderStatuses == {"absent", "NEW", "PARTIALLY_FILLED", "CANCELED", "FILLED", "EXPIRED"}

FillStatus(i, f) == IF f = Qty[i] THEN "FILLED" ELSE "PARTIALLY_FILLED"

(* ACKNOWLEDGED_STATUSES: what a placement in each mode may answer. *)
ACKNOWLEDGED_STATUSES ==
    [m \in Modes |->
        CASE m = "POST_ONLY" -> {"NEW"}
          [] m = "GTC" -> {"NEW", "PARTIALLY_FILLED", "FILLED"}
          [] OTHER -> {"NEW", "PARTIALLY_FILLED", "FILLED", "EXPIRED", "CANCELED"}]

Of(s) == {i \in Orders : Symbol[i] = s}
Buys(S) == {i \in S : Side[i] = "BUY"}
Sells(S) == {i \in S : Side[i] = "SELL"}

(* The signed base position and the resting quantity of the orders S. *)
Position(s, book) ==
    StartPosition[s] + MapThenSumSet(LAMBDA i : book[i].filled, Buys(Of(s)))
                     - MapThenSumSet(LAMBDA i : book[i].filled, Sells(Of(s)))
Left(i, book) == IF Resting(book[i]) THEN Qty[i] - book[i].filled ELSE 0
TotalLeft(S, left) == MapThenSumSet(LAMBDA i : left[i], S)
-----------------------------------------------------------------------------
Init == /\ halted = FALSE
        /\ session = 0
        /\ nonces = {}
        /\ prepared = [i \in Intents |-> 0]
        /\ attempted = {} /\ cancelAttempted = {}
        /\ open = {} /\ pending = {}
        /\ uncertainAll = {} /\ uncertain = {}
        /\ step = "idle" /\ cmd = NoCommand
        /\ posRead = 0 /\ leftRead = [i \in Orders |-> 0]
        /\ phase = [r \in Readers |-> "idle"] /\ reading = [r \in Readers |-> {}]
        /\ viewing = [t \in Threads |-> {}]
        /\ current = {} /\ resized = {} /\ dropped = {}
        /\ wire = {} /\ reply = NoReply
        /\ order = [i \in Orders |-> Absent]
        /\ proj = order
-----------------------------------------------------------------------------
(* The session.  authenticate drops the old session first; a failed nonce  *)
(* read leaves none, a failed sign-in halts the client as well.            *)

Authenticate ==
    /\ step = "idle"
    /\ \E now \in 1..MaxSessions :
          /\ \A i \in Intents : prepared[i] < now
          /\ now > session
          /\ session' = now
    /\ UNCHANGED <<halted, open, pending, step, cmd, clientVars, preflightVars,
                   readerVars, rebuildVars, venueVars>>

AuthenticateFails ==
    /\ step = "idle"
    /\ session' = 0
    /\ halted' \in {halted, TRUE}
    /\ UNCHANGED <<open, pending, step, cmd, clientVars, preflightVars,
                   readerVars, rebuildVars, venueVars>>

SessionExpires ==
    /\ session # 0
    /\ session' = 0
    /\ UNCHANGED <<halted, open, pending, step, cmd, clientVars, preflightVars,
                   readerVars, rebuildVars, venueVars>>
-----------------------------------------------------------------------------
(* prepare_order: signs under the current session with a nonce never drawn *)
(* before.  The caller may name the client order ID, so an ID can be       *)
(* prepared again.  A failure after the nonce is drawn (a bad ID, a session*)
(* that has just expired) leaves the nonce drawn and nothing prepared.     *)

PrepareOrder(i, n) ==
    /\ step = "idle" /\ ~halted /\ session # 0
    /\ n \notin nonces
    /\ nonces' = nonces \union {n}
    /\ prepared' \in {prepared, [prepared EXCEPT ![i] = session]}
    /\ UNCHANGED <<halted, session, attempted, cancelAttempted, open, pending,
                   uncertainAll, uncertain, step, cmd, preflightVars, readerVars,
                   rebuildVars, venueVars>>
-----------------------------------------------------------------------------
(* submit_order.  _live_preflight reads the position and then the open     *)
(* orders, each a request of its own, and compares them with the limits.   *)

MaySubmitWhileHalted(i) == SubmitOf(i) \notin attempted      \* mutant: no halt check
MaySubmit(i) == ~halted /\ SubmitOf(i) \notin attempted

IgnorePendingCancels == TRUE                                \* mutant
NoPendingCancels == pending = {}

SubmitBegins(i) ==
    /\ step = "idle" /\ prepared[i] # 0
    /\ MaySubmit(i)
    /\ session # 0 /\ NoPendingCancels /\ prepared[i] = session
    /\ step' = "positions" /\ cmd' = SubmitOf(i)
    /\ UNCHANGED <<halted, session, open, pending, clientVars, preflightVars,
                   readerVars, rebuildVars, venueVars>>

ReadPositions ==
    /\ step = "positions" /\ session # 0
    /\ posRead' = Position(Symbol[cmd.of], proj)
    /\ step' = "orders"
    /\ UNCHANGED <<halted, session, open, pending, cmd, leftRead, clientVars,
                   readerVars, rebuildVars, venueVars>>

ReadOpenOrders ==
    /\ step = "orders" /\ session # 0
    /\ leftRead' = [i \in Orders |->
                       IF Symbol[i] = Symbol[cmd.of] THEN Left(i, proj) ELSE 0]
    /\ step' = "check"
    /\ UNCHANGED <<halted, session, open, pending, cmd, posRead, clientVars,
                   readerVars, rebuildVars, venueVars>>

Listed == {i \in Orders : leftRead[i] > 0}

\* Every order the client has acknowledged as resting, in any market, must be
\* among the open orders read for this one.
TrustProjection == TRUE                                     \* mutant
ReconciledInMarket ==                                       \* mutant
    \A o \in open : Symbol[o] = Symbol[cmd.of] => o \in Listed
Reconciled == open \subseteq Listed

BelowOrderLimit == Cardinality(Listed) < MaxOpenOrders

WithinPositionAlone(i) ==          \* mutant: counts the new order and no resting one
    /\ posRead + Qty[i] <= MaxPosition /\ posRead - Qty[i] >= -MaxPosition
WithinPosition(i) ==
    LET buys == TotalLeft(Buys(Listed), leftRead)
                    + (IF Side[i] = "BUY" THEN Qty[i] ELSE 0)
        sells == TotalLeft(Sells(Listed), leftRead)
                    + (IF Side[i] = "SELL" THEN Qty[i] ELSE 0)
    IN  /\ posRead \in -MaxPosition..MaxPosition
        /\ posRead + buys \in -MaxPosition..MaxPosition
        /\ posRead - sells \in -MaxPosition..MaxPosition

CheckAndSend(i) ==
    /\ step = "check" /\ cmd = SubmitOf(i)
    /\ BelowOrderLimit /\ Reconciled /\ WithinPosition(i)
    /\ attempted' = attempted \union {cmd}
    /\ uncertain' = uncertain \union {cmd}
    /\ wire' = wire \union {cmd}
    /\ step' = "await"
    /\ posRead' = 0 /\ leftRead' = [o \in Orders |-> 0]
    /\ UNCHANGED <<halted, session, nonces, prepared, cancelAttempted, open,
                   pending, uncertainAll, cmd, readerVars, rebuildVars, reply, order, proj>>

RefusesInsideLock ==               \* mutant: the command is not released
    /\ step \in {"positions", "orders", "check"}
    /\ step' = "idle"
    /\ UNCHANGED <<halted, session, open, pending, cmd, clientVars, preflightVars,
                   readerVars, rebuildVars, venueVars>>
\* A check or a read failed: nothing was sent and the intent may be submitted again.
PreflightRefuses ==
    /\ step \in {"positions", "orders", "check"}
    /\ step' = "idle" /\ cmd' = NoCommand
    /\ posRead' = 0 /\ leftRead' = [o \in Orders |-> 0]
    /\ UNCHANGED <<halted, session, open, pending, clientVars, readerVars,
                   rebuildVars, venueVars>>

OpenAfterNewAck(i) ==              \* mutant: a partial fill on entry is not kept
    IF reply.status = "NEW" THEN open \union {i} ELSE open
OpenAfterAck(i) == IF reply.status \in {"NEW", "PARTIALLY_FILLED"}
                   THEN open \union {i} ELSE open

\* The new entry is put into the dict that _open is, under the copies being made of
\* it: one that has begun on a dict with entries stops at its next item.
SubmitAcked(i) ==
    /\ step = "await" /\ cmd = SubmitOf(i)
    /\ reply.status \in ACKNOWLEDGED_STATUSES[Mode[i]]
    /\ open' = OpenAfterAck(i)
    /\ viewing' = [t \in Threads |-> IF t \in current THEN open' ELSE viewing[t]]
    /\ resized' = IF open' # open /\ open # {} THEN resized \union current ELSE resized
    /\ uncertain' = uncertain \ {cmd}
    /\ step' = "idle" /\ cmd' = NoCommand /\ reply' = NoReply
    /\ UNCHANGED <<halted, session, nonces, prepared, attempted, cancelAttempted,
                   pending, uncertainAll, preflightVars, readerVars, current, dropped,
                   wire, order, proj>>
-----------------------------------------------------------------------------
(* The except clause all three commands share: a lost, late, refused or    *)
(* unexpected answer halts the client and leaves the command uncertain; so *)
(* does an answer whose rebuild of _pending_cancels raises.                *)

OutcomeUnknown ==
    /\ step = "await" \/ "trader" \in resized
    /\ halted' = TRUE
    /\ step' = "idle" /\ cmd' = NoCommand /\ reply' = NoReply
    /\ resized' = resized \ {"trader"}
    /\ UNCHANGED <<session, open, pending, clientVars, preflightVars, readerVars,
                   viewing, current, dropped, wire, order, proj>>
-----------------------------------------------------------------------------
(* Rebuilding _open: a thread begins to copy the dict that _open is, and   *)
(* what it stores in the end makes every other copy one of an older dict.  *)

BeginsRebuild(t) == /\ viewing' = [viewing EXCEPT ![t] = open]
                    /\ current' = current \union {t}

StoresRebuild(t, ids) == /\ open' = viewing[t] \ ids
                         /\ viewing' = [viewing EXCEPT ![t] = {}]
                         /\ current' = {}

\* cancel_order and cancel_all, on an answer that the order or orders are canceled.
AnswerRebuilds ==
    /\ step = "await"
    /\ \/ (\E i \in Orders : cmd = CancelOf(i)) /\ reply.status = "CANCELED"
       \/ (\E w \in Sweeps : cmd = SweepOf(w)) /\ reply.status = "swept"
    /\ step' = "rebuild" /\ BeginsRebuild("trader")
    /\ UNCHANGED <<halted, session, open, pending, cmd, clientVars, preflightVars,
                   readerVars, resized, dropped, venueVars>>
-----------------------------------------------------------------------------
(* cancel_order: one attempt per server order ID, allowed while halted.    *)

CancelSend(i) ==
    /\ step = "idle" /\ session # 0
    /\ order[i].status # "absent"       \* its UUID is known to somebody
    /\ i \notin cancelAttempted /\ CancelOf(i) \notin attempted
    /\ cancelAttempted' = cancelAttempted \union {i}
    /\ attempted' = attempted \union {CancelOf(i)}
    /\ uncertain' = uncertain \union {CancelOf(i)}
    /\ wire' = wire \union {CancelOf(i)}
    /\ step' = "await" /\ cmd' = CancelOf(i)
    /\ UNCHANGED <<halted, session, nonces, prepared, open, pending, uncertainAll,
                   preflightVars, readerVars, rebuildVars, reply, order, proj>>

\* The answer says CANCELED, or omits the status and is only a receipt.
CancelAcked(i) ==
    /\ cmd = CancelOf(i)
    /\ \/ /\ step = "rebuild"
          /\ StoresRebuild("trader", {i}) /\ UNCHANGED pending
       \/ /\ step = "await" /\ reply.status = "receipt"
          /\ pending' = pending \union {i} /\ UNCHANGED <<open, viewing, current>>
    /\ uncertain' = uncertain \ {cmd}
    /\ step' = "idle" /\ cmd' = NoCommand /\ reply' = NoReply
    /\ UNCHANGED <<halted, session, nonces, prepared, attempted, cancelAttempted,
                   uncertainAll, preflightVars, readerVars, resized, dropped, wire,
                   order, proj>>
-----------------------------------------------------------------------------
(* cancel_all: refused while an earlier sweep of the symbol is uncertain.  *)
(* Its answer rebuilds _open and then _pending_cancels; a reader that pops *)
(* an entry of the latter meanwhile makes the rebuild raise.               *)

SweepSend(w) ==
    /\ step = "idle" /\ session # 0
    /\ Symbol[w] \notin uncertainAll
    /\ SweepOf(w) \notin attempted
    /\ attempted' = attempted \union {SweepOf(w)}
    /\ uncertainAll' = uncertainAll \union {Symbol[w]}
    /\ uncertain' = uncertain \union {SweepOf(w)}
    /\ wire' = wire \union {SweepOf(w)}
    /\ step' = "await" /\ cmd' = SweepOf(w)
    /\ UNCHANGED <<halted, session, nonces, prepared, cancelAttempted, open, pending,
                   preflightVars, readerVars, rebuildVars, reply, order, proj>>

SweepDropsOpen(w) ==
    /\ step = "rebuild" /\ cmd = SweepOf(w)
    /\ StoresRebuild("trader", reply.ids)
    /\ step' = "pending"
    /\ UNCHANGED <<halted, session, pending, cmd, clientVars, preflightVars, readerVars,
                   resized, dropped, venueVars>>

SweepAcked(w) ==
    /\ step = "pending" /\ cmd = SweepOf(w) /\ "trader" \notin resized
    /\ pending' = pending \ reply.ids
    /\ uncertainAll' = uncertainAll \ {Symbol[w]}
    /\ uncertain' = uncertain \ {cmd}
    /\ step' = "idle" /\ cmd' = NoCommand /\ reply' = NoReply
    /\ UNCHANGED <<halted, session, nonces, prepared, attempted, cancelAttempted, open,
                   preflightVars, readerVars, rebuildVars, wire, order, proj>>
-----------------------------------------------------------------------------
(* query_order, on its own or from reconcile_account, without the lock:    *)
(* the response is read, the pending cancellation popped, and _open copied *)
(* without the order and stored.  A response that is not terminal changes  *)
(* nothing.                                                                *)

QueryReads(r, i) ==
    /\ phase[r] = "idle" /\ session # 0
    /\ Terminal(proj[i])
    /\ phase' = [phase EXCEPT ![r] = "read"]
    /\ reading' = [reading EXCEPT ![r] = {i}]
    /\ UNCHANGED <<halted, session, open, pending, step, cmd, clientVars, preflightVars,
                   rebuildVars, venueVars>>

QueryKeepsPending(r) ==            \* mutant: the pending cancellation is not dropped
    /\ phase[r] = "read"
    /\ phase' = [phase EXCEPT ![r] = "popped"]
    /\ UNCHANGED <<halted, session, open, pending, step, cmd, reading, clientVars,
                   preflightVars, rebuildVars, venueVars>>
QueryPops(r) ==
    /\ phase[r] = "read"
    /\ pending' = pending \ reading[r]
    /\ resized' = IF step = "pending" /\ pending' # pending
                  THEN resized \union {"trader"} ELSE resized
    /\ phase' = [phase EXCEPT ![r] = "popped"]
    /\ UNCHANGED <<halted, session, open, step, cmd, reading, clientVars, preflightVars,
                   viewing, current, dropped, venueVars>>

QueryRebuilds(r) ==
    /\ phase[r] = "popped"
    /\ phase' = [phase EXCEPT ![r] = "rebuild"]
    /\ BeginsRebuild(r)
    /\ UNCHANGED <<halted, session, open, pending, step, cmd, reading, clientVars,
                   preflightVars, resized, dropped, venueVars>>

QueryReturns(r) == /\ phase' = [phase EXCEPT ![r] = "idle"]
                   /\ reading' = [reading EXCEPT ![r] = {}]

QueryApplies(r) ==
    /\ phase[r] = "rebuild" /\ r \notin resized
    /\ StoresRebuild(r, reading[r]) /\ QueryReturns(r)
    /\ dropped' = dropped \union ((open \ reading[r]) \ viewing[r])
    /\ UNCHANGED <<halted, session, pending, step, cmd, clientVars, preflightVars,
                   resized, venueVars>>

\* RuntimeError: dictionary changed size during iteration.
QueryRaises(r) ==
    /\ phase[r] = "rebuild" /\ r \in resized
    /\ QueryReturns(r)
    /\ viewing' = [viewing EXCEPT ![r] = {}]
    /\ current' = current \ {r} /\ resized' = resized \ {r}
    /\ UNCHANGED <<halted, session, open, pending, step, cmd, clientVars, preflightVars,
                   dropped, venueVars>>
-----------------------------------------------------------------------------
(* The venue. *)

clientUnchanged == UNCHANGED <<halted, session, open, pending, step, cmd, clientVars,
                               preflightVars, readerVars, rebuildVars>>

Awaited(c) == step = "await" /\ cmd = c

AcceptedAs(i) ==
    {o \in [status : ACKNOWLEDGED_STATUSES[Mode[i]] \union {"EXPIRED"}, filled : 0..Qty[i]] :
        /\ o.filled = 0 => o.status # "PARTIALLY_FILLED"
        /\ o.filled = Qty[i] <=> o.status = "FILLED"
        /\ o.filled > 0 => o.status # "NEW" /\ Mode[i] # "POST_ONLY"
        /\ Mode[i] = "FOK" => o.filled \in {0, Qty[i]}}

VenueAccepts(i) ==
    /\ SubmitOf(i) \in wire
    /\ wire' = wire \ {SubmitOf(i)}
    /\ \E o \in AcceptedAs(i) :
          /\ order' = [order EXCEPT ![i] = o]
          /\ reply' = IF Awaited(SubmitOf(i)) THEN Reply(o.status, {i}) ELSE reply
    /\ UNCHANGED proj /\ clientUnchanged

\* The account's other processes place and cancel orders of their own.  An order
\* older than this process is one placed, and projected, before its first step.
OtherPlaces(i) ==
    /\ order[i] = Absent
    /\ \E o \in AcceptedAs(i) : order' = [order EXCEPT ![i] = o]
    /\ UNCHANGED <<wire, reply, proj>> /\ clientUnchanged

OtherCancels(i) ==
    /\ Resting(order[i])
    /\ order' = [order EXCEPT ![i].status = "CANCELED"]
    /\ UNCHANGED <<wire, reply, proj>> /\ clientUnchanged

\* A request is lost on the way, or refused.
VenueDrops(c) ==
    /\ c \in wire
    /\ wire' = wire \ {c}
    /\ UNCHANGED <<reply, order, proj>> /\ clientUnchanged

VenueFills(i) ==
    /\ Resting(order[i])
    /\ \E f \in (order[i].filled + 1)..Qty[i] :
          order' = [order EXCEPT ![i] = [status |-> FillStatus(i, f), filled |-> f]]
    /\ UNCHANGED <<wire, reply, proj>> /\ clientUnchanged

\* The signed expiry, 60 seconds after the order was prepared, has passed.
VenueExpires(i) ==
    /\ Resting(order[i])
    /\ order' = [order EXCEPT ![i].status = "EXPIRED"]
    /\ UNCHANGED <<wire, reply, proj>> /\ clientUnchanged

\* A receipt promises nothing: the cancellation is still to be carried out.
VenueReceipts(i) ==
    /\ CancelOf(i) \in wire /\ Awaited(CancelOf(i)) /\ reply = NoReply
    /\ reply' = Reply("receipt", {i})
    /\ UNCHANGED <<wire, order, proj>> /\ clientUnchanged

VenueCancels(i) ==
    /\ CancelOf(i) \in wire
    /\ wire' = wire \ {CancelOf(i)}
    /\ IF Resting(order[i])
       THEN /\ order' = [order EXCEPT ![i].status = "CANCELED"]
            /\ reply' = IF Awaited(CancelOf(i)) /\ reply = NoReply
                        THEN Reply("CANCELED", {i}) ELSE reply
       ELSE UNCHANGED <<order, reply>>
    /\ UNCHANGED proj /\ clientUnchanged

\* A sweep may reach a part of the market's orders; the answer names that part.
VenueSweeps(w) ==
    /\ SweepOf(w) \in wire
    /\ wire' = wire \ {SweepOf(w)}
    /\ \E swept \in SUBSET {i \in Of(Symbol[w]) : Resting(order[i])} :
          /\ order' = [i \in Orders |-> IF i \in swept
                         THEN [order[i] EXCEPT !.status = "CANCELED"] ELSE order[i]]
          /\ reply' = IF Awaited(SweepOf(w)) THEN Reply("swept", swept) ELSE reply
    /\ UNCHANGED proj /\ clientUnchanged

Projects(i) ==
    /\ proj[i] # order[i]
    /\ proj' = [proj EXCEPT ![i] = order[i]]
    /\ UNCHANGED <<wire, reply, order>> /\ clientUnchanged
-----------------------------------------------------------------------------
Trader == \/ Authenticate \/ AuthenticateFails
          \/ \E i \in Intents, n \in Nonces : PrepareOrder(i, n)
          \/ \E i \in Intents : SubmitBegins(i) \/ CheckAndSend(i) \/ SubmitAcked(i)
          \/ ReadPositions \/ ReadOpenOrders \/ PreflightRefuses \/ OutcomeUnknown
          \/ AnswerRebuilds
          \/ \E i \in Orders : CancelSend(i) \/ CancelAcked(i)
          \/ \E w \in Sweeps : SweepSend(w) \/ SweepDropsOpen(w) \/ SweepAcked(w)

Reader(r) == \/ \E i \in Orders : QueryReads(r, i)
             \/ QueryPops(r) \/ QueryRebuilds(r) \/ QueryApplies(r) \/ QueryRaises(r)

Venue == \/ \E i \in Intents : VenueAccepts(i)
         \/ \E i \in Others : OtherPlaces(i) \/ OtherCancels(i)
         \/ \E i \in Orders : \/ VenueFills(i) \/ VenueExpires(i) \/ VenueReceipts(i)
                               \/ VenueCancels(i) \/ Projects(i)
         \/ \E w \in Sweeps : VenueSweeps(w)
         \/ \E c \in Commands : VenueDrops(c)

Next == Trader \/ (\E r \in Readers : Reader(r)) \/ Venue \/ SessionExpires

Spec == Init /\ [][Next]_vars

\* Resting orders reach their signed expiry; the projection catches up; the
\* application polls every order it has not seen end, and its query goes on.
FairSpec ==
    /\ Spec
    /\ \A i \in Orders : WF_vars(VenueExpires(i)) /\ WF_vars(Projects(i))
    /\ \A r \in Readers :
          /\ WF_vars(QueryPops(r)) /\ WF_vars(QueryRebuilds(r))
          /\ WF_vars(QueryApplies(r)) /\ WF_vars(QueryRaises(r))
          /\ \A i \in Orders : SF_vars(QueryReads(r, i))
-----------------------------------------------------------------------------
(* Properties. *)

BookTypes(book) ==
    /\ book \in [Orders -> [status : OrderStatuses, filled : Nat]]
    /\ \A i \in Orders : /\ book[i].filled <= Qty[i]
                         /\ Resting(book[i]) => book[i].filled < Qty[i]

\* Types, no order overfilled, and the lock held exactly while a command is in
\* progress.
TypeOK ==
    /\ halted \in BOOLEAN /\ session \in 0..MaxSessions
    /\ nonces \subseteq Nonces /\ prepared \in [Intents -> 0..MaxSessions]
    /\ attempted \subseteq Commands /\ uncertain \subseteq Commands
    /\ wire \subseteq Commands /\ cmd \in Commands \union {NoCommand}
    /\ open \subseteq Intents /\ dropped \subseteq Intents
    /\ cancelAttempted \subseteq Orders /\ pending \subseteq Orders
    /\ uncertainAll \subseteq {Symbol[w] : w \in Sweeps}
    /\ step \in {"idle", "positions", "orders", "check", "await", "rebuild", "pending"}
    /\ step = "idle" <=> cmd = NoCommand
    /\ leftRead \in [Orders -> Nat]
    /\ phase \in [Readers -> {"idle", "read", "popped", "rebuild"}]
    /\ reading \in [Readers -> SUBSET Orders]
    /\ viewing \in [Threads -> SUBSET Intents]
    /\ current \subseteq Threads /\ resized \subseteq Threads
    /\ reply \in [status : OrderStatuses \union {"none", "receipt", "swept"},
                  ids : SUBSET Orders]
    /\ BookTypes(order) /\ BookTypes(proj)

\* Every order of ours that can still trade is one the client knows it must
\* account for, in _open or under uncertain_commands.  There is one exception, and
\* only one: a query that copied _open before the order was entered, in a dict that
\* another command had replaced meanwhile, and stored its copy after.
NoForgottenOrder ==
    \A i \in Intents :
        Resting(order[i]) => i \in open \/ SubmitOf(i) \in uncertain \/ i \in dropped

\* BOND_MAX_OPEN_ORDERS holds of this client's own orders in the venue's book,
\* however late the projection that the preflight counts, and a placement under way
\* included.  It is no bound on the account: an order of another process that the
\* projection does not list is not counted, whatever configuration.py says.
OpenOrderLimit ==
    \A s \in Symbols :
        Cardinality({i \in Of(s) \cap (Intents \ dropped) :
                        Resting(order[i]) \/ SubmitOf(i) \in wire}) <= MaxOpenOrders

\* Live orders of this client are never in two markets at once: the preflight
\* compares _open, which spans markets, with the open orders of one market.
OneActiveMarket ==
    \A i, j \in Intents \ dropped :
        Resting(order[i]) /\ Resting(order[j]) => Symbol[i] = Symbol[j]

TrueLeft == [i \in Orders |-> Left(i, order)]

\* The orders a preflight can be held to account for: this client's, and those of
\* others that the projection showed it.
Known == (Intents \ dropped) \union Listed

\* When a placement is sent, the position its preflight read plus everything those
\* orders can really still fill on its own side is within the limit: any excess over
\* BOND_MAX_POSITION comes from fills the position read did not show, or from orders
\* of other processes that it did not list.
RoomForEveryRestingOrder ==
    [][\A i \in Intents : CheckAndSend(i) =>
        LET known == Of(Symbol[i]) \cap Known
            buys  == TotalLeft(Buys(known), TrueLeft)
            sells == TotalLeft(Sells(known), TrueLeft)
        IN  /\ Side[i] = "BUY"  => posRead + buys + Qty[i] <= MaxPosition
            /\ Side[i] = "SELL" => posRead - sells - Qty[i] >= -MaxPosition]_vars

\* A placement is never sent while a cancellation this client attempted may
\* still be undecided: every order it tried to cancel, one by one, is terminal.
NoOverlapWithCancelled ==
    [][\A i \in Intents : CheckAndSend(i) =>
        \A o \in cancelAttempted : Terminal(order[o])]_vars

\* The client's commands follow the ledger's promise: see CommandLedger.
InFlight(c) == step \in {"await", "rebuild", "pending"} /\ cmd = c
LedgerStatus == [c \in Commands |->
    IF c \notin attempted THEN "new"
    ELSE IF c \notin uncertain THEN "acked"
    ELSE IF InFlight(c) THEN "sent" ELSE "unknown"]
LedgerPlaced == {SubmitOf(i) : i \in {j \in Intents : order[j].status # "absent"}}

Ledger == INSTANCE CommandLedger WITH status <- LedgerStatus, placed <- LedgerPlaced
ImplementsLedger == Ledger!Spec

\* What the preflight refuses to go on without is settled in the end: an order whose
\* cancellation is unanswered, or that the venue has ended while it is in _open, is
\* seen terminal and forgotten, unless the session ends first.
EndedOrdersResolve ==
    \A i \in Orders :
        i \in pending \/ (i \in open /\ Terminal(order[i]))
            ~> (i \notin pending /\ i \notin open) \/ session = 0

\* configuration.py's BOND_MAX_POSITION: the position and what can still fill
\* stay within the limit, in both directions.
PositionLimit ==
    \A s \in Symbols :
        LET buys == TotalLeft(Buys(Of(s)), TrueLeft)
            sells == TotalLeft(Sells(Of(s)), TrueLeft)
        IN  /\ Position(s, order) + buys <= MaxPosition
            /\ Position(s, order) - sells >= -MaxPosition

\* docs/protocol.md's "It rejects [...] unreconciled known orders": a placement is
\* sent only if the preflight listed every resting order that was acknowledged.
UnreconciledRejected ==
    [][\A i \in Intents : CheckAndSend(i) =>
        \A o \in Intents : Resting(order[o]) /\ SubmitOf(o) \in attempted \ uncertain
                               => o \in Listed]_vars
=============================================================================
