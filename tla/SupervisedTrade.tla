-------------------------- MODULE SupervisedTrade --------------------------
(***************************************************************************)
(* One supervised trade (quickstart.py, run in trade mode; workflows.py,   *)
(* open_account and place_and_cancel): discover the signing context, sign  *)
(* in, read the account, discover again, then place one order, cancel it   *)
(* once, and return only if the order is found in a terminal state.        *)
(*                                                                         *)
(* The process is sequential.  The venue is external: it may rotate the    *)
(* signing context that exchangeInfo publishes, lose a request, act on one *)
(* the client gave up on, fill or expire the order, carry a cancellation   *)
(* out after its receipt, and show all of this late to order queries.      *)
(* SessionCache models the sign-in, OrderClient the preflight; here either *)
(* goes through or raises.                                                 *)
(***************************************************************************)
EXTENDS Integers

CONSTANTS Contexts,       \* signing contexts: an endpoint and its markets
          None,           \* no context
          MaxRotations    \* bound: changes of the published context

ASSUME TradeConstants == None \notin Contexts /\ MaxRotations \in Nat

VARIABLES
    \* the process
    at,         \* what it does next, or how it ended: "returned" or "raised"
    pin,        \* the operator's registry file, or None
    registry,   \* client.signing_registry
    readings,   \* the contexts it read from exchangeInfo
    signed,     \* the context the order was signed for
    open,       \* the order is in client._open
    pending,    \* its cancellation is in client._pending_cancels
    uncertain,  \* client.uncertain_commands
    halted,     \* client.halted
    \* the network and the venue
    published,  \* the context exchangeInfo shows
    rotations,
    wire,       \* commands on their way to the venue
    reply,      \* the answer on its way back
    order,      \* the order's status at the venue
    receipt,    \* the venue owes a cancellation it gave a receipt for
    proj        \* the status order queries show

client == <<pin, registry, readings, signed, open, pending, uncertain, halted>>
book == <<wire, reply, order, receipt, proj>>
vars == <<at, client, published, rotations, book>>

Steps == {"discover", "signin", "account", "market", "prepare", "submit", "placing",
          "cancel", "cancelling", "query", "returned", "raised"}
Terminal(s) == s \in {"CANCELED", "FILLED", "EXPIRED"}
Statuses == {"absent", "NEW", "CANCELED", "FILLED", "EXPIRED"}

InitAt(step) ==
    /\ at = step
    /\ pin \in Contexts \union {None} /\ registry = pin
    /\ readings = {} /\ signed = None
    /\ open = FALSE /\ pending = FALSE /\ uncertain = {} /\ halted = FALSE
    /\ published \in Contexts /\ rotations = 0
    /\ wire = {} /\ reply = "none" /\ order = "absent"
    /\ receipt = FALSE /\ proj = "absent"

-----------------------------------------------------------------------------
(* discover_signing_context, from open_account and again from market.      *)

FollowsRotation(current) == TRUE           \* mutant: the newest context is taken
Unchanged(current) == current = None \/ current = published

Discover(next) ==
    /\ readings' = readings \union {published}
    /\ IF Unchanged(registry)
       THEN registry' = published /\ at' = next /\ UNCHANGED halted
       ELSE halted' = TRUE /\ at' = "raised" /\ UNCHANGED registry

OpenAccount ==
    /\ at = "discover"
    /\ Discover("signin")
    /\ UNCHANGED <<pin, signed, open, pending, uncertain, published, rotations, book>>

\* authenticate_cached, then identity and reconcile_account.
SignIn ==
    /\ at = "signin"
    /\ at' = "account"
    /\ UNCHANGED <<client, published, rotations, book>>

ReadAccount ==
    /\ at = "account"
    /\ at' = "market"
    /\ UNCHANGED <<client, published, rotations, book>>

\* market, then the comparison of the supplied registry with the client's.
ReadMarket ==
    /\ at = "market"
    /\ Discover("prepare")
    /\ UNCHANGED <<pin, signed, open, pending, uncertain, published, rotations, book>>

PrepareOrder ==
    /\ at = "prepare" /\ ~halted /\ pin \in {None, registry}
    /\ signed' = IF pin = None THEN registry ELSE pin
    /\ at' = "submit"
    /\ UNCHANGED <<pin, registry, readings, open, pending, uncertain, halted,
                   published, rotations, book>>

\* A read, a check or the session fails before anything is sent.  A bad
\* exchangeInfo and an uncertain sign-in halt the client as well.
Raises ==
    /\ at \in {"discover", "signin", "account", "market", "prepare", "submit",
               "cancel", "query"}
    /\ at' = "raised"
    /\ halted' \in IF at \in {"discover", "signin", "market"} THEN {halted, TRUE} ELSE {halted}
    /\ UNCHANGED <<pin, registry, readings, signed, open, pending, uncertain,
                   published, rotations, book>>
-----------------------------------------------------------------------------
(* The two commands. *)

SubmitOrder ==
    /\ at = "submit" /\ ~halted /\ signed = registry
    /\ uncertain' = uncertain \union {"submit"} /\ wire' = wire \union {"submit"}
    /\ at' = "placing"
    /\ UNCHANGED <<pin, registry, readings, signed, open, pending, halted,
                   published, rotations, reply, order, receipt, proj>>

SubmitAcked ==
    /\ at = "placing" /\ reply = "NEW"
    /\ open' = TRUE /\ uncertain' = uncertain \ {"submit"} /\ reply' = "none"
    /\ at' = "cancel"
    /\ UNCHANGED <<pin, registry, readings, signed, pending, halted,
                   published, rotations, wire, order, receipt, proj>>

CancelOrder ==
    /\ at = "cancel"
    /\ uncertain' = uncertain \union {"cancel"} /\ wire' = wire \union {"cancel"}
    /\ at' = "cancelling"
    /\ UNCHANGED <<pin, registry, readings, signed, open, pending, halted,
                   published, rotations, reply, order, receipt, proj>>

ReceiptIsFinal ==                          \* mutant: a receipt counts as cancelled
    /\ open' = FALSE /\ UNCHANGED pending
Settle ==
    IF reply = "CANCELED" THEN open' = FALSE /\ UNCHANGED pending
    ELSE pending' = TRUE /\ UNCHANGED open

CancelAcked ==
    /\ at = "cancelling" /\ reply \in {"CANCELED", "receipt"}
    /\ Settle
    /\ uncertain' = uncertain \ {"cancel"} /\ reply' = "none"
    /\ at' = "query"
    /\ UNCHANGED <<pin, registry, readings, signed, halted,
                   published, rotations, wire, order, receipt, proj>>

OutcomeUnknown ==
    /\ at \in {"placing", "cancelling"}
    /\ halted' = TRUE /\ at' = "raised"
    /\ UNCHANGED <<pin, registry, readings, signed, open, pending, uncertain,
                   published, rotations, book>>

TrustsReceipt ==                           \* mutant: the query's status is not tested
    /\ at = "query" /\ proj # "absent"
    /\ at' = "returned"
    /\ open' = (open /\ ~Terminal(proj)) /\ pending' = (pending /\ ~Terminal(proj))
    /\ UNCHANGED <<pin, registry, readings, signed, uncertain, halted,
                   published, rotations, book>>
QueryOrder ==
    /\ at = "query" /\ proj # "absent"
    /\ at' = IF Terminal(proj) THEN "returned" ELSE "raised"
    /\ open' = (open /\ ~Terminal(proj)) /\ pending' = (pending /\ ~Terminal(proj))
    /\ UNCHANGED <<pin, registry, readings, signed, uncertain, halted,
                   published, rotations, book>>
-----------------------------------------------------------------------------
(* The venue and the network. *)

Rotates == /\ rotations < MaxRotations
           /\ \E c \in Contexts \ {published} : published' = c
           /\ rotations' = rotations + 1
           /\ UNCHANGED <<at, client, book>>

VenuePlaces ==
    /\ "submit" \in wire
    /\ wire' = wire \ {"submit"}
    /\ \/ order' = "NEW" /\ reply' = "NEW"
       \/ reply' = "refused" /\ UNCHANGED order
    /\ UNCHANGED <<at, client, published, rotations, receipt, proj>>

VenueCancels ==
    /\ "cancel" \in wire
    /\ wire' = wire \ {"cancel"}
    /\ \/ order = "NEW" /\ order' = "CANCELED" /\ reply' = "CANCELED" /\ UNCHANGED receipt
       \/ receipt' = TRUE /\ reply' = "receipt" /\ UNCHANGED order
       \/ reply' = "refused" /\ UNCHANGED <<order, receipt>>
    /\ UNCHANGED <<at, client, published, rotations, proj>>

ReceiptCarriedOut ==
    /\ receipt /\ order = "NEW"
    /\ order' = "CANCELED" /\ receipt' = FALSE
    /\ UNCHANGED <<at, client, published, rotations, wire, reply, proj>>

OrderEnds ==
    /\ order = "NEW"
    /\ order' \in {"FILLED", "EXPIRED"}
    /\ UNCHANGED <<at, client, published, rotations, wire, reply, receipt, proj>>

Lost == /\ \/ \E c \in wire : wire' = wire \ {c} /\ UNCHANGED reply
           \/ reply # "none" /\ reply' = "none" /\ UNCHANGED wire
        /\ UNCHANGED <<at, client, published, rotations, order, receipt, proj>>

Projects == /\ proj # order /\ proj' = order
            /\ UNCHANGED <<at, client, published, rotations, wire, reply, order, receipt>>
-----------------------------------------------------------------------------
Process == \/ OpenAccount \/ SignIn \/ ReadAccount \/ ReadMarket \/ PrepareOrder \/ Raises
           \/ SubmitOrder \/ SubmitAcked \/ CancelOrder \/ CancelAcked
           \/ OutcomeUnknown \/ QueryOrder

Venue == \/ Rotates \/ VenuePlaces \/ VenueCancels \/ ReceiptCarriedOut \/ OrderEnds
         \/ Lost \/ Projects
-----------------------------------------------------------------------------
(* Properties. *)

\* The context an order is sent under is the one every exchangeInfo reading of
\* this run showed, and the operator's pin: docs/protocol.md, missing context,
\* mismatched pins or rotation during a run stop trading.
OneSigningContext ==
    "submit" \in wire \/ order # "absent" =>
        readings = {signed} /\ pin \in {None, signed}

\* A normal return means that the order is terminal at the venue itself, with
\* no command in flight or unresolved, however late the projection is.
ReturnedIsSettled ==
    at = "returned" => Terminal(order) /\ wire = {} /\ uncertain = {}

\* However the run is left, an order that trades or still may is on the client's
\* record, as open or as an unresolved placement, and so is a cancellation that
\* may still be carried out.
RaisedIsOnRecord ==
    at = "raised" =>
        /\ order = "NEW" \/ "submit" \in wire => open \/ "submit" \in uncertain
        /\ order = "NEW" /\ (receipt \/ "cancel" \in wire) => pending \/ "cancel" \in uncertain
=============================================================================
