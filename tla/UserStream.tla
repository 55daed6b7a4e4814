---------------------------- MODULE UserStream ----------------------------
(***************************************************************************)
(* The private account stream (user_stream.py, user_events) and the flag   *)
(* it shares with the order path: stream_requires_reconciliation, which    *)
(* reconcile_account clears (client_account.py) and _live_preflight obeys  *)
(* (client_orders.py).                                                     *)
(*                                                                         *)
(* One thread iterates the generator, another reconciles and submits;      *)
(* neither takes the client's lock for these fields.  A run of statements  *)
(* with no call in it is one step (CPython switches threads at calls and   *)
(* loops); a network read always lies between two steps.  The stream keeps *)
(* a revision number only to be compared with an earlier value of itself,  *)
(* so moved says that it changed since the trader captured it.             *)
(*                                                                         *)
(* The venue numbers executions, those of other accounts included: to the  *)
(* client, one of another account is one whose frame never arrives.  A     *)
(* frame of the current subscription may be lost, repeated or overtaken,   *)
(* and those of an ended subscription are never replayed.                  *)
(***************************************************************************)
EXTENDS Naturals, FiniteSets

CONSTANTS MaxEvents,      \* user_events(max_events)
          MaxReconnects,  \* user_events(max_reconnects), 0..3
          MaxIterators,   \* bound: iterators started in one behaviour
          MaxSequence     \* bound: executions the venue numbers

ASSUME StreamBounds == /\ MaxEvents \in Nat \ {0} /\ MaxReconnects \in 0..3
                       /\ MaxIterators \in Nat /\ MaxSequence \in Nat

VARIABLES
    \* the client's shared fields
    needsRest,   \* stream_requires_reconciliation
    connected,   \* _stream_connected
    session,     \* "none", "subscribed" (the one the stream is signed with), "other"
    \* the generator
    at,          \* where the generator is
    yielded,     \* the kind of the message it is suspended at
    iterators,   \* iterators started
    generation, delivered, last,
    \* the trader
    doing,       \* where reconcile_account or submit_order is
    submitting,  \* the command is submit_order
    moved,       \* _stream_revision changed since it was captured
    upTo,        \* executions the account read in progress reflects
    \* the venue, and what the application has learnt from it
    happened, inflight, seen, restUpTo

generatorVars == <<at, yielded, iterators, generation, delivered, last, seen>>
traderVars == <<doing, submitting, upTo, restUpTo>>
vars == <<needsRest, connected, session, generatorVars, traderVars, moved,
          happened, inflight>>

Executions == 1..MaxSequence

Init == /\ needsRest = FALSE /\ connected = FALSE /\ session = "other"
        /\ at = "idle" /\ yielded = "none" /\ iterators = 0
        /\ generation = 0 /\ delivered = 0 /\ last = 0
        /\ doing = "idle" /\ submitting = FALSE /\ moved = FALSE
        /\ upTo = 0 /\ restUpTo = 0
        /\ happened = 0 /\ inflight = {} /\ seen = {}
-----------------------------------------------------------------------------
(* The generator. *)

\* Every notice that requires reconciliation sets the flag and bumps the revision.
Mark == needsRest' = TRUE /\ moved' = TRUE

Suspend(k) == at' = "yield" /\ yielded' = k

\* user_events up to its first connection.  The flag is set, the revision is not.
Start ==
    /\ at = "idle" /\ iterators < MaxIterators /\ session # "none"
    /\ iterators' = iterators + 1
    /\ needsRest' = TRUE
    /\ generation' = 0 /\ delivered' = 0 /\ last' = 0 /\ seen' = {}
    /\ at' = "connect" /\ yielded' = "none"
    /\ UNCHANGED <<connected, session, traderVars, moved, happened, inflight>>

\* The subscription is signed with the current session and acknowledged.
Connects ==
    /\ at = "connect" /\ session # "none"
    /\ session' = "subscribed"
    /\ connected' = TRUE /\ Mark
    /\ Suspend("connected")
    /\ UNCHANGED <<iterators, generation, delivered, last, seen, traderVars,
                   happened, inflight>>

\* _active_session raises, the subscription is refused, or a frame fails validation.
Raises ==
    /\ at \in {"connect", "receive"}
    /\ at' = "stop"
    /\ UNCHANGED <<needsRest, connected, session, yielded, iterators, generation,
                   delivered, last, seen, traderVars, moved, happened, inflight>>

\* The socket is lost, refused or idle for too long.
Breaks ==
    /\ at \in {"connect", "receive", "broken"}
    /\ connected' = FALSE /\ Mark
    /\ inflight' = {}
    /\ Suspend("disconnected")
    /\ UNCHANGED <<session, iterators, generation, delivered, last, seen, traderVars,
                   happened>>

IgnoresGaps(n) == last # 0 /\ n <= last                  \* mutant: a jump is no anomaly
OutOfSequence(n) == last # 0 /\ n # last + 1

\* An execution or position update, with its sequence number; "stale" is the
\* five-second age check.
ReceiveExecution(n, stale) ==
    /\ at = "receive" /\ session = "subscribed" /\ n \in inflight
    /\ inflight' \in {inflight, inflight \ {n}}
    /\ IF stale \/ OutOfSequence(n) THEN Mark ELSE UNCHANGED <<needsRest, moved>>
    /\ last' = n /\ seen' = seen \union {n}
    /\ delivered' = delivered + 1
    /\ Suspend("event")
    /\ UNCHANGED <<connected, session, iterators, generation, traderVars, happened>>

OtherEvents == {"balanceUpdate", "outboundAccountPosition", "eventStreamTerminated"}

\* Events without a sequence number.
ReceiveOther(e, stale) ==
    /\ at = "receive" /\ session = "subscribed"
    /\ IF stale \/ e # "balanceUpdate" THEN Mark ELSE UNCHANGED <<needsRest, moved>>
    /\ delivered' = delivered + 1
    /\ Suspend(IF e = "eventStreamTerminated" THEN "terminated" ELSE "event")
    /\ UNCHANGED <<connected, session, iterators, generation, last, seen, traderVars,
                   happened, inflight>>

\* The session is compared before and after every receive.
SessionChecked ==
    /\ at = "receive" /\ session # "subscribed"
    /\ at' = "stop"
    /\ UNCHANGED <<needsRest, connected, session, yielded, iterators, generation,
                   delivered, last, seen, traderVars, moved, happened, inflight>>

OneMoreGeneration ==                                     \* mutant: off by one
    IF generation > MaxReconnects THEN at' = "stop" /\ UNCHANGED generation
    ELSE at' = "connect" /\ generation' = generation + 1
RestartsBudget == generation' = 0 /\ at' = "connect"     \* mutant: a fresh budget
NextGeneration ==
    IF generation = MaxReconnects THEN at' = "stop" /\ UNCHANGED generation
    ELSE at' = "connect" /\ generation' = generation + 1

\* The consumer asks for the next message.
Resume ==
    /\ at = "yield"
    /\ \/ /\ yielded = "connected"
          /\ at' = "receive" /\ UNCHANGED generation
       \/ /\ yielded \in {"event", "terminated"}
          /\ at' = IF delivered >= MaxEvents THEN "stop"
                   ELSE IF yielded = "terminated" THEN "broken" ELSE "receive"
          /\ UNCHANGED generation
       \/ /\ yielded = "disconnected"
          /\ NextGeneration
    /\ UNCHANGED <<needsRest, connected, session, yielded, iterators, delivered, last,
                   seen, traderVars, moved, happened, inflight>>

\* The consumer closes the iterator where it is suspended.
Close ==
    /\ at = "yield"
    /\ at' = "stop"
    /\ UNCHANGED <<needsRest, connected, session, yielded, iterators, generation,
                   delivered, last, seen, traderVars, moved, happened, inflight>>

\* The finally clauses.
StopsQuietly ==                                          \* mutant: the flag is left alone
    /\ at = "stop"
    /\ connected' = FALSE
    /\ inflight' = {} /\ at' = "idle" /\ yielded' = "none"
    /\ UNCHANGED <<needsRest, moved, session, iterators, generation, delivered, last, seen,
                   traderVars, happened>>
Stop ==
    /\ at = "stop"
    /\ connected' = FALSE /\ Mark
    /\ inflight' = {} /\ at' = "idle" /\ yielded' = "none"
    /\ UNCHANGED <<session, iterators, generation, delivered, last, seen, traderVars,
                   happened>>
-----------------------------------------------------------------------------
(* The trader. *)

ReconcileBegins ==
    /\ doing = "idle" /\ session # "none"
    /\ submitting' = FALSE /\ moved' = FALSE
    /\ doing' = "read"
    /\ UNCHANGED <<needsRest, connected, session, generatorVars, upTo, restUpTo,
                   happened, inflight>>

\* submit_order: _live_preflight looks at the flag, then reconciles.
SubmitBegins ==
    /\ doing = "idle" /\ session # "none" /\ ~needsRest
    /\ submitting' = TRUE /\ moved' = FALSE
    /\ doing' = "read"
    /\ UNCHANGED <<needsRest, connected, session, generatorVars, upTo, restUpTo,
                   happened, inflight>>

AccountRead ==
    /\ doing = "read" /\ session # "none"
    /\ upTo' = happened
    /\ doing' = "settle"
    /\ UNCHANGED <<needsRest, connected, session, generatorVars, submitting, restUpTo,
                   moved, happened, inflight>>

StillBlocked == IF connected /\ ~moved THEN FALSE ELSE needsRest

\* reconcile_account returns; a submission goes on to its checks.
Settles ==
    /\ doing = "settle"
    /\ needsRest' = StillBlocked
    /\ restUpTo' = upTo
    /\ doing' = IF submitting THEN "send" ELSE "idle"
    /\ UNCHANGED <<connected, session, generatorVars, submitting, upTo, moved,
                   happened, inflight>>

Sends ==
    /\ doing = "send"
    /\ doing' = "idle"
    /\ UNCHANGED <<needsRest, connected, session, generatorVars, submitting, upTo,
                   restUpTo, moved, happened, inflight>>

\* A read fails or takes more than five seconds, or a preflight check refuses.
TraderGivesUp ==
    /\ doing \in {"read", "settle", "send"}
    /\ doing' = "idle"
    /\ UNCHANGED <<needsRest, connected, session, generatorVars, submitting, upTo,
                   restUpTo, moved, happened, inflight>>

\* The session expires, or authenticate puts another in its place.
SessionChanges ==
    /\ session' \in {"none", "other"}
    /\ UNCHANGED <<needsRest, connected, generatorVars, traderVars, moved, happened,
                   inflight>>
-----------------------------------------------------------------------------
(* The venue. *)

\* The venue subscribes before its acknowledgement comes; frames that arrive in
\* between are buffered, and received once the generator is connected.
Happens ==
    /\ happened < MaxSequence
    /\ happened' = happened + 1
    /\ inflight' = IF connected \/ at = "connect" THEN inflight \union {happened'}
                   ELSE inflight
    /\ UNCHANGED <<needsRest, connected, session, generatorVars, traderVars, moved>>
-----------------------------------------------------------------------------
Generator == \/ Start \/ Connects \/ Raises \/ Breaks \/ SessionChecked
             \/ \E n \in Executions, stale \in BOOLEAN : ReceiveExecution(n, stale)
             \/ \E e \in OtherEvents, stale \in BOOLEAN : ReceiveOther(e, stale)
             \/ Resume \/ Close \/ Stop

Next == \/ Generator
        \/ ReconcileBegins \/ SubmitBegins \/ AccountRead \/ Settles \/ Sends
        \/ TraderGivesUp \/ SessionChanges \/ Happens

Spec == Init /\ [][Next]_vars

\* Every socket operation has a deadline and the consumer keeps iterating.
FairSpec == Spec /\ WF_vars(Generator /\ at # "idle")
-----------------------------------------------------------------------------
(* Properties. *)

\* Types, and the stream counted as connected only while the generator runs.
TypeOK ==
    /\ needsRest \in BOOLEAN /\ connected \in BOOLEAN /\ moved \in BOOLEAN
    /\ session \in {"none", "subscribed", "other"}
    /\ at \in {"idle", "connect", "yield", "receive", "broken", "stop"}
    /\ yielded \in {"none", "connected", "event", "terminated", "disconnected"}
    /\ iterators \in 0..MaxIterators
    /\ generation \in 0..MaxReconnects /\ delivered \in 0..MaxEvents
    /\ last \in 0..MaxSequence
    /\ doing \in {"idle", "read", "settle", "send"} /\ submitting \in BOOLEAN
    /\ happened \in 0..MaxSequence /\ upTo \in 0..happened /\ restUpTo \in 0..happened
    /\ inflight \subseteq 1..happened /\ seen \subseteq 1..happened
    /\ connected => at \in {"yield", "receive", "broken", "stop"}

\* While submissions are not blocked, every execution numbered between two that
\* the iterator delivered was delivered too or is in a completed account read.
LossIsFlagged ==
    ~needsRest => \A m \in seen, n \in 1..happened :
                     (n < m /\ \E k \in seen : k < n) => n \in seen \/ n <= restUpTo

\* An iterator that has stopped leaves submissions blocked, and no account read
\* that overlaps the stop unblocks them.
StoppedStreamBlocks == at = "idle" /\ iterators > 0 => needsRest

\* The iterator ends by itself: events and reconnects are bounded together.
IteratorEnds == at # "idle" ~> at = "idle"

\* docs/protocol.md: the flag "blocks new live submissions until
\* reconcile_account() succeeds while the stream is open".
NoSendWhileBlocked == doing = "send" => ~needsRest
=============================================================================
