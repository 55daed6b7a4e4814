------------------------------ MODULE DemoRun ------------------------------
(***************************************************************************)
(* The offline demonstration (__main__.py, run): submit each quote of the  *)
(* maker, then, whatever happened, cancel every acknowledged order, and    *)
(* report PASS only if nothing is left open.  The venue is the in-memory   *)
(* fixture (offline.py, OfflineVenue); the commands are submit_offline and *)
(* cancel_offline (client_orders.py), without the live preflight.          *)
(*                                                                         *)
(* The fixture answers at once or raises; fail_after_accept and            *)
(* fail_cancel make it raise after it has acted, and may be set before any *)
(* request.  The program is sequential: a step is one command with         *)
(* everything the client does about its answer.  Quickstart runs it, as    *)
(* its offline mode.                                                       *)
(***************************************************************************)
EXTENDS Integers

CONSTANT Quotes   \* how many quotes the policy returned

Ids == 1..Quotes

VARIABLES
    at,            \* "submit", "cleanup", or the outcome, "pass" or "raised"
    k,             \* the quote being submitted or cleaned up
    orders,        \* venue.orders: the status of each quote's order
    acknowledged,  \* the orders to clean up
    open,          \* client._open
    uncertain,     \* the quotes with a command under client.uncertain_commands
    halted,        \* client.halted
    raising,       \* an exception has left the submit loop
    failures

vars == <<at, k, orders, acknowledged, open, uncertain, halted, raising, failures>>

Init == /\ at = "submit" /\ k = 1
        /\ orders = [i \in Ids |-> "absent"]
        /\ acknowledged = {} /\ open = {} /\ uncertain = {}
        /\ halted = FALSE /\ raising = FALSE /\ failures = 0
-----------------------------------------------------------------------------
Submitting == at = "submit" /\ k \in Ids /\ ~halted
BeginCleanup == at' = "cleanup" /\ k' = 1

SubmitAcked ==
    /\ Submitting
    /\ orders' = [orders EXCEPT ![k] = "NEW"]
    /\ open' = open \union {k} /\ acknowledged' = acknowledged \union {k}
    /\ k' = k + 1
    /\ UNCHANGED <<at, uncertain, halted, raising, failures>>

\* The venue refuses the order, or accepts it and the answer is lost.
SubmitUnknown ==
    /\ Submitting
    /\ orders' \in {orders, [orders EXCEPT ![k] = "NEW"]}
    /\ uncertain' = uncertain \union {k} /\ halted' = TRUE
    /\ raising' = TRUE
    /\ BeginCleanup
    /\ UNCHANGED <<acknowledged, open, failures>>

\* prepare_order raises and nothing is sent.
PrepareFails ==
    /\ Submitting
    /\ raising' = TRUE
    /\ BeginCleanup
    /\ UNCHANGED <<orders, acknowledged, open, uncertain, halted, failures>>

AllSubmitted ==
    /\ at = "submit" /\ k \notin Ids
    /\ BeginCleanup
    /\ UNCHANGED <<orders, acknowledged, open, uncertain, halted, raising, failures>>
-----------------------------------------------------------------------------
(* The finally clause.  cancel_offline sends one cancellation; its answer   *)
(* carries no status, so the order is queried, and found CANCELED.          *)

CleaningUp == at = "cleanup" /\ k \in acknowledged /\ k \in open

CancelConfirmed ==
    /\ CleaningUp
    /\ orders' = [orders EXCEPT ![k] = "CANCELED"]
    /\ open' = open \ {k}
    /\ k' = k + 1
    /\ UNCHANGED <<at, acknowledged, uncertain, halted, raising, failures>>

CancelLost == /\ orders' \in {orders, [orders EXCEPT ![k] = "CANCELED"]}
              /\ uncertain' = uncertain \union {k} /\ halted' = TRUE

StopsAtFailure ==                          \* mutant: the first failure ends the clean-up
    /\ CleaningUp /\ CancelLost
    /\ failures' = failures + 1
    /\ at' = "raised"
    /\ UNCHANGED <<k, acknowledged, open, raising>>
ForgetsFailure ==                          \* mutant: the failure is not counted
    /\ CleaningUp /\ CancelLost
    /\ k' = k + 1
    /\ UNCHANGED <<at, acknowledged, open, raising, failures>>
CancelUnknown ==
    /\ CleaningUp /\ CancelLost
    /\ failures' = failures + 1
    /\ k' = k + 1
    /\ UNCHANGED <<at, acknowledged, open, raising>>

\* Failures raise; then an exception from the loop goes on; then an order that
\* open_orders lists raises; otherwise PASS.
Finish ==
    /\ at = "cleanup" /\ k \notin acknowledged
    /\ at' = IF failures > 0 \/ raising \/ (\E i \in Ids : orders[i] = "NEW")
             THEN "raised" ELSE "pass"
    /\ UNCHANGED <<k, orders, acknowledged, open, uncertain, halted, raising, failures>>
-----------------------------------------------------------------------------
Next == \/ SubmitAcked \/ SubmitUnknown \/ PrepareFails \/ AllSubmitted
        \/ CancelConfirmed \/ CancelUnknown \/ Finish

Spec == Init /\ [][Next]_vars
-----------------------------------------------------------------------------
(* Properties. *)

Ended == at \in {"pass", "raised"}

\* PASS is printed only when every quote was placed and its cancellation is
\* certain: the venue holds no open order and no command is unresolved.
PassMeansClean ==
    at = "pass" => uncertain = {} /\ \A i \in Ids : orders[i] = "CANCELED"

\* However the run ends, every acknowledged order was either confirmed cancelled
\* or has its one cancellation attempt on record: docs/protocol.md, "attempts all
\* known cancellations even if one fails".
CleanupReachesEveryOrder ==
    Ended => \A i \in acknowledged : orders[i] = "CANCELED" \/ i \in uncertain

\* Every order still open at the venue is one the client has on record.
AccountedFor == \A i \in Ids : orders[i] = "NEW" => i \in uncertain
=============================================================================
