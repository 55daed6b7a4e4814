----------------------------- MODULE Quickstart -----------------------------
(***************************************************************************)
(* One run of the quick start (quickstart.py): the settings and the        *)
(* command flag choose the offline demonstration (DemoRun), the public     *)
(* reads, the private reads, the account stream, or one supervised trade   *)
(* (SupervisedTrade), and decide what the client may do (configuration.py, *)
(* Settings.validate and client_config).                                   *)
(*                                                                         *)
(* Each mode makes its own client, so the demonstration has variables of   *)
(* its own.  WatchAccount models the stream mode's loop; here it ends.     *)
(***************************************************************************)
EXTENDS SupervisedTrade

CONSTANT Quotes   \* how many quotes the demonstration's policy returned

ASSUME QuotesAssumption == Quotes \in Nat

VARIABLES
    settings,   \* the mode, --allow-live-orders, whether a limit price is given and
                \* all values are valid, and --show-config
    demoAt, k, orders, acknowledged, demoOpen, demoUncertain, demoHalted, raising, failures

Demo == INSTANCE DemoRun WITH at <- demoAt, open <- demoOpen,
                              uncertain <- demoUncertain, halted <- demoHalted

demo == <<demoAt, k, orders, acknowledged, demoOpen, demoUncertain, demoHalted, raising,
          failures>>
trade == <<client, published, rotations, book>>
runVars == <<vars, settings, demo>>

MODES == {"offline", "public", "private", "stream", "trade"}

RunInit == /\ InitAt("start") /\ Demo!Init
           /\ settings \in [mode : MODES, flag : BOOLEAN, priced : BOOLEAN,
                            valid : BOOLEAN, show : BOOLEAN]
           /\ settings.mode # "trade" => pin = None
-----------------------------------------------------------------------------
FlagOptional(s) == s.valid /\ (s.flag => s.mode = "trade")     \* mutant
FlagFits(s) == s.valid /\ (s.flag <=> s.mode = "trade")
Runnable(s) == FlagFits(s) /\ (s.mode = "trade" => s.priced)

FirstStep(mode) == CASE mode = "offline" -> "demo"
                     [] mode = "trade" -> "discover"
                     [] mode = "public" -> "public"
                     [] OTHER -> "signin"

\* main and run, up to the branch on the mode.
Dispatches ==
    /\ at = "start"
    /\ at' = IF settings.valid /\ settings.show THEN "returned"
             ELSE IF Runnable(settings) THEN FirstStep(settings.mode)
             ELSE "raised"
    /\ UNCHANGED <<trade, settings, demo>>

\* The demonstration fails before its first order, takes a step, or ends.
DemoSetupFails ==
    /\ at = "demo" /\ Demo!Init
    /\ at' = "raised"
    /\ UNCHANGED <<trade, settings, demo>>

DemoStep ==
    /\ at = "demo" /\ Demo!Next
    /\ UNCHANGED <<vars, settings>>

DemoEnds ==
    /\ at = "demo" /\ Demo!Ended
    /\ at' = IF demoAt = "pass" THEN "returned" ELSE "raised"
    /\ UNCHANGED <<trade, settings, demo>>

\* Market reads and a bounded number of depth frames, without a session.
PublicReads ==
    /\ at = "public"
    /\ at' \in {"returned", "raised"}
    /\ UNCHANGED <<trade, settings, demo>>

\* The private modes: the account is read as in a trade, but without discovery.
ReadsAccountOnly ==
    /\ at = "account"
    /\ at' = IF settings.mode = "stream" THEN "watch" ELSE "returned"
    /\ UNCHANGED trade

Watches ==
    /\ at = "watch"
    /\ at' \in {"returned", "raised"}
    /\ UNCHANGED trade

PrivateStep ==
    /\ settings.mode \in {"private", "stream"}
    /\ SignIn \/ ReadsAccountOnly \/ Watches \/ (at \in {"signin", "account"} /\ Raises)
    /\ UNCHANGED <<settings, demo>>

TradeStep == /\ settings.mode = "trade" /\ Process
             /\ UNCHANGED <<settings, demo>>

\* The venue's side of a trade.
VenueStep == /\ settings.mode = "trade" /\ at # "start" /\ Venue
             /\ UNCHANGED <<settings, demo>>
-----------------------------------------------------------------------------
Program == \/ Dispatches \/ DemoSetupFails \/ DemoStep \/ DemoEnds \/ PublicReads
           \/ PrivateStep \/ TradeStep

RunNext == Program \/ VenueStep

\* Every network operation has a deadline and the process is scheduled.
RunSpec == RunInit /\ [][RunNext]_runVars /\ WF_runVars(Program)
-----------------------------------------------------------------------------
(* Properties. *)

\* PASS is printed only when every quote was placed and its cancellation is
\* certain: the venue holds no open order and no command is unresolved.
PassMeansClean == Demo!PassMeansClean

\* However the demonstration ends, every acknowledged order was either confirmed
\* cancelled or has its one cancellation attempt on record: docs/protocol.md,
\* "attempts all known cancellations even if one fails".
CleanupReachesEveryOrder == Demo!CleanupReachesEveryOrder

\* Every run ends by itself, in every mode, and an order of the demonstration
\* still open at the venue then is one the client has on record as unresolved.
EndsAccountedFor == <>[](at \in {"returned", "raised"} /\ Demo!AccountedFor)

\* A normal return of a trade means that the order is terminal at the venue.
TradeReturnsSettled == settings.mode = "trade" /\ ~settings.show => ReturnedIsSettled

\* docs/configuration.md, "trade also needs --allow-live-orders": an order reaches
\* the wire only in a run whose mode, flag and price all ask for it, and no other
\* mode discovers a signing context or opens an order of any kind.
OrdersOnlyIfAsked ==
    wire # {} \/ order # "absent" \/ readings # {} =>
        settings.mode = "trade" /\ settings.flag /\ settings.priced /\ ~settings.show
=============================================================================
