---------------------------- MODULE WatchAccount ----------------------------
(***************************************************************************)
(* watch_account (workflows.py): one thread iterates the account stream    *)
(* and reconciles whenever a message asks for it.  The generator and       *)
(* reconcile_account are UserStream's; here they never overlap, since the  *)
(* account is read only while the generator is suspended at a message, and *)
(* nothing replaces the session, which may expire.                         *)
(***************************************************************************)
EXTENDS UserStream

VARIABLES
    watcher,   \* "iterating" (the generator has the thread, or a message of its is at
               \* hand), "reconciling", "next", "failed", "leaving", "raising", or how
               \* it ended: "returned" or "raised"
    noticed    \* executions that had happened at the last message with the flag

watchVars == <<vars, watcher, noticed>>

WatchInit == Init /\ watcher = "iterating" /\ noticed = 0
-----------------------------------------------------------------------------
WatchStarts ==
    /\ iterators = 0 /\ Start
    /\ UNCHANGED <<watcher, noticed>>

\* The generator runs up to its next message.
Messages == \/ Connects \/ Breaks
            \/ \E n \in Executions, stale \in BOOLEAN : ReceiveExecution(n, stale)
            \/ \E e \in OtherEvents, stale \in BOOLEAN : ReceiveOther(e, stale)

NextMessage ==
    /\ watcher = "iterating" /\ Messages
    /\ noticed' = IF needsRest' THEN happened ELSE noticed
    /\ UNCHANGED watcher

\* An exception leaves the generator.
GeneratorFails ==
    /\ watcher = "iterating" /\ (Raises \/ SessionChecked)
    /\ watcher' = "raising"
    /\ UNCHANGED noticed

\* message.requires_reconciliation: always set on "connected" and "disconnected",
\* the client's flag on an event.
OnlyWhileConnected == needsRest /\ yielded # "disconnected"    \* mutant
OnlyAtConnections == needsRest /\ yielded \in {"connected", "disconnected"}  \* mutant
RequiresReconciliation == needsRest

HandlesMessage ==
    /\ watcher = "iterating" /\ at = "yield"
    /\ IF ~RequiresReconciliation
       THEN watcher' = "next" /\ UNCHANGED vars
       ELSE IF session = "none" THEN watcher' = "failed" /\ UNCHANGED vars
       ELSE watcher' = "reconciling" /\ ReconcileBegins
    /\ UNCHANGED noticed

Reconciles ==
    /\ watcher = "reconciling"
    /\ \/ AccountRead /\ UNCHANGED watcher
       \/ Settles /\ watcher' = "next"
       \/ TraderGivesUp /\ watcher' = "failed"
    /\ UNCHANGED noticed

LastDisconnection == yielded = "disconnected" /\ generation >= MaxReconnects

\* The loop asks for the next message, which may end the generator.
Continues ==
    /\ watcher = "next" /\ ~LastDisconnection /\ Resume
    /\ watcher' = IF at' = "stop" THEN "leaving" ELSE "iterating"
    /\ UNCHANGED noticed

\* The loop breaks, or reconcile_account raised: closing() closes the generator.
Leaves ==
    /\ \/ watcher = "next" /\ LastDisconnection /\ watcher' = "leaving"
       \/ watcher = "failed" /\ watcher' = "raising"
    /\ Close
    /\ UNCHANGED noticed

Ends ==
    /\ Stop
    /\ watcher' = IF watcher = "leaving" THEN "returned" ELSE "raised"
    /\ UNCHANGED noticed

SessionExpires ==
    /\ session # "none" /\ session' = "none"
    /\ UNCHANGED <<needsRest, connected, generatorVars, traderVars, moved, happened,
                   inflight, watcher, noticed>>

ExecutionHappens == Happens /\ UNCHANGED <<watcher, noticed>>
-----------------------------------------------------------------------------
WatchNext == \/ WatchStarts \/ NextMessage \/ GeneratorFails \/ HandlesMessage \/ Reconciles
             \/ Continues \/ Leaves \/ Ends \/ SessionExpires \/ ExecutionHappens

WatchSpec == WatchInit /\ [][WatchNext]_watchVars
-----------------------------------------------------------------------------
(* Properties. *)

\* Whenever the loop waits for an event, no notice is left unreconciled and there
\* is no hole: every execution between two delivered ones, across reconnections,
\* was delivered too or is in a completed account read.
WaitsInStep ==
    at = "receive" =>
        /\ ~needsRest
        /\ \A m, k \in seen : \A n \in (k + 1)..(m - 1) : n \in seen \/ n <= restUpTo

\* A normal return leaves no message behind: the account was read in full after
\* the last message that asked for it, the final disconnection included, and the
\* client stays blocked and disconnected.
ReturnIsReconciled ==
    watcher = "returned" => restUpTo >= noticed /\ needsRest /\ ~connected
=============================================================================
