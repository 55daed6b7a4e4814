------------------------ MODULE WatchAccountProofs ------------------------
(* Theorems about WatchAccount, which stand on those of the stream it iterates. *)
EXTENDS WatchAccount, UserStreamProofs

\* The loop and the generator take turns: the account is read only while the
\* generator is suspended, and with no notice after the read began.
TurnInv ==
    /\ watcher \in {"iterating", "reconciling", "next", "failed", "leaving", "raising",
                    "returned", "raised"}
    /\ at \in {"connect", "receive", "broken"} => watcher = "iterating"
    /\ watcher \in {"reconciling", "next", "failed"} => at = "yield"
    /\ watcher = "reconciling" => doing \in {"read", "settle"} /\ ~moved /\ ~submitting
    /\ watcher # "reconciling" => doing = "idle"
    /\ at # "idle" \/ watcher # "iterating" => iterators > 0
    /\ watcher = "returned" => at = "idle"
    /\ at \in {"receive", "broken"} => connected
    /\ at = "yield" /\ yielded # "disconnected" => connected

\* Every message that asked for an account read has had one that began after it,
\* unless the loop is still at it or has failed.
NoticeInv ==
    /\ noticed \in 0..happened
    /\ watcher = "reconciling" /\ doing = "settle" => noticed <= upTo
    /\ ~needsRest \/ watcher \in {"next", "leaving", "returned"} => noticed <= restUpTo
    /\ watcher = "next" /\ connected => ~needsRest
    /\ at = "receive" => ~needsRest

WatchInv == IInv /\ TurnInv /\ NoticeInv
-----------------------------------------------------------------------------
\* Every step of the loop is a step of the stream or leaves it alone.
LEMMA LoopSteps == [WatchNext]_watchVars => [Next]_vars
  <1> SUFFICES ASSUME WatchNext \/ UNCHANGED watchVars PROVE Next \/ UNCHANGED vars
    OBVIOUS
  <1>1. CASE WatchStarts
    BY <1>1 DEF WatchStarts, Next, Generator
  <1>2. CASE NextMessage
    BY <1>2 DEF NextMessage, Messages, Next, Generator
  <1>3. CASE GeneratorFails
    BY <1>3 DEF GeneratorFails, Next, Generator
  <1>4. CASE HandlesMessage
    BY <1>4 DEF HandlesMessage, Next
  <1>5. CASE Reconciles
    BY <1>5 DEF Reconciles, Next
  <1>6. CASE Continues \/ Leaves \/ Ends
    BY <1>6 DEF Continues, Leaves, Ends, Next, Generator
  <1>7. CASE SessionExpires
    BY <1>7 DEF SessionExpires, SessionChanges, Next
  <1>8. CASE ExecutionHappens
    BY <1>8 DEF ExecutionHappens, Next
  <1>9. CASE UNCHANGED watchVars
    BY <1>9 DEF watchVars
  <1> QED
    BY <1>1, <1>2, <1>3, <1>4, <1>5, <1>6, <1>7, <1>8, <1>9 DEF WatchNext

\* Each step of the loop, with the stream's own invariant, keeps turn and notice.
LEMMA TurnsKept == ASSUME WatchInv, IInv', [WatchNext]_watchVars
                   PROVE  TurnInv' /\ NoticeInv'
  <1> USE DEF WatchInv, IInv, TypeOK, PlaceInv, SeenInv, TurnInv, NoticeInv, generatorVars,
              traderVars
  <1>1. CASE WatchStarts
    BY <1>1, StreamBounds DEF WatchStarts, Start
  <1>2. CASE NextMessage
    BY <1>2, StreamBounds
    DEF NextMessage, Messages, Connects, Breaks, ReceiveExecution, ReceiveOther, Mark,
        Suspend, OtherEvents, Executions
  <1>3. CASE GeneratorFails
    BY <1>3, StreamBounds DEF GeneratorFails, Raises, SessionChecked
  <1>4. CASE HandlesMessage
    BY <1>4, StreamBounds DEF HandlesMessage, RequiresReconciliation, ReconcileBegins, vars
  <1>5. CASE Reconciles
    <2>1. watcher = "reconciling" /\ noticed' = noticed
      BY <1>5 DEF Reconciles
    <2>2. CASE AccountRead /\ UNCHANGED watcher
      BY <2>1, <2>2 DEF AccountRead
    <2>3. CASE Settles /\ watcher' = "next"
      <3>1. connected => ~needsRest'
        BY <2>1, <2>3 DEF Settles, StillBlocked
      <3>2. submitting = FALSE
        BY <2>1, Zenon
      <3> QED
        BY <2>1, <2>3, <3>1, <3>2 DEF Settles
    <2>4. CASE TraderGivesUp /\ watcher' = "failed"
      BY <2>1, <2>4 DEF TraderGivesUp
    <2> QED
      BY <1>5, <2>2, <2>3, <2>4 DEF Reconciles
  <1>6. CASE Continues
    BY <1>6, StreamBounds DEF Continues, LastDisconnection, Resume, NextGeneration
  <1>7. CASE Leaves
    BY <1>7, StreamBounds DEF Leaves, LastDisconnection, Close
  <1>8. CASE Ends
    BY <1>8, StreamBounds DEF Ends, Stop, Mark
  <1>9. CASE SessionExpires
    BY <1>9, StreamBounds DEF SessionExpires
  <1>10. CASE ExecutionHappens
    BY <1>10, StreamBounds DEF ExecutionHappens, Happens
  <1>11. CASE UNCHANGED watchVars
    BY <1>11 DEF watchVars, vars
  <1> QED
    BY <1>1, <1>2, <1>3, <1>4, <1>5, <1>6, <1>7, <1>8, <1>9, <1>10, <1>11 DEF WatchNext

\* The inductive invariant holds.
LEMMA WatchInvariance == WatchSpec => []WatchInv
  <1>1. WatchInit => WatchInv
    <2> SUFFICES ASSUME WatchInit PROVE WatchInv
      OBVIOUS
    <2>1. IInv
      BY Initially DEF WatchInit
    <2>2. TurnInv /\ NoticeInv
      BY DEF WatchInit, Init, TurnInv, NoticeInv
    <2> QED
      BY <2>1, <2>2 DEF WatchInv
  <1>2. WatchInv /\ [WatchNext]_watchVars => WatchInv'
    <2> SUFFICES ASSUME WatchInv, [WatchNext]_watchVars PROVE WatchInv'
      OBVIOUS
    <2>1. IInv'
      BY LoopSteps, Step DEF WatchInv
    <2> QED
      BY <2>1, TurnsKept DEF WatchInv
  <1> QED
    BY <1>1, <1>2, PTL DEF WatchSpec

\* The loop adds nothing to the stream: what holds of every iterator and every trader
\* holds of the one the loop runs.
THEOREM LoopRunsTheStream == WatchSpec => Spec
  <1>1. WatchInit => Init
    BY DEF WatchInit
  <1> QED
    BY <1>1, LoopSteps, PTL DEF WatchSpec, Spec

\* Whenever the loop waits for an event, submissions are not blocked and no
\* execution between two delivered ones is unaccounted for.
THEOREM WaitInStep == WatchSpec => []WaitsInStep
  <1>1. WatchInv => WaitsInStep
    BY StreamBounds
    DEF WatchInv, IInv, TypeOK, SeenInv, NoticeInv, WaitsInStep, Hole, Executions
  <1> QED
    BY <1>1, WatchInvariance, PTL

\* A normal return has read the account after the last message that asked for it,
\* and leaves the client blocked and disconnected.
THEOREM ReturnReconciled == WatchSpec => []ReturnIsReconciled
  <1>1. WatchInv => ReturnIsReconciled
    BY StreamBounds
    DEF WatchInv, IInv, TypeOK, StoppedStreamBlocks, TurnInv, NoticeInv, ReturnIsReconciled
  <1> QED
    BY <1>1, WatchInvariance, PTL
=============================================================================
