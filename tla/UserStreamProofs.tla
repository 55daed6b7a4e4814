-------------------------- MODULE UserStreamProofs --------------------------
(* Theorems about UserStream, however many events, reconnections and iterators. *)
EXTENDS UserStream, TLAPS

\* An execution that the iterator never delivered although it delivered one before
\* and one after it.
Hole(n) == n \notin seen /\ \E k, m \in seen : k < n /\ n < m

\* Nothing is connected before the subscription or after the disconnection, and an
\* iterator that waits for a message has not delivered them all.
PlaceInv ==
    /\ at = "yield" /\ yielded = "disconnected" => ~connected
    /\ at \in {"connect", "receive", "broken"} => delivered < MaxEvents
    /\ at = "yield" /\ yielded \in {"connected", "disconnected"} => delivered < MaxEvents
    /\ at = "yield" => yielded # "none"
    /\ at = "connect" => ~connected

\* The last execution is one of those seen; what the account read in progress
\* reflects covers every hole as long as no notice has come since it was begun, and
\* so does what the last one reflected while submissions are not blocked.
SeenInv ==
    /\ last = 0 <=> seen = {}
    /\ last # 0 => last \in seen
    /\ doing = "settle" => restUpTo <= upTo
    /\ doing = "settle" /\ ~moved => \A n \in Executions : Hole(n) => n <= upTo
    /\ ~needsRest => \A n \in Executions : Hole(n) => n <= restUpTo

IInv == TypeOK /\ PlaceInv /\ SeenInv /\ StoppedStreamBlocks
-----------------------------------------------------------------------------
\* Every step keeps it: a delivery in sequence makes no hole, and any other is marked.
LEMMA Step == ASSUME IInv, [Next]_vars PROVE IInv'
  <1> USE StreamBounds
      DEF IInv, TypeOK, PlaceInv, SeenInv, StoppedStreamBlocks, Hole, Executions,
          generatorVars, traderVars
  <1>1. ASSUME Start PROVE IInv'
    BY <1>1 DEF Start
  <1>2. ASSUME Connects PROVE IInv'
    BY <1>2 DEF Connects, Mark, Suspend
  <1>3. ASSUME Raises PROVE IInv'
    BY <1>3 DEF Raises
  <1>4. ASSUME Breaks PROVE IInv'
    BY <1>4 DEF Breaks, Mark, Suspend
  <1>5. ASSUME SessionChecked PROVE IInv'
    BY <1>5 DEF SessionChecked
  <1>6. ASSUME Resume PROVE IInv'
    BY <1>6 DEF Resume, NextGeneration
  <1>7. ASSUME Close PROVE IInv'
    BY <1>7 DEF Close
  <1>8. ASSUME Stop PROVE IInv'
    BY <1>8 DEF Stop, Mark
  <1>9. ASSUME ReconcileBegins PROVE IInv'
    <2>1. TypeOK'
      BY <1>9 DEF ReconcileBegins
    <2>2. PlaceInv' /\ StoppedStreamBlocks'
      BY <1>9 DEF ReconcileBegins
    <2>3. SeenInv'
      BY <1>9 DEF ReconcileBegins
    <2> QED
      BY <2>1, <2>2, <2>3
  <1>10. ASSUME SubmitBegins PROVE IInv'
    <2>1. TypeOK'
      BY <1>10 DEF SubmitBegins
    <2>2. PlaceInv' /\ StoppedStreamBlocks'
      BY <1>10 DEF SubmitBegins
    <2>3. SeenInv'
      BY <1>10 DEF SubmitBegins
    <2> QED
      BY <2>1, <2>2, <2>3
  <1>11. ASSUME AccountRead PROVE IInv'
    BY <1>11 DEF AccountRead
  <1>12. ASSUME Settles PROVE IInv'
    <2>1. CASE connected /\ ~moved
      BY <1>12, <2>1 DEF Settles, StillBlocked
    <2>2. CASE ~(connected /\ ~moved)
      <3>1. needsRest' = needsRest
        BY <1>12, <2>2 DEF Settles, StillBlocked
      <3> QED
        BY <1>12, <2>2, <3>1 DEF Settles
    <2> QED
      BY <2>1, <2>2
  <1>13. ASSUME Sends PROVE IInv'
    BY <1>13 DEF Sends
  <1>14. ASSUME TraderGivesUp PROVE IInv'
    BY <1>14 DEF TraderGivesUp
  <1>15. ASSUME SessionChanges PROVE IInv'
    BY <1>15 DEF SessionChanges
  <1>16. ASSUME Happens PROVE IInv'
    BY <1>16 DEF Happens
  <1>17. ASSUME NEW n \in Executions, NEW stale \in BOOLEAN, ReceiveExecution(n, stale)
         PROVE  IInv'
    <2>1. /\ at = "receive" /\ n \in inflight /\ inflight' \subseteq inflight
          /\ last' = n /\ seen' = seen \union {n} /\ delivered' = delivered + 1
          /\ at' = "yield" /\ yielded' = "event"
          /\ UNCHANGED <<connected, session, iterators, generation, traderVars, happened>>
      BY <1>17 DEF ReceiveExecution, Suspend
    <2>2. CASE Mark
      BY <2>1, <2>2 DEF Mark
    <2>3. CASE ~OutOfSequence(n) /\ UNCHANGED <<needsRest, moved>>
      <3>1. TypeOK' /\ PlaceInv' /\ StoppedStreamBlocks'
        BY <2>1, <2>3
      <3>2. last = 0 \/ n = last + 1
        BY <2>3 DEF OutOfSequence
      <3>3. SeenInv'
        BY <2>1, <2>3, <3>2
      <3> QED
        BY <3>1, <3>3
    <2> QED
      BY <1>17, <2>2, <2>3 DEF ReceiveExecution
  <1>18. ASSUME NEW e \in OtherEvents, NEW stale \in BOOLEAN, ReceiveOther(e, stale)
         PROVE  IInv'
    <2>1. /\ at = "receive" /\ delivered' = delivered + 1
          /\ at' = "yield" /\ yielded' \in {"event", "terminated"}
          /\ UNCHANGED <<connected, session, iterators, generation, last, seen, traderVars,
                         happened, inflight>>
      BY <1>18 DEF ReceiveOther, Suspend
    <2>2. CASE Mark
      BY <2>1, <2>2 DEF Mark
    <2>3. CASE UNCHANGED <<needsRest, moved>>
      BY <2>1, <2>3
    <2> QED
      BY <1>18, <2>2, <2>3 DEF ReceiveOther
  <1>19. ASSUME UNCHANGED vars PROVE IInv'
    BY <1>19 DEF vars
  <1> QED
    BY <1>1, <1>2, <1>3, <1>4, <1>5, <1>6, <1>7, <1>8, <1>9, <1>10, <1>11, <1>12, <1>13,
       <1>14, <1>15, <1>16, <1>17, <1>18, <1>19
    DEF Next, Generator

\* Nothing was delivered, and nothing is open, at the start.
LEMMA Initially == Init => IInv
  <1> SUFFICES ASSUME Init PROVE IInv
    OBVIOUS
  <1>1. TypeOK
    <2>1. needsRest \in BOOLEAN /\ connected \in BOOLEAN /\ moved \in BOOLEAN
          /\ submitting \in BOOLEAN
      BY Zenon DEF Init
    <2> QED
      BY <2>1, StreamBounds DEF Init, TypeOK
  <1> QED
    BY <1>1, StreamBounds DEF Init, IInv, PlaceInv, SeenInv, StoppedStreamBlocks, Hole

\* The inductive invariant holds.
LEMMA Invariance == Spec => []IInv
  BY Initially, Step, PTL DEF Spec

\* The flags, positions and counters stay in their ranges, and the stream counts as
\* connected only while the generator runs.
THEOREM TypeCorrect == Spec => []TypeOK
  BY Invariance, PTL DEF IInv

\* While submissions are not blocked, every execution between two the iterator
\* delivered was delivered too or is in a completed account read.
THEOREM LossFlagged == Spec => []LossIsFlagged
  <1>1. IInv => LossIsFlagged
    BY StreamBounds DEF IInv, TypeOK, SeenInv, LossIsFlagged, Hole, Executions
  <1> QED
    BY <1>1, Invariance, PTL

\* A stopped iterator leaves submissions blocked, whatever the trader was doing.
THEOREM StopBlocks == Spec => []StoppedStreamBlocks
  BY Invariance, PTL DEF IInv
=============================================================================
