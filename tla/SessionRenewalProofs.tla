------------------------ MODULE SessionRenewalProofs ------------------------
(* Theorems about SessionRenewal, however many sessions and sign-ins it allows. *)
EXTENDS SessionRenewal, TLAPS

\* A token is used only after it was issued, and what is expired stays below the
\* newest: a token that expired never becomes valid again.
TokenInv ==
    /\ newest \in Nat /\ late \in Nat /\ newest # 0
    /\ file # 0 /\ (session # NoSession => session.object # 0 /\ session.token # 0)
    /\ key \in Nat /\ reading \in Nat /\ expired \subseteq 1..newest
    /\ own \in [object : 0..made, token : 0..newest]

\* The preflight reads were accepted after the intent took its token, so under a
\* token at least as new; an order is sent only after at least one of them.
PreflightInv ==
    /\ \A t \in under : key <= t
    /\ trading = "prepared" => reads = 0
    /\ trading \in {"ask", "asked"} => reads # 2
    /\ reads # 0 => under # {}
    /\ trading \in {"idle", "waiting"} \/ order = "none"
    /\ trading = "send" \/ order # "none" => under # {}

\* A session the stream captured and that was touched since is no longer the
\* client's, or has expired: an object is never made twice.
CaptureInv ==
    /\ streaming # "idle" => own # NoSession
    /\ own # NoSession /\ ~intact => own # session \/ own.token \in expired

\* The part of TypeOK that is about Booleans, which some steps take by itself.
Flags ==
    /\ {halted, connected, uncertain, intact, clean, asked} \subseteq BOOLEAN
    /\ uncertain => trading = "waiting" \/ halted
    /\ trading = "waiting" => uncertain

IInv == /\ TypeOK /\ TokenInv /\ PreflightInv /\ CaptureInv
        /\ AcceptedUnderOneSession /\ NoEventAcrossSessions
-----------------------------------------------------------------------------
\* The renewal owner drops, reuses or replaces the session at any point.
LEMMA RenewerKeeps == IInv /\ Renewer => IInv'
  <1> USE RenewalBounds
      DEF IInv, TypeOK, TokenInv, PreflightInv, CaptureInv, AcceptedUnderOneSession,
          NoEventAcrossSessions, NoSession, shared, renewer, trader, stream, venue, untouched
  <1>1. ASSUME IInv, RenewBegins PROVE IInv'
    BY <1>1 DEF RenewBegins
  <1>2. ASSUME IInv, LoadReuses PROVE IInv'
    BY <1>2 DEF LoadReuses
  <1>3. ASSUME IInv, IdentityConfirmed PROVE IInv'
    <2>1. Flags'
      BY <1>3 DEF IdentityConfirmed, Valid, NewSession, Replace, Flags
    <2>2. TypeOK'
      BY <1>3, <2>1 DEF IdentityConfirmed, Valid, NewSession, Replace, Flags
    <2>3. (TokenInv /\ PreflightInv /\ CaptureInv)'
      BY <1>3 DEF IdentityConfirmed, Valid, NewSession, Replace
    <2> QED
      BY <1>3, <2>2, <2>3 DEF IdentityConfirmed, Valid, NewSession, Replace
  <1>4. ASSUME IInv, SignInBegins PROVE IInv'
    <2>1. Flags'
      BY <1>4 DEF SignInBegins, Replace, Flags
    <2>2. TypeOK'
      BY <1>4, <2>1 DEF SignInBegins, Replace, Flags
    <2>3. (TokenInv /\ PreflightInv /\ CaptureInv)'
      BY <1>4 DEF SignInBegins, Replace
    <2> QED
      BY <1>4, <2>2, <2>3 DEF SignInBegins, Replace
  <1>5. ASSUME IInv, RenewFails PROVE IInv'
    BY <1>5 DEF RenewFails
  <1>6. ASSUME IInv, SignInSent PROVE IInv'
    BY <1>6 DEF SignInSent
  <1>7. ASSUME IInv, SignInAnswered PROVE IInv'
    <2>1. Flags'
      BY <1>7 DEF SignInAnswered, NewSession, Replace, Flags
    <2>2. TypeOK'
      BY <1>7, <2>1 DEF SignInAnswered, NewSession, Replace, Flags
    <2>3. (TokenInv /\ PreflightInv /\ CaptureInv)'
      BY <1>7 DEF SignInAnswered, NewSession, Replace
    <2> QED
      BY <1>7, <2>2, <2>3 DEF SignInAnswered, NewSession, Replace
  <1>8. ASSUME IInv, SignInUnknown PROVE IInv'
    <2>1. Flags'
      BY <1>8 DEF SignInUnknown, Flags
    <2>2. TypeOK'
      BY <1>8, <2>1 DEF SignInUnknown, Flags
    <2>3. (TokenInv /\ PreflightInv /\ CaptureInv)'
      BY <1>8 DEF SignInUnknown
    <2> QED
      BY <1>8, <2>2, <2>3 DEF SignInUnknown
  <1>9. ASSUME IInv, Saves PROVE IInv'
    BY <1>9 DEF Saves, Active
  <1> QED
    BY <1>1, <1>2, <1>3, <1>4, <1>5, <1>6, <1>7, <1>8, <1>9 DEF Renewer

\* The trader reads under the session of the moment and sends under its intent's.
LEMMA TraderKeeps == IInv /\ Trader => IInv'
  <1> USE RenewalBounds
      DEF IInv, TypeOK, TokenInv, PreflightInv, CaptureInv, AcceptedUnderOneSession,
          NoEventAcrossSessions, NoSession, shared, renewer, stream, venue, clientStream
  <1>1. ASSUME IInv, Prepares PROVE IInv'
    BY <1>1 DEF Prepares, Active
  <1>2. ASSUME IInv, PreflightBegins PROVE IInv'
    BY <1>2 DEF PreflightBegins, Active
  <1>3. ASSUME IInv, ReadSent PROVE IInv'
    BY <1>3 DEF ReadSent, Active
  <1>4. ASSUME IInv, ReadAnswered PROVE IInv'
    BY <1>4 DEF ReadAnswered, Valid
  <1>5. ASSUME IInv, Refused PROVE IInv'
    BY <1>5 DEF Refused
  <1>6. ASSUME IInv, Sends PROVE IInv'
    BY <1>6 DEF Sends
  <1>7. ASSUME IInv, Acknowledged PROVE IInv'
    <2>1. Flags'
      BY <1>7 DEF Acknowledged, Flags
    <2>2. TypeOK'
      BY <1>7, <2>1 DEF Acknowledged, Flags
    <2>3. (TokenInv /\ PreflightInv /\ CaptureInv)'
      BY <1>7 DEF Acknowledged
    <2> QED
      BY <1>7, <2>2, <2>3 DEF Acknowledged
  <1>8. ASSUME IInv, OutcomeUnknown PROVE IInv'
    BY <1>8 DEF OutcomeUnknown
  <1> QED
    BY <1>1, <1>2, <1>3, <1>4, <1>5, <1>6, <1>7, <1>8 DEF Trader

\* The stream captures the session and looks at it around every wait.
LEMMA StreamKeeps == IInv /\ Stream => IInv'
  <1> USE RenewalBounds
      DEF IInv, TypeOK, TokenInv, PreflightInv, CaptureInv, AcceptedUnderOneSession,
          NoEventAcrossSessions, NoSession, shared, renewer, trader, venue, others
  <1>1. ASSUME IInv, Captures PROVE IInv'
    BY <1>1 DEF Captures, Active
  <1>2. ASSUME IInv, Subscribed PROVE IInv'
    BY <1>2 DEF Subscribed, Valid
  <1>3. ASSUME IInv, SubscriptionChecked PROVE IInv'
    BY <1>3 DEF SubscriptionChecked, Active, Unchanged
  <1>4. ASSUME IInv, Awaits PROVE IInv'
    BY <1>4 DEF Awaits, Active, Unchanged
  <1>5. ASSUME IInv, FrameArrives PROVE IInv'
    BY <1>5 DEF FrameArrives
  <1>6. ASSUME IInv, Delivers PROVE IInv'
    BY <1>6 DEF Delivers, Active, Unchanged
  <1>7. ASSUME IInv, StreamEnds PROVE IInv'
    <2>1. Flags'
      BY <1>7 DEF StreamEnds, Flags
    <2>2. TypeOK'
      BY <1>7, <2>1 DEF StreamEnds, Flags
    <2>3. (TokenInv /\ PreflightInv /\ CaptureInv)'
      BY <1>7 DEF StreamEnds
    <2> QED
      BY <1>7, <2>2, <2>3 DEF StreamEnds
  <1> QED
    BY <1>1, <1>2, <1>3, <1>4, <1>5, <1>6, <1>7 DEF Stream

\* The venue issues, loses and expires tokens, and decides the order.
LEMMA VenueKeeps == IInv /\ Venue => IInv'
  <1> USE RenewalBounds
      DEF IInv, TypeOK, TokenInv, PreflightInv, CaptureInv, AcceptedUnderOneSession,
          NoEventAcrossSessions, NoSession, shared, renewer, trader, venue, threads
  <1>1. ASSUME IInv, VenueSignsIn PROVE IInv'
    <2>1. Flags'
      BY <1>1 DEF VenueSignsIn, Flags
    <2>2. TypeOK'
      BY <1>1, <2>1 DEF VenueSignsIn, Flags
    <2>3. (TokenInv /\ PreflightInv /\ CaptureInv)'
      BY <1>1 DEF VenueSignsIn
    <2> QED
      BY <1>1, <2>2, <2>3 DEF VenueSignsIn
  <1>2. ASSUME IInv, VenueSignsInLate PROVE IInv'
    BY <1>2 DEF VenueSignsInLate
  <1>3. ASSUME IInv, Lost PROVE IInv'
    <2>1. Flags'
      BY <1>3 DEF Lost, Flags
    <2>2. TypeOK'
      BY <1>3, <2>1 DEF Lost, Flags
    <2>3. (TokenInv /\ PreflightInv /\ CaptureInv)'
      BY <1>3 DEF Lost
    <2> QED
      BY <1>3, <2>2, <2>3 DEF Lost
  <1>4. ASSUME IInv, VenueDecides PROVE IInv'
    BY <1>4 DEF VenueDecides, Valid
  <1>5. ASSUME IInv, Expires PROVE IInv'
    BY <1>5 DEF Expires
  <1> QED
    BY <1>1, <1>2, <1>3, <1>4, <1>5 DEF Venue

\* The inductive invariant holds.
LEMMA Invariance == Spec => []IInv
  <1>1. Init => IInv
    <2> SUFFICES ASSUME Init PROVE IInv
      OBVIOUS
    <2>1. Flags
      BY DEF Init, Flags
    <2>2. TypeOK
      BY <2>1, RenewalBounds DEF Init, Flags, TypeOK, NoSession
    <2>3. TokenInv /\ PreflightInv /\ CaptureInv
      BY DEF Init, TokenInv, PreflightInv, CaptureInv, NoSession
    <2> QED
      BY <2>2, <2>3 DEF Init, IInv, AcceptedUnderOneSession, NoEventAcrossSessions
  <1>2. IInv /\ [Next]_vars => IInv'
    <2>1. ASSUME IInv, UNCHANGED vars PROVE IInv'
      BY <2>1 DEF IInv, TypeOK, TokenInv, PreflightInv, CaptureInv, AcceptedUnderOneSession,
         NoEventAcrossSessions, NoSession, vars, shared, renewer, trader, stream, venue
    <2> QED
      BY <2>1, RenewerKeeps, TraderKeeps, StreamKeeps, VenueKeeps DEF Next
  <1> QED
    BY <1>1, <1>2, PTL DEF Spec

\* The client's tokens, its threads' places and the account of its uncertain command
\* stay well formed: an order without an answer is waited for or halts the client.
THEOREM TypeCorrect == Spec => []TypeOK
  BY Invariance, PTL DEF IInv

\* An order the venue accepts was checked under the session that signed it, however
\* the renewal owner's steps fall between the trader's: tokens only get newer, and
\* the reads are between the intent and the send.
THEOREM OrdersUnderOneSession == Spec => []AcceptedUnderOneSession
  BY Invariance, PTL DEF IInv

\* No event is delivered across a change of session, not even back to the same token.
THEOREM EventsUnderOneSession == Spec => []NoEventAcrossSessions
  BY Invariance, PTL DEF IInv
=============================================================================
