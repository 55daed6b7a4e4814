------------------------- MODULE SessionCacheProofs -------------------------
(* Theorems about SessionCache, for any number of processes. *)
EXTENDS SessionCache, FiniteSetTheorems, TLAPS

Issued == {[token |-> t, expires |-> expiry[t]] : t \in 1..Newest}
Answered(t) == \E p \in Owners : t \in replied[p]
NewestAnswered(t) == \A q \in Owners : \A u \in replied[q] : u <= t

\* Tokens are numbered without a gap, and the bound on sign-ins is kept.
VenueInv ==
    /\ Newest \in Nat /\ late \in Nat /\ now \in 0..MaxTime
    /\ expiry \in [1..Newest -> 0..(MaxTime + Lifetime)]
    /\ replied \in [Owners -> SUBSET (1..Newest)]
    /\ IsFiniteSet(asked) /\ asked \subseteq Owners /\ SignIns <= MaxTokens

\* Each process's place and flags.
ProcessInv ==
    /\ at \in [Owners -> {"idle", "load", "identity", "nonce", "signin", "save",
                          "write", "replace"}]
    /\ halted \in [Owners -> BOOLEAN] /\ overlapped \in BOOLEAN

\* Every session that is held, on its way or on disk is one the venue issued to a
\* sign-in someone waited for; a torn one is only ever a temporary file that is
\* still being written.
CopiesInv ==
    /\ candidate \in [Owners -> Issued \union {NoSession}]
    /\ session \in [Owners -> Issued \union {NoSession}]
    /\ reply \in [Owners -> Issued \union {NoSession}]
    /\ temp \in [Owners -> Issued \union {NoSession, Torn}]
    /\ file \in Issued \union {NoSession}
    /\ file # NoSession => Answered(file.token)
    /\ \A p \in Owners :
          /\ candidate[p] # NoSession => Answered(candidate[p].token)
          /\ session[p] # NoSession => Answered(session[p].token)
          /\ reply[p] # NoSession => Answered(reply[p].token)

\* Where a process is says what it holds: no session from the old one's drop to the
\* answer, an answer only while it waits, and the new session until it is on disk.
PlaceInv ==
    \A p \in Owners :
        /\ at[p] \in {"nonce", "signin"} => session[p] = NoSession
        /\ p \in asked => at[p] = "signin" /\ reply[p] = NoSession
        /\ reply[p] # NoSession =>
              at[p] = "signin" /\ \A t \in replied[p] : t <= reply[p].token
        /\ at[p] \in {"save", "write", "replace"} => session[p] # NoSession
        /\ at[p] = "replace" => temp[p] = session[p]

\* While renewals keep apart, the one under way found a cache that needed it, and
\* holds or is about to get the newest token.
RenewalInv ==
    ~overlapped =>
        /\ \A p, q \in Owners : Renewing(p) /\ Renewing(q) => p = q
        /\ \A p \in Owners :
              /\ Renewing(p) /\ file # NoSession => NeedsRenewal(file)
              /\ reply[p] # NoSession => NewestAnswered(reply[p].token)
              /\ at[p] \in {"save", "write", "replace"} =>
                    NewestAnswered(session[p].token)

IInv == /\ VenueInv /\ ProcessInv /\ CopiesInv /\ PlaceInv /\ RenewalInv
        /\ CacheIsNewestOrRenewed /\ NoSupersededSession
-----------------------------------------------------------------------------
\* Tokens are numbered from one: the newest is the last of them.
LEMMA NewestIsLast ==
    \A n \in Nat : DOMAIN expiry = 1..n => Newest = n
  <1> SUFFICES ASSUME NEW n \in Nat, DOMAIN expiry = 1..n, n # 0 PROVE Newest = n
    BY DEF Newest
  <1>1. n \in DOMAIN expiry /\ \A u \in DOMAIN expiry : u <= n
    OBVIOUS
  <1>2. \A t \in DOMAIN expiry : (\A u \in DOMAIN expiry : u <= t) => t = n
    OBVIOUS
  <1> QED
    BY <1>1, <1>2 DEF Newest

\* Without a sign-in at the venue, what was issued stays what it was.
LEMMA NothingIssued == UNCHANGED expiry => Newest' = Newest /\ Issued' = Issued
  BY DEF Newest, Issued

\* Sending a sign-in counts it; giving up on one moves it from asked to late.
LEMMA AskCounts == ASSUME VenueInv, NEW p \in Owners
                   PROVE  /\ IsFiniteSet(asked \union {p}) /\ IsFiniteSet(asked \ {p})
                          /\ Cardinality(asked) \in Nat
                          /\ p \notin asked =>
                                Cardinality(asked \union {p}) = Cardinality(asked) + 1
                          /\ p \in asked =>
                                Cardinality(asked \ {p}) = Cardinality(asked) - 1
  BY FS_AddElement, FS_RemoveElement, FS_CardinalityType DEF VenueInv

\* Giving up on a sign-in keeps the count of those the venue may still carry out.
LEMMA AbandonCounts == ASSUME VenueInv, NEW p \in Owners, Abandons(p), Newest' = Newest
                       PROVE  /\ late' \in Nat /\ asked' \subseteq Owners
                              /\ IsFiniteSet(asked') /\ SignIns' <= MaxTokens
  <1>1. CASE p \in asked
    <2>1. asked' = asked \ {p} /\ late' = late + 1
      BY <1>1 DEF Abandons
    <2>2. /\ IsFiniteSet(asked') /\ Cardinality(asked) \in Nat
          /\ Cardinality(asked') = Cardinality(asked) - 1
      BY <1>1, <2>1, AskCounts
    <2>3. /\ Newest \in Nat /\ late \in Nat /\ asked' \subseteq Owners
          /\ Newest + late + Cardinality(asked) <= MaxTokens
      BY <2>1 DEF VenueInv, SignIns
    <2> QED
      BY <2>1, <2>2, <2>3, CacheBounds DEF SignIns
  <1>2. CASE p \notin asked
    <2>1. asked' = asked /\ late' = late
      BY <1>2 DEF Abandons
    <2> QED
      BY <2>1, AskCounts, CacheBounds DEF VenueInv, SignIns
  <1> QED
    BY <1>1, <1>2

\* A sign-in the venue carries out adds one token and leaves the others.
LEMMA IssueAddsOne == ASSUME VenueInv, Issue
                      PROVE  /\ Newest' = Newest + 1
                             /\ expiry' \in [1..(Newest + 1) -> 0..(MaxTime + Lifetime)]
                             /\ \A t \in 1..Newest : expiry'[t] = expiry[t]
                             /\ expiry'[Newest + 1] = now + Lifetime
                             /\ Issued \subseteq Issued'
                             /\ [token |-> Newest + 1, expires |-> now + Lifetime] \in Issued'
  <1>1. DOMAIN expiry' = 1..(Newest + 1) /\ Newest + 1 \in Nat
    BY DEF VenueInv, Issue
  <1>2. (\A n \in Nat : DOMAIN expiry = 1..n => Newest = n)'
    BY NewestIsLast, PTL
  <1>3. Newest' = Newest + 1
    BY <1>1, <1>2
  <1>4. /\ expiry' \in [1..(Newest + 1) -> 0..(MaxTime + Lifetime)]
        /\ \A t \in 1..Newest : expiry'[t] = expiry[t]
        /\ expiry'[Newest + 1] = now + Lifetime
    BY CacheBounds DEF VenueInv, Issue
  <1> QED
    BY <1>3, <1>4 DEF VenueInv, Issued

\* A step of a process: start-up, renewal, the write in two steps, or a crash.
LEMMA ProcessKeeps == ASSUME IInv, NEW p \in Owners, Process(p) PROVE IInv'
  <1> USE CacheBounds DEF To, Set, outside, network, Renewing
  <1>1. ASSUME Start(p) PROVE IInv'
    <2>1. Newest' = Newest /\ Issued' = Issued
      BY <1>1, NothingIssued DEF Start
    <2>2. (VenueInv /\ ProcessInv)'
      BY <1>1, <2>1 DEF Start, IInv, VenueInv, ProcessInv, SignIns
    <2>3. CopiesInv'
      BY <1>1, <2>1
      DEF Start, IInv, ProcessInv, CopiesInv, PlaceInv, Answered, NoSession, Torn, None
    <2>4. PlaceInv'
      BY <1>1, <2>1 DEF Start, IInv, VenueInv, ProcessInv, CopiesInv, PlaceInv, NoSession
    <2>5. RenewalInv'
      BY <1>1, <2>1
      DEF Start, IInv, ProcessInv, CopiesInv, PlaceInv, RenewalInv, NewestAnswered,
          NeedsRenewal
    <2>6. CacheIsNewestOrRenewed' /\ NoSupersededSession'
      BY <1>1, <2>1
      DEF Start, IInv, VenueInv, CopiesInv, PlaceInv, RenewalInv, CacheIsNewestOrRenewed,
          NoSupersededSession, NewestAnswered, NeedsRenewal, Answered
    <2> QED
      BY <2>2, <2>3, <2>4, <2>5, <2>6 DEF IInv
  <1>2. ASSUME LoadReuses(p) PROVE IInv'
    <2>1. Newest' = Newest /\ Issued' = Issued
      BY <1>2, NothingIssued DEF LoadReuses, Reuses
    <2>2. (VenueInv /\ ProcessInv)'
      BY <1>2, <2>1 DEF LoadReuses, Reuses, IInv, VenueInv, ProcessInv, SignIns
    <2>3. CopiesInv'
      BY <1>2, <2>1
      DEF LoadReuses, Reuses, IInv, ProcessInv, CopiesInv, PlaceInv, Answered, NoSession,
          Torn, None
    <2>4. PlaceInv'
      BY <1>2, <2>1
      DEF LoadReuses, Reuses, IInv, VenueInv, ProcessInv, CopiesInv, PlaceInv, NoSession
    <2>5. RenewalInv'
      BY <1>2, <2>1
      DEF LoadReuses, Reuses, IInv, ProcessInv, CopiesInv, PlaceInv, RenewalInv,
          NewestAnswered, NeedsRenewal
    <2>6. CacheIsNewestOrRenewed' /\ NoSupersededSession'
      BY <1>2, <2>1
      DEF LoadReuses, Reuses, IInv, VenueInv, CopiesInv, PlaceInv, RenewalInv,
          CacheIsNewestOrRenewed, NoSupersededSession, NewestAnswered, NeedsRenewal,
          Answered
    <2> QED
      BY <2>2, <2>3, <2>4, <2>5, <2>6 DEF IInv
  <1>3. ASSUME IdentityConfirmed(p) PROVE IInv'
    <2>1. Newest' = Newest /\ Issued' = Issued
      BY <1>3, NothingIssued DEF IdentityConfirmed
    <2>2. (VenueInv /\ ProcessInv)'
      BY <1>3, <2>1 DEF IdentityConfirmed, IInv, VenueInv, ProcessInv, SignIns
    <2>3. CopiesInv'
      BY <1>3, <2>1
      DEF IdentityConfirmed, IInv, ProcessInv, CopiesInv, PlaceInv, Answered, NoSession,
          Torn, None
    <2>4. PlaceInv'
      BY <1>3, <2>1
      DEF IdentityConfirmed, IInv, VenueInv, ProcessInv, CopiesInv, PlaceInv, NoSession
    <2>5. RenewalInv'
      BY <1>3, <2>1
      DEF IdentityConfirmed, IInv, ProcessInv, CopiesInv, PlaceInv, RenewalInv,
          NewestAnswered, NeedsRenewal
    <2>6. CacheIsNewestOrRenewed' /\ NoSupersededSession'
      BY <1>3, <2>1
      DEF IdentityConfirmed, IInv, VenueInv, CopiesInv, PlaceInv, RenewalInv,
          CacheIsNewestOrRenewed, NoSupersededSession, NewestAnswered, NeedsRenewal,
          Answered
    <2> QED
      BY <2>2, <2>3, <2>4, <2>5, <2>6 DEF IInv
  <1>4. ASSUME LoadRenews(p) PROVE IInv'
    <2>1. Newest' = Newest /\ Issued' = Issued
      BY <1>4, NothingIssued DEF LoadRenews, Reuses, SignInBegins
    <2>2. (VenueInv /\ ProcessInv)'
      BY <1>4, <2>1
      DEF LoadRenews, Reuses, SignInBegins, IInv, VenueInv, ProcessInv, SignIns
    <2>3. CopiesInv'
      BY <1>4, <2>1
      DEF LoadRenews, Reuses, SignInBegins, IInv, ProcessInv, CopiesInv, PlaceInv,
          Answered, NoSession, Torn, None
    <2>4. PlaceInv'
      BY <1>4, <2>1
      DEF LoadRenews, Reuses, SignInBegins, IInv, VenueInv, ProcessInv, CopiesInv,
          PlaceInv, NoSession
    <2>5. RenewalInv'
      <3>1. /\ ~Renewing(p) /\ at' = [at EXCEPT ![p] = "nonce"]
            /\ overlapped' = (overlapped \/ \E q \in Owners \ {p} : Renewing(q))
            /\ file # NoSession => NeedsRenewal(file)
            /\ session' = [session EXCEPT ![p] = NoSession]
            /\ UNCHANGED <<file, reply, replied, expiry, now>>
        BY <1>4 DEF LoadRenews, Reuses, SignInBegins
      <3>2. ASSUME ~overlapped'
            PROVE  ~overlapped /\ \A q \in Owners : Renewing(q)' => q = p
        BY <3>1, <3>2 DEF IInv, ProcessInv
      <3> QED
        BY <3>1, <3>2 DEF IInv, ProcessInv, CopiesInv, PlaceInv, RenewalInv, NewestAnswered,
                          NeedsRenewal
    <2>6. CacheIsNewestOrRenewed' /\ NoSupersededSession'
      BY <1>4, <2>1
      DEF LoadRenews, Reuses, SignInBegins, IInv, VenueInv, CopiesInv, PlaceInv,
          RenewalInv, CacheIsNewestOrRenewed, NoSupersededSession, NewestAnswered,
          NeedsRenewal, Answered
    <2> QED
      BY <2>2, <2>3, <2>4, <2>5, <2>6 DEF IInv
  <1>5. ASSUME StartupFails(p) PROVE IInv'
    <2>1. Newest' = Newest /\ Issued' = Issued
      BY <1>5, NothingIssued DEF StartupFails
    <2>2. (VenueInv /\ ProcessInv)'
      BY <1>5, <2>1 DEF StartupFails, IInv, VenueInv, ProcessInv, SignIns
    <2>3. CopiesInv'
      BY <1>5, <2>1
      DEF StartupFails, IInv, ProcessInv, CopiesInv, PlaceInv, Answered, NoSession, Torn,
          None
    <2>4. PlaceInv'
      BY <1>5, <2>1
      DEF StartupFails, IInv, VenueInv, ProcessInv, CopiesInv, PlaceInv, NoSession
    <2>5. RenewalInv'
      BY <1>5, <2>1
      DEF StartupFails, IInv, ProcessInv, CopiesInv, PlaceInv, RenewalInv, NewestAnswered,
          NeedsRenewal
    <2>6. CacheIsNewestOrRenewed' /\ NoSupersededSession'
      BY <1>5, <2>1
      DEF StartupFails, IInv, VenueInv, CopiesInv, PlaceInv, RenewalInv,
          CacheIsNewestOrRenewed, NoSupersededSession, NewestAnswered, NeedsRenewal,
          Answered
    <2> QED
      BY <2>2, <2>3, <2>4, <2>5, <2>6 DEF IInv
  <1>6. ASSUME SignInSent(p) PROVE IInv'
    <2>1. Newest' = Newest /\ Issued' = Issued
      BY <1>6, NothingIssued DEF SignInSent
    <2>2. (VenueInv /\ ProcessInv)'
      <3>1. p \notin asked /\ asked' = asked \union {p} /\ late' = late
        BY <1>6 DEF SignInSent, IInv, ProcessInv, PlaceInv
      <3>2. /\ IsFiniteSet(asked') /\ Cardinality(asked) \in Nat
            /\ Cardinality(asked') = Cardinality(asked) + 1
        BY <3>1, AskCounts DEF IInv
      <3>3. Newest + late + Cardinality(asked) < MaxTokens
        BY <1>6 DEF SignInSent, SignIns
      <3>4. SignIns' <= MaxTokens
        BY <2>1, <3>1, <3>2, <3>3 DEF IInv, VenueInv, SignIns
      <3> QED
        BY <1>6, <2>1, <3>2, <3>4 DEF SignInSent, IInv, VenueInv, ProcessInv
    <2>3. CopiesInv'
      BY <1>6, <2>1
      DEF SignInSent, IInv, ProcessInv, CopiesInv, PlaceInv, Answered, NoSession, Torn,
          None
    <2>4. PlaceInv'
      BY <1>6, <2>1
      DEF SignInSent, IInv, VenueInv, ProcessInv, CopiesInv, PlaceInv, NoSession
    <2>5. RenewalInv'
      BY <1>6, <2>1
      DEF SignInSent, IInv, ProcessInv, CopiesInv, PlaceInv, RenewalInv, NewestAnswered,
          NeedsRenewal
    <2>6. CacheIsNewestOrRenewed' /\ NoSupersededSession'
      BY <1>6, <2>1
      DEF SignInSent, IInv, VenueInv, CopiesInv, PlaceInv, RenewalInv,
          CacheIsNewestOrRenewed, NoSupersededSession, NewestAnswered, NeedsRenewal,
          Answered
    <2> QED
      BY <2>2, <2>3, <2>4, <2>5, <2>6 DEF IInv
  <1>7. ASSUME SignInAnswered(p) PROVE IInv'
    <2>1. Newest' = Newest /\ Issued' = Issued
      BY <1>7, NothingIssued DEF SignInAnswered
    <2>2. (VenueInv /\ ProcessInv)'
      BY <1>7, <2>1 DEF SignInAnswered, IInv, VenueInv, ProcessInv, SignIns
    <2>3. CopiesInv'
      BY <1>7, <2>1
      DEF SignInAnswered, IInv, ProcessInv, CopiesInv, PlaceInv, Answered, NoSession,
          Torn, None
    <2>4. PlaceInv'
      BY <1>7, <2>1
      DEF SignInAnswered, IInv, VenueInv, ProcessInv, CopiesInv, PlaceInv, NoSession
    <2>5. RenewalInv'
      BY <1>7, <2>1
      DEF SignInAnswered, IInv, ProcessInv, CopiesInv, PlaceInv, RenewalInv,
          NewestAnswered, NeedsRenewal
    <2>6. CacheIsNewestOrRenewed' /\ NoSupersededSession'
      BY <1>7, <2>1
      DEF SignInAnswered, IInv, VenueInv, CopiesInv, PlaceInv, RenewalInv,
          CacheIsNewestOrRenewed, NoSupersededSession, NewestAnswered, NeedsRenewal,
          Answered
    <2> QED
      BY <2>2, <2>3, <2>4, <2>5, <2>6 DEF IInv
  <1>8. ASSUME SignInUnknown(p) PROVE IInv'
    <2>1. Newest' = Newest /\ Issued' = Issued
      BY <1>8, NothingIssued DEF SignInUnknown, Abandons
    <2>2. (VenueInv /\ ProcessInv)'
      <3>1. Abandons(p) /\ UNCHANGED <<expiry, replied, now, overlapped>>
        BY <1>8 DEF SignInUnknown
      <3>2. VenueInv'
        BY <2>1, <3>1, AbandonCounts DEF IInv, VenueInv
      <3> QED
        BY <1>8, <3>1, <3>2 DEF SignInUnknown, IInv, ProcessInv
    <2>3. CopiesInv'
      BY <1>8, <2>1
      DEF SignInUnknown, Abandons, IInv, ProcessInv, CopiesInv, PlaceInv, Answered,
          NoSession, Torn, None
    <2>4. PlaceInv'
      BY <1>8, <2>1
      DEF SignInUnknown, Abandons, IInv, VenueInv, ProcessInv, CopiesInv, PlaceInv,
          NoSession
    <2>5. RenewalInv'
      BY <1>8, <2>1
      DEF SignInUnknown, Abandons, IInv, ProcessInv, CopiesInv, PlaceInv, RenewalInv,
          NewestAnswered, NeedsRenewal
    <2>6. CacheIsNewestOrRenewed' /\ NoSupersededSession'
      BY <1>8, <2>1
      DEF SignInUnknown, Abandons, IInv, VenueInv, CopiesInv, PlaceInv, RenewalInv,
          CacheIsNewestOrRenewed, NoSupersededSession, NewestAnswered, NeedsRenewal,
          Answered
    <2> QED
      BY <2>2, <2>3, <2>4, <2>5, <2>6 DEF IInv
  <1>9. ASSUME SaveBegins(p) PROVE IInv'
    <2>1. Newest' = Newest /\ Issued' = Issued
      BY <1>9, NothingIssued DEF SaveBegins
    <2>2. (VenueInv /\ ProcessInv)'
      BY <1>9, <2>1 DEF SaveBegins, IInv, VenueInv, ProcessInv, SignIns
    <2>3. CopiesInv'
      BY <1>9, <2>1
      DEF SaveBegins, IInv, ProcessInv, CopiesInv, PlaceInv, Answered, NoSession, Torn,
          None
    <2>4. PlaceInv'
      BY <1>9, <2>1
      DEF SaveBegins, IInv, VenueInv, ProcessInv, CopiesInv, PlaceInv, NoSession
    <2>5. RenewalInv'
      BY <1>9, <2>1
      DEF SaveBegins, IInv, ProcessInv, CopiesInv, PlaceInv, RenewalInv, NewestAnswered,
          NeedsRenewal
    <2>6. CacheIsNewestOrRenewed' /\ NoSupersededSession'
      BY <1>9, <2>1
      DEF SaveBegins, IInv, VenueInv, CopiesInv, PlaceInv, RenewalInv,
          CacheIsNewestOrRenewed, NoSupersededSession, NewestAnswered, NeedsRenewal,
          Answered
    <2> QED
      BY <2>2, <2>3, <2>4, <2>5, <2>6 DEF IInv
  <1>10. ASSUME Written(p) PROVE IInv'
    <2>1. Newest' = Newest /\ Issued' = Issued
      BY <1>10, NothingIssued DEF Written
    <2>2. (VenueInv /\ ProcessInv)'
      BY <1>10, <2>1 DEF Written, IInv, VenueInv, ProcessInv, SignIns
    <2>3. CopiesInv'
      BY <1>10, <2>1
      DEF Written, IInv, ProcessInv, CopiesInv, PlaceInv, Answered, NoSession, Torn, None
    <2>4. PlaceInv'
      BY <1>10, <2>1 DEF Written, IInv, VenueInv, ProcessInv, CopiesInv, PlaceInv, NoSession
    <2>5. RenewalInv'
      BY <1>10, <2>1
      DEF Written, IInv, ProcessInv, CopiesInv, PlaceInv, RenewalInv, NewestAnswered,
          NeedsRenewal
    <2>6. CacheIsNewestOrRenewed' /\ NoSupersededSession'
      BY <1>10, <2>1
      DEF Written, IInv, VenueInv, CopiesInv, PlaceInv, RenewalInv,
          CacheIsNewestOrRenewed, NoSupersededSession, NewestAnswered, NeedsRenewal,
          Answered
    <2> QED
      BY <2>2, <2>3, <2>4, <2>5, <2>6 DEF IInv
  <1>11. ASSUME Replaced(p) PROVE IInv'
    <2>1. Newest' = Newest /\ Issued' = Issued
      BY <1>11, NothingIssued DEF Replaced
    <2>2. (VenueInv /\ ProcessInv)'
      BY <1>11, <2>1 DEF Replaced, IInv, VenueInv, ProcessInv, SignIns
    <2>3. CopiesInv'
      BY <1>11, <2>1
      DEF Replaced, IInv, ProcessInv, CopiesInv, PlaceInv, Answered, NoSession, Torn, None
    <2>4. PlaceInv'
      BY <1>11, <2>1
      DEF Replaced, IInv, VenueInv, ProcessInv, CopiesInv, PlaceInv, NoSession
    <2>5. RenewalInv'
      BY <1>11, <2>1
      DEF Replaced, IInv, ProcessInv, CopiesInv, PlaceInv, RenewalInv, NewestAnswered,
          NeedsRenewal
    <2>6. CacheIsNewestOrRenewed' /\ NoSupersededSession'
      BY <1>11, <2>1
      DEF Replaced, IInv, VenueInv, CopiesInv, PlaceInv, RenewalInv,
          CacheIsNewestOrRenewed, NoSupersededSession, NewestAnswered, NeedsRenewal,
          Answered
    <2> QED
      BY <2>2, <2>3, <2>4, <2>5, <2>6 DEF IInv
  <1>12. ASSUME SaveFails(p) PROVE IInv'
    <2>1. Newest' = Newest /\ Issued' = Issued
      BY <1>12, NothingIssued DEF SaveFails
    <2>2. (VenueInv /\ ProcessInv)'
      BY <1>12, <2>1 DEF SaveFails, IInv, VenueInv, ProcessInv, SignIns
    <2>3. CopiesInv'
      BY <1>12, <2>1
      DEF SaveFails, IInv, ProcessInv, CopiesInv, PlaceInv, Answered, NoSession, Torn,
          None
    <2>4. PlaceInv'
      BY <1>12, <2>1
      DEF SaveFails, IInv, VenueInv, ProcessInv, CopiesInv, PlaceInv, NoSession
    <2>5. RenewalInv'
      BY <1>12, <2>1
      DEF SaveFails, IInv, ProcessInv, CopiesInv, PlaceInv, RenewalInv, NewestAnswered,
          NeedsRenewal
    <2>6. CacheIsNewestOrRenewed' /\ NoSupersededSession'
      BY <1>12, <2>1
      DEF SaveFails, IInv, VenueInv, CopiesInv, PlaceInv, RenewalInv,
          CacheIsNewestOrRenewed, NoSupersededSession, NewestAnswered, NeedsRenewal,
          Answered
    <2> QED
      BY <2>2, <2>3, <2>4, <2>5, <2>6 DEF IInv
  <1>13. ASSUME Crash(p) PROVE IInv'
    <2>1. Newest' = Newest /\ Issued' = Issued
      BY <1>13, NothingIssued DEF Crash, Abandons
    <2>2. (VenueInv /\ ProcessInv)'
      BY <1>13, <2>1, AbandonCounts DEF Crash, IInv, VenueInv, ProcessInv
    <2>3. CopiesInv'
      BY <1>13, <2>1
      DEF Crash, Abandons, IInv, ProcessInv, CopiesInv, PlaceInv, Answered, NoSession,
          Torn, None
    <2>4. PlaceInv'
      BY <1>13, <2>1
      DEF Crash, Abandons, IInv, VenueInv, ProcessInv, CopiesInv, PlaceInv, NoSession
    <2>5. RenewalInv'
      BY <1>13, <2>1
      DEF Crash, Abandons, IInv, ProcessInv, CopiesInv, PlaceInv, RenewalInv,
          NewestAnswered, NeedsRenewal
    <2>6. CacheIsNewestOrRenewed' /\ NoSupersededSession'
      BY <1>13, <2>1
      DEF Crash, Abandons, IInv, VenueInv, CopiesInv, PlaceInv, RenewalInv,
          CacheIsNewestOrRenewed, NoSupersededSession, NewestAnswered, NeedsRenewal,
          Answered
    <2> QED
      BY <2>2, <2>3, <2>4, <2>5, <2>6 DEF IInv
  <1> QED
    BY <1>1, <1>2, <1>3, <1>4, <1>5, <1>6, <1>7, <1>8, <1>9, <1>10, <1>11, <1>12, <1>13
    DEF Process

\* The venue carries out a sign-in that its process waits for: the answer is the
\* newest token, and it replaces every other.
LEMMA VenueSignsInKeeps == ASSUME IInv, NEW p \in Owners, VenueSignsIn(p) PROVE IInv'
  <1> USE CacheBounds DEF network, clients, Renewing, Set
  <1>1. /\ Newest' = Newest + 1
        /\ expiry' \in [1..(Newest + 1) -> 0..(MaxTime + Lifetime)]
        /\ \A t \in 1..Newest : expiry'[t] = expiry[t]
        /\ expiry'[Newest + 1] = now + Lifetime
        /\ Issued \subseteq Issued'
        /\ [token |-> Newest + 1, expires |-> now + Lifetime] \in Issued'
    BY IssueAddsOne DEF IInv, VenueSignsIn
  <1>2. (VenueInv /\ ProcessInv)'
    <2>1. asked' = asked \ {p} /\ p \in asked /\ late' = late
      BY DEF VenueSignsIn
    <2>2. /\ IsFiniteSet(asked') /\ SignIns' = SignIns
      <3>1. /\ IsFiniteSet(asked') /\ Cardinality(asked) \in Nat
            /\ Cardinality(asked') = Cardinality(asked) - 1
        BY <2>1, AskCounts DEF IInv
      <3>2. Newest \in Nat /\ late \in Nat
        BY DEF IInv, VenueInv
      <3> QED
        BY <1>1, <2>1, <3>1, <3>2 DEF SignIns
    <2>3. replied' \in [Owners -> SUBSET (1..(Newest + 1))]
      BY DEF VenueSignsIn, IInv, VenueInv
    <2> QED
      BY <1>1, <2>1, <2>2, <2>3 DEF VenueSignsIn, IInv, VenueInv, ProcessInv
  <1>3. CopiesInv'
    <2> DEFINE new == [token |-> Newest + 1, expires |-> now + Lifetime]
    <2>1. /\ UNCHANGED <<candidate, session, temp, file>>
          /\ reply' \in [Owners -> Issued' \union {NoSession}]
          /\ \A q \in Owners : reply'[q] = reply[q] \/ (q = p /\ reply'[q] = new)
      BY <1>1 DEF VenueSignsIn, IInv, CopiesInv
    <2>2. /\ \A q \in Owners : replied[q] \subseteq replied'[q]
          /\ Newest + 1 \in replied'[p]
      BY DEF VenueSignsIn, IInv, VenueInv
    <2>3. \A t : Answered(t) => \E r \in Owners : t \in replied'[r]
      BY <2>2 DEF Answered
    <2>4. \A q \in Owners : reply'[q] # NoSession =>
             \E r \in Owners : reply'[q].token \in replied'[r]
      BY <2>1, <2>2, <2>3 DEF IInv, CopiesInv
    <2>5. \A q \in Owners :
             /\ candidate'[q] # NoSession =>
                   \E r \in Owners : candidate'[q].token \in replied'[r]
             /\ session'[q] # NoSession =>
                   \E r \in Owners : session'[q].token \in replied'[r]
      BY <2>1, <2>3 DEF IInv, CopiesInv
    <2>6. file' # NoSession => \E r \in Owners : file'.token \in replied'[r]
      BY <2>1, <2>3 DEF IInv, CopiesInv
    <2>7. /\ candidate' \in [Owners -> Issued' \union {NoSession}]
          /\ session' \in [Owners -> Issued' \union {NoSession}]
          /\ temp' \in [Owners -> Issued' \union {NoSession, Torn}]
          /\ file' \in Issued' \union {NoSession}
      BY <1>1, <2>1 DEF IInv, CopiesInv
    <2> QED
      BY <2>1, <2>4, <2>5, <2>6, <2>7 DEF CopiesInv, Answered
  <1>4. PlaceInv'
    BY <1>1
    DEF VenueSignsIn, IInv, VenueInv, ProcessInv, CopiesInv, PlaceInv, NoSession, Issued
  <1>5. RenewalInv'
    BY <1>1
    DEF VenueSignsIn, IInv, VenueInv, ProcessInv, CopiesInv, PlaceInv, RenewalInv,
        NewestAnswered, NeedsRenewal, Issued, NoSession
  <1>6. CacheIsNewestOrRenewed' /\ NoSupersededSession'
    BY <1>1
    DEF VenueSignsIn, IInv, VenueInv, CopiesInv, PlaceInv, RenewalInv,
        CacheIsNewestOrRenewed, NoSupersededSession, NewestAnswered, NeedsRenewal,
        Answered, Renewing, NoSession, Issued
  <1> QED
    BY <1>2, <1>3, <1>4, <1>5, <1>6 DEF IInv

\* It carries out one that was abandoned: a token nobody will ever hold.
LEMMA VenueSignsInLateKeeps == ASSUME IInv, VenueSignsInLate PROVE IInv'
  <1> USE CacheBounds DEF network, clients, Renewing, Set
  <1>1. /\ Newest' = Newest + 1
        /\ expiry' \in [1..(Newest + 1) -> 0..(MaxTime + Lifetime)]
        /\ \A t \in 1..Newest : expiry'[t] = expiry[t]
        /\ expiry'[Newest + 1] = now + Lifetime
        /\ Issued \subseteq Issued'
        /\ [token |-> Newest + 1, expires |-> now + Lifetime] \in Issued'
    BY IssueAddsOne DEF IInv, VenueSignsInLate
  <1>2. (VenueInv /\ ProcessInv)'
    BY <1>1, AskCounts DEF VenueSignsInLate, IInv, VenueInv, ProcessInv, SignIns
  <1>3. CopiesInv'
    BY <1>1
    DEF VenueSignsInLate, IInv, VenueInv, CopiesInv, PlaceInv, Answered, NoSession, Torn
  <1>4. PlaceInv'
    BY <1>1
    DEF VenueSignsInLate, IInv, VenueInv, ProcessInv, CopiesInv, PlaceInv, NoSession,
        Issued
  <1>5. RenewalInv'
    BY <1>1
    DEF VenueSignsInLate, IInv, VenueInv, ProcessInv, CopiesInv, PlaceInv, RenewalInv,
        NewestAnswered, NeedsRenewal, Issued, NoSession
  <1>6. CacheIsNewestOrRenewed' /\ NoSupersededSession'
    BY <1>1
    DEF VenueSignsInLate, IInv, VenueInv, CopiesInv, PlaceInv, RenewalInv,
        CacheIsNewestOrRenewed, NoSupersededSession, NewestAnswered, NeedsRenewal,
        Answered, Renewing, NoSession, Issued
  <1> QED
    BY <1>2, <1>3, <1>4, <1>5, <1>6 DEF IInv

\* A request or an answer is lost; what was issued and what is held stay.
LEMMA LostKeeps == ASSUME IInv, Lost PROVE IInv'
  <1> USE CacheBounds DEF network, clients, Renewing, Set
  <1>1. Newest' = Newest /\ Issued' = Issued
    BY NothingIssued DEF Lost
  <1>2. (VenueInv /\ ProcessInv)'
    <2>1. /\ IsFiniteSet(asked') /\ asked' \subseteq Owners /\ late' \in Nat
          /\ late' + Cardinality(asked') <= late + Cardinality(asked)
      <3>1. CASE \E p \in asked : asked' = asked \ {p} /\ late' = late
        <4>1. PICK p \in asked : asked' = asked \ {p} /\ late' = late
          BY <3>1
        <4>2. /\ IsFiniteSet(asked') /\ Cardinality(asked) \in Nat
              /\ Cardinality(asked') = Cardinality(asked) - 1
          BY <4>1, AskCounts DEF IInv, VenueInv
        <4> QED
          BY <4>1, <4>2 DEF IInv, VenueInv
      <3>2. CASE late > 0 /\ late' = late - 1 /\ asked' = asked
        BY <3>2, FS_CardinalityType DEF IInv, VenueInv
      <3>3. CASE asked' = asked /\ late' = late
        BY <3>3, FS_CardinalityType DEF IInv, VenueInv
      <3> QED
        BY <3>1, <3>2, <3>3 DEF Lost
    <2>2. SignIns' <= SignIns /\ SignIns \in Nat /\ SignIns' \in Nat
      BY <1>1, <2>1, FS_CardinalityType DEF IInv, VenueInv, SignIns
    <2> QED
      BY <1>1, <2>1, <2>2 DEF Lost, IInv, VenueInv, ProcessInv
  <1>3. CopiesInv'
    <2>1. /\ UNCHANGED <<candidate, session, temp, file, replied>>
          /\ \A p \in Owners : reply'[p] \in {reply[p], NoSession}
          /\ reply' \in [Owners -> Issued \union {NoSession}]
      BY DEF Lost, IInv, CopiesInv
    <2>2. \A t : Answered(t) => \E r \in Owners : t \in replied'[r]
      BY <2>1 DEF Answered
    <2>3. \A q \in Owners :
             /\ candidate'[q] # NoSession =>
                   \E r \in Owners : candidate'[q].token \in replied'[r]
             /\ session'[q] # NoSession =>
                   \E r \in Owners : session'[q].token \in replied'[r]
             /\ reply'[q] # NoSession =>
                   \E r \in Owners : reply'[q].token \in replied'[r]
      BY <2>1, <2>2 DEF IInv, CopiesInv
    <2>4. file' # NoSession => \E r \in Owners : file'.token \in replied'[r]
      BY <2>1, <2>2 DEF IInv, CopiesInv
    <2>5. reply' \in [Owners -> Issued' \union {NoSession}]
      BY <1>1, <2>1
    <2>6. /\ candidate' \in [Owners -> Issued' \union {NoSession}]
          /\ session' \in [Owners -> Issued' \union {NoSession}]
          /\ temp' \in [Owners -> Issued' \union {NoSession, Torn}]
          /\ file' \in Issued' \union {NoSession}
      BY <1>1, <2>1 DEF IInv, CopiesInv
    <2> QED
      BY <2>3, <2>4, <2>5, <2>6 DEF CopiesInv, Answered
  <1>4. PlaceInv'
    BY <1>1 DEF Lost, IInv, VenueInv, ProcessInv, CopiesInv, PlaceInv, NoSession, Issued
  <1>5. RenewalInv'
    BY <1>1
    DEF Lost, IInv, VenueInv, ProcessInv, CopiesInv, PlaceInv, RenewalInv, NewestAnswered,
        NeedsRenewal, Issued, NoSession
  <1>6. CacheIsNewestOrRenewed' /\ NoSupersededSession'
    BY <1>1
    DEF Lost, IInv, VenueInv, CopiesInv, PlaceInv, RenewalInv, CacheIsNewestOrRenewed,
        NoSupersededSession, NewestAnswered, NeedsRenewal, Answered, Renewing, NoSession,
        Issued
  <1> QED
    BY <1>2, <1>3, <1>4, <1>5, <1>6 DEF IInv

\* Time passes: a session that needed renewal still does.
LEMMA TickKeeps == ASSUME IInv, Tick PROVE IInv'
  <1> USE CacheBounds DEF network, clients, Renewing, Set
  <1>1. Newest' = Newest /\ Issued' = Issued
    BY NothingIssued DEF Tick
  <1>2. (VenueInv /\ ProcessInv)'
    BY <1>1, AskCounts DEF Tick, IInv, VenueInv, ProcessInv, SignIns
  <1>3. CopiesInv'
    BY <1>1 DEF Tick, IInv, VenueInv, CopiesInv, PlaceInv, Answered, NoSession, Torn
  <1>4. PlaceInv'
    BY <1>1 DEF Tick, IInv, VenueInv, ProcessInv, CopiesInv, PlaceInv, NoSession, Issued
  <1>5. RenewalInv'
    BY <1>1
    DEF Tick, IInv, VenueInv, ProcessInv, CopiesInv, PlaceInv, RenewalInv, NewestAnswered,
        NeedsRenewal, Issued, NoSession
  <1>6. CacheIsNewestOrRenewed' /\ NoSupersededSession'
    BY <1>1
    DEF Tick, IInv, VenueInv, CopiesInv, PlaceInv, RenewalInv, CacheIsNewestOrRenewed,
        NoSupersededSession, NewestAnswered, NeedsRenewal, Answered, Renewing, NoSession,
        Issued
  <1> QED
    BY <1>2, <1>3, <1>4, <1>5, <1>6 DEF IInv

\* The inductive invariant holds.
LEMMA Invariance == Spec => []IInv
  <1>1. Init => IInv
    <2> SUFFICES ASSUME Init PROVE IInv
      OBVIOUS
    <2>1. Newest = 0 /\ Cardinality(asked) = 0 /\ IsFiniteSet(asked)
      BY FS_EmptySet DEF Init, Newest
    <2>2. VenueInv /\ ProcessInv
      <3>1. SignIns <= MaxTokens
        BY <2>1, CacheBounds DEF Init, SignIns
      <3>2. expiry \in [1..0 -> 0..(MaxTime + Lifetime)]
        BY DEF Init
      <3>3. /\ replied \in [Owners -> SUBSET (1..0)] /\ asked = {}
            /\ late = 0 /\ now = 0
        BY DEF Init
      <3>4. VenueInv
        BY <2>1, <3>1, <3>2, <3>3, CacheBounds DEF VenueInv
      <3>5. ProcessInv
        BY DEF Init, ProcessInv
      <3> QED
        BY <3>4, <3>5
    <2>3. CopiesInv /\ PlaceInv /\ RenewalInv
      BY DEF Init, CopiesInv, PlaceInv, RenewalInv, None, Renewing
    <2> QED
      BY <2>2, <2>3 DEF Init, IInv, CacheIsNewestOrRenewed, NoSupersededSession
  <1>2. IInv /\ [Next]_vars => IInv'
    <2>1. ASSUME IInv, UNCHANGED vars PROVE IInv'
      <3>1. Newest' = Newest /\ Issued' = Issued
        BY <2>1, NothingIssued DEF vars
      <3> QED
        BY <2>1, <3>1 DEF vars, IInv, VenueInv, ProcessInv, CopiesInv, PlaceInv, RenewalInv,
           CacheIsNewestOrRenewed, NoSupersededSession, SignIns, Answered, NewestAnswered,
           Renewing, NeedsRenewal
    <2> QED
      BY <2>1, ProcessKeeps, VenueSignsInKeeps, VenueSignsInLateKeeps, LostKeeps, TickKeeps
      DEF Next
  <1> QED
    BY <1>1, <1>2, PTL DEF Spec

\* Every session in memory, in flight or on disk is whole and one the venue issued:
\* whatever crash, failed save or other process came before, the cache file a
\* process reads is absent or a session some process was answered with.
THEOREM TypeCorrect == Spec => []TypeOK
  <1>1. IInv => TypeOK
    <2> SUFFICES ASSUME IInv PROVE TypeOK
      OBVIOUS
    <2>1. Newest \in 0..MaxTokens /\ late \in 0..MaxTokens
      BY FS_CardinalityType, CacheBounds DEF IInv, VenueInv, SignIns
    <2>2. Issued \subseteq Sessions
      BY <2>1, CacheBounds DEF Issued, Sessions, Tokens, IInv, VenueInv
    <2>3. DOMAIN expiry = 1..Newest
      BY DEF IInv, VenueInv
    <2>4. file # NoSession =>
             (\E p \in Owners : file.token \in replied[p]) /\ file.expires = expiry[file.token]
      BY DEF IInv, CopiesInv, Answered, Issued
    <2> QED
      BY <2>1, <2>2, <2>3, <2>4
      DEF IInv, VenueInv, ProcessInv, CopiesInv, TypeOK
  <1> QED
    BY <1>1, Invariance, PTL

\* As long as no two renewals overlap, a crash, a lost answer or a failed save never
\* leaves a cache that would be reused although its token was replaced by a sign-in
\* some process waited for.
THEOREM CacheNeverStale == Spec => []CacheIsNewestOrRenewed
  BY Invariance, PTL DEF IInv

\* However renewals overlap, no process holds a session its own sign-in replaced.
THEOREM OldSessionGoesFirst == Spec => []NoSupersededSession
  BY Invariance, PTL DEF IInv
=============================================================================
