--------------------------- MODULE SessionCache ---------------------------
(***************************************************************************)
(* Session start-up and renewal: authenticate_cached and authenticate      *)
(* (client_session.py) with the session cache file (credentials.py).       *)
(* Every owner is a process with a client of its own; they share the file  *)
(* and the venue's account.  The documentation asks for one renewal owner: *)
(* overlapped remembers that the rule was broken.  A process may die       *)
(* between any two steps and start again with only the file.               *)
(*                                                                         *)
(* The venue is external: every sign-in it carries out issues a token that *)
(* replaces the one before, also when the client has stopped waiting for   *)
(* the answer.  Tokens are numbered in the order they are issued.          *)
(*                                                                         *)
(* The cache is the program's own; one that belongs to another identity,   *)
(* or that cannot be read or parsed, makes load raise, as a failed network *)
(* read does: StartupFails.                                                *)
(***************************************************************************)
EXTENDS Integers, FiniteSets

CONSTANTS Owners,     \* the processes that renew
          Lifetime,   \* how long a token lives
          Window,     \* needs_renewal: the 24 hours before expiry
          MaxTime,    \* bound: the clock
          MaxTokens   \* bound: sign-ins

ASSUME CacheBounds == /\ Lifetime \in Nat \ {0} /\ Window \in Nat
                      /\ MaxTime \in Nat /\ MaxTokens \in Nat

VARIABLES
    \* each process
    at,         \* where authenticate_cached is
    candidate,  \* the cached session being validated
    session,    \* client._session
    halted,     \* client.halted
    temp,       \* its temporary file: absent, torn or a whole session
    \* the disk
    file,       \* the session cache
    \* the network and the venue
    asked,      \* the processes whose sign-in is on its way to the venue
    late,       \* sign-ins given up on that are still on their way
    reply,      \* to each process, the answer on its way back, or NoSession
    expiry,     \* the tokens issued, and when each expires
    replied,    \* the tokens issued to sign-ins each process was waiting for
    now,
    overlapped  \* two renewals were under way at once

vars == <<at, candidate, session, halted, temp, file, asked, late, reply, expiry,
          replied, now, overlapped>>

Tokens == 1..MaxTokens
NoSession == [token |-> 0, expires |-> 0]
Torn == [token |-> -1, expires |-> 0]
Sessions == [token : Tokens, expires : 0..(MaxTime + Lifetime)]
None == [p \in Owners |-> NoSession]

Newest == IF DOMAIN expiry = {} THEN 0
          ELSE CHOOSE t \in DOMAIN expiry : \A u \in DOMAIN expiry : u <= t
SignIns == Newest + late + Cardinality(asked)

Init == /\ at = [p \in Owners |-> "idle"] /\ candidate = None /\ session = None
        /\ halted = [p \in Owners |-> FALSE] /\ temp = None /\ file = NoSession
        /\ asked = {} /\ late = 0 /\ reply = None
        /\ expiry = [t \in {} |-> 0] /\ replied = [p \in Owners |-> {}] /\ now = 0
        /\ overlapped = FALSE
-----------------------------------------------------------------------------
network == <<asked, late, reply, expiry, replied>>
outside == <<network, now>>

NeedsRenewal(s) == s.expires - now <= Window

To(p, step) == at' = [at EXCEPT ![p] = step]
Set(f, p, value) == [f EXCEPT ![p] = value]

\* authenticate_cached: load the cache.
Start(p) ==
    /\ at[p] = "idle"
    /\ To(p, "load")
    /\ UNCHANGED <<candidate, session, halted, temp, file, outside, overlapped>>

Reuses == file # NoSession /\ ~NeedsRenewal(file)

LoadReuses(p) ==
    /\ at[p] = "load" /\ Reuses
    /\ candidate' = Set(candidate, p, file)
    /\ To(p, "identity")
    /\ UNCHANGED <<session, halted, temp, file, outside, overlapped>>

\* GET /auth/me accepts the token and confirms the account.
IdentityConfirmed(p) ==
    /\ at[p] = "identity"
    /\ candidate[p].token = Newest /\ now < candidate[p].expires
    /\ session' = Set(session, p, candidate[p])
    /\ To(p, "idle") /\ candidate' = Set(candidate, p, NoSession)
    /\ UNCHANGED <<halted, temp, file, outside, overlapped>>

\* authenticate: the old session is dropped before the nonce is asked for.
Renewing(q) == at[q] \in {"nonce", "signin", "save", "write", "replace"}
SignInBegins(p) ==
    /\ To(p, "nonce")
    /\ overlapped' = (overlapped \/ \E q \in Owners \ {p} : Renewing(q))
    /\ UNCHANGED <<candidate, halted, temp, file, outside>>
KeepsOldSession(p) ==                      \* mutant
    at[p] = "load" /\ ~Reuses /\ SignInBegins(p) /\ UNCHANGED session
SignsInAgain(p) ==                         \* mutant: a cached token is never reused
    at[p] = "load" /\ SignInBegins(p) /\ session' = Set(session, p, NoSession)
LoadRenews(p) ==
    at[p] = "load" /\ ~Reuses /\ SignInBegins(p) /\ session' = Set(session, p, NoSession)

\* The cache, /auth/me or the nonce read fails: nothing replaces the credentials.
StartupFails(p) ==
    /\ at[p] \in {"load", "identity", "nonce"}
    /\ To(p, "idle") /\ candidate' = Set(candidate, p, NoSession)
    /\ UNCHANGED <<session, halted, temp, file, outside, overlapped>>

SignInSent(p) ==
    /\ at[p] = "nonce" /\ SignIns < MaxTokens
    /\ asked' = asked \union {p} /\ To(p, "signin")
    /\ UNCHANGED <<candidate, session, halted, temp, file, late, reply, expiry,
                   replied, now, overlapped>>

SignInAnswered(p) ==
    /\ at[p] = "signin" /\ reply[p] # NoSession /\ now < reply[p].expires
    /\ session' = Set(session, p, reply[p]) /\ reply' = Set(reply, p, NoSession)
    /\ To(p, "save")
    /\ UNCHANGED <<candidate, halted, temp, file, asked, late, expiry, replied, now,
                   overlapped>>

\* The process no longer waits for its sign-in, which may still reach the venue.
Abandons(p) == /\ late' = IF p \in asked THEN late + 1 ELSE late
               /\ asked' = asked \ {p} /\ reply' = Set(reply, p, NoSession)

SignInUnknown(p) ==
    /\ at[p] = "signin"
    /\ halted' = Set(halted, p, TRUE)
    /\ To(p, "idle") /\ Abandons(p)
    /\ UNCHANGED <<candidate, session, temp, file, expiry, replied, now, overlapped>>

\* write_session_cache: a temporary file in the same directory, then os.replace.
WritesInPlace(p) ==                        \* mutant
    /\ at[p] = "save" /\ now < session[p].expires
    /\ file' = Torn /\ temp' = Set(temp, p, Torn)
    /\ To(p, "write")
    /\ UNCHANGED <<candidate, session, halted, outside, overlapped>>
SaveBegins(p) ==
    /\ at[p] = "save" /\ now < session[p].expires
    /\ temp' = Set(temp, p, Torn)
    /\ To(p, "write")
    /\ UNCHANGED <<candidate, session, halted, file, outside, overlapped>>

Written(p) ==
    /\ at[p] = "write"
    /\ temp' = Set(temp, p, session[p])
    /\ To(p, "replace")
    /\ UNCHANGED <<candidate, session, halted, file, outside, overlapped>>

Replaced(p) ==
    /\ at[p] = "replace"
    /\ file' = temp[p] /\ temp' = Set(temp, p, NoSession)
    /\ To(p, "idle")
    /\ UNCHANGED <<candidate, session, halted, outside, overlapped>>

\* The session has expired or the disk refuses: the exception leaves the session.
SaveFails(p) ==
    /\ at[p] \in {"save", "write", "replace"}
    /\ temp' = Set(temp, p, NoSession)
    /\ To(p, "idle")
    /\ UNCHANGED <<candidate, session, halted, file, outside, overlapped>>

Crash(p) ==
    /\ To(p, "idle")
    /\ candidate' = Set(candidate, p, NoSession) /\ session' = Set(session, p, NoSession)
    /\ halted' = Set(halted, p, FALSE) /\ temp' = Set(temp, p, NoSession)
    /\ Abandons(p)
    /\ UNCHANGED <<file, expiry, replied, now, overlapped>>
-----------------------------------------------------------------------------
(* The venue, the network and the clock. *)

clients == <<at, candidate, session, halted, temp, file, overlapped>>

Issue == expiry' = [t \in 1..(Newest + 1) |->
                       IF t <= Newest THEN expiry[t] ELSE now + Lifetime]

VenueSignsIn(p) ==
    /\ p \in asked
    /\ Issue
    /\ asked' = asked \ {p}
    /\ reply' = Set(reply, p, [token |-> Newest + 1, expires |-> now + Lifetime])
    /\ replied' = [replied EXCEPT ![p] = @ \union {Newest + 1}]
    /\ UNCHANGED <<clients, late, now>>

VenueSignsInLate ==
    /\ late > 0
    /\ Issue
    /\ late' = late - 1
    /\ UNCHANGED <<clients, asked, reply, replied, now>>

Lost ==
    /\ \/ \E p \in asked : asked' = asked \ {p} /\ UNCHANGED <<late, reply>>
       \/ late > 0 /\ late' = late - 1 /\ UNCHANGED <<asked, reply>>
       \/ \E p \in Owners : /\ reply[p] # NoSession
                            /\ reply' = Set(reply, p, NoSession)
                            /\ UNCHANGED <<asked, late>>
    /\ UNCHANGED <<clients, expiry, replied, now>>

Tick == /\ now < MaxTime
        /\ now' = now + 1
        /\ UNCHANGED <<clients, network>>
-----------------------------------------------------------------------------
Process(p) == \/ Start(p) \/ LoadReuses(p) \/ IdentityConfirmed(p) \/ LoadRenews(p)
              \/ StartupFails(p) \/ SignInSent(p) \/ SignInAnswered(p) \/ SignInUnknown(p)
              \/ SaveBegins(p) \/ Written(p) \/ Replaced(p) \/ SaveFails(p) \/ Crash(p)

Next == \/ \E p \in Owners : Process(p) \/ VenueSignsIn(p)
        \/ VenueSignsInLate \/ Lost \/ Tick

Spec == Init /\ [][Next]_vars
-----------------------------------------------------------------------------
(* Properties. *)

\* Types; the cache file, whenever a process may read it, is absent or a whole
\* session as the venue issued it, whatever crash, failed save or other process
\* came before.
TypeOK ==
    /\ at \in [Owners -> {"idle", "load", "identity", "nonce", "signin", "save",
                          "write", "replace"}]
    /\ {candidate, session, reply} \subseteq [Owners -> Sessions \union {NoSession}]
    /\ temp \in [Owners -> Sessions \union {NoSession, Torn}]
    /\ halted \in [Owners -> BOOLEAN] /\ asked \subseteq Owners /\ late \in 0..MaxTokens
    /\ \E n \in 0..MaxTokens : expiry \in [1..n -> 0..(MaxTime + Lifetime)]
    /\ replied \in [Owners -> SUBSET DOMAIN expiry] /\ now \in 0..MaxTime
    /\ overlapped \in BOOLEAN
    /\ file # NoSession =>
          /\ \E p \in Owners : file.token \in replied[p]
          /\ file.expires = expiry[file.token]

\* As long as no two renewals overlap, whichever processes they are of, a crash, a
\* lost answer or a failed save never leaves a cache that would be reused although
\* a sign-in some process waited for has replaced its token.
CacheIsNewestOrRenewed ==
    ~overlapped /\ file # NoSession =>
        \A p \in Owners : \A t \in replied[p] : t > file.token => NeedsRenewal(file)

\* A client never holds a session that a sign-in of its own has replaced, even if
\* renewals overlap: the old credentials go before the new ones are asked for.
NoSupersededSession ==
    \A p \in Owners :
        session[p] # NoSession => \A t \in replied[p] : t <= session[p].token
=============================================================================
