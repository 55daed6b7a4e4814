-------------------------- MODULE SessionRenewal --------------------------
(***************************************************************************)
(* The session of one client under three threads: the renewal owner        *)
(* (client_session.py, authenticate_cached and authenticate), a trader     *)
(* (client_orders.py, submit_order with its preflight) and the iterator of *)
(* the account stream (user_stream.py).  Only the trader's commands take   *)
(* the client's lock; the session is replaced without it, at any point     *)
(* where another thread waits for the network.                             *)
(*                                                                         *)
(* A session is an object that holds a token: reusing a cached token makes *)
(* another object.  The venue is external: one account, whose newest token *)
(* is the only one accepted until it expires (README.md, "every run signs  *)
(* in again and replaces the prior token").  UserStream and OrderClient    *)
(* model the other checks of the two threads: here they may fail anywhere. *)
(***************************************************************************)
EXTENDS Naturals

CONSTANTS MaxSessions,   \* bound: Session objects made
          MaxTokens      \* bound: sign-ins the venue carries out

ASSUME RenewalBounds == MaxSessions \in Nat \ {0} /\ MaxTokens \in Nat \ {0}

VARIABLES
    \* the client's shared fields
    session,    \* _session: the object's number and its token
    made,       \* Session objects made
    halted, connected, uncertain,
    \* the renewal owner, and the cache file's token
    renewing, file,
    \* the trader: where it is, its intent's x-api-key, the preflight reads done,
    \* and the tokens they were made under; reading is the one under way
    trading, key, reads, under, reading,
    order,      \* the order's request: "none", "sent", "accepted" or "dropped"
    \* the stream: where it is and its own session; intact says that the client's
    \* session has not changed since, clean that it had not at the last delivery
    streaming, own, intact, clean,
    \* the venue: the newest token and those expired, and the sign-ins under way
    newest, expired, asked, late, reply

shared == <<session, made, halted, connected, uncertain>>
renewer == <<renewing, file>>
trader == <<trading, key, reads, under, reading, order>>
stream == <<streaming, own, intact, clean>>
venue == <<newest, expired, asked, late, reply>>
vars == <<shared, renewer, trader, stream, venue>>

NoSession == [object |-> 0, token |-> 0]
Valid(t) == t = newest /\ t \notin expired
Active == session # NoSession /\ session.token \notin expired   \* _active_session

Init == /\ session = [object |-> 1, token |-> 1] /\ made = 1
        /\ halted = FALSE /\ connected = FALSE /\ uncertain = FALSE
        /\ renewing = "idle" /\ file = 1
        /\ trading = "idle" /\ key = 0 /\ reads = 0 /\ under = {} /\ reading = 0
        /\ order = "none"
        /\ streaming = "idle" /\ own = NoSession /\ intact = TRUE /\ clean = TRUE
        /\ newest = 1 /\ expired = {} /\ asked = FALSE /\ late = 0 /\ reply = 0
-----------------------------------------------------------------------------
(* The renewal owner. *)

Replace(s) == session' = s /\ intact' = FALSE
NewSession(token) == /\ made < MaxSessions
                     /\ made' = made + 1
                     /\ Replace([object |-> made + 1, token |-> token])
untouched == <<halted, connected, uncertain, trader, streaming, own, clean>>

\* authenticate_cached looks at the stream and the commands once, then loads.
RenewBegins ==
    /\ renewing = "idle" /\ ~connected /\ ~uncertain
    /\ renewing' = "load"
    /\ UNCHANGED <<shared, file, trader, stream, venue>>

LoadReuses ==
    /\ renewing = "load" /\ file \notin expired
    /\ renewing' = "identity"
    /\ UNCHANGED <<shared, file, trader, stream, venue>>

IdentityConfirmed ==
    /\ renewing = "identity" /\ Valid(file)
    /\ NewSession(file)
    /\ renewing' = "idle"
    /\ UNCHANGED <<untouched, file, venue>>

\* authenticate, from authenticate_cached (the token may need renewal at any time
\* before it expires) or called by itself: the old session is dropped first.
SignInBegins ==
    /\ renewing \in {"idle", "load"}
    /\ Replace(NoSession)
    /\ renewing' = "nonce"
    /\ UNCHANGED <<made, untouched, file, venue>>

RenewFails ==
    /\ renewing \in {"load", "identity", "nonce", "save"}
    /\ renewing' = "idle"
    /\ UNCHANGED <<shared, file, trader, stream, venue>>

SignInSent ==
    /\ renewing = "nonce" /\ newest + late < MaxTokens
    /\ asked' = TRUE /\ renewing' = "signin"
    /\ UNCHANGED <<shared, file, trader, stream, newest, expired, late, reply>>

SignInAnswered ==
    /\ renewing = "signin" /\ reply # 0 /\ reply \notin expired
    /\ NewSession(reply)
    /\ reply' = 0 /\ renewing' = "save"
    /\ UNCHANGED <<untouched, file, newest, expired, asked, late>>

\* No lock is taken to halt; the sign-in may still reach the venue.
SignInUnknown ==
    /\ renewing = "signin"
    /\ halted' = TRUE /\ renewing' = "idle"
    /\ late' = (IF asked THEN late + 1 ELSE late) /\ asked' = FALSE /\ reply' = 0
    /\ UNCHANGED <<session, made, connected, uncertain, file, trader, stream, newest, expired>>

\* cache.save takes the client's session once more.
Saves ==
    /\ renewing = "save" /\ Active
    /\ file' = session.token /\ renewing' = "idle"
    /\ UNCHANGED <<shared, trader, stream, venue>>
-----------------------------------------------------------------------------
(* The trader, holding the lock from the preflight to the answer. *)

clientStream == <<session, made, connected, renewer, stream, venue>>

Prepares ==
    /\ trading = "idle" /\ ~halted /\ Active
    /\ key' = session.token /\ trading' = "prepared"
    /\ reads' = 0 /\ under' = {} /\ order' = "none"
    /\ UNCHANGED <<halted, uncertain, reading, clientStream>>

PreflightBegins ==
    /\ trading = "prepared" /\ ~halted /\ Active /\ key = session.token
    /\ trading' = "ask"
    /\ UNCHANGED <<halted, uncertain, key, reads, under, reading, order, clientStream>>

\* positions, then open_orders: each signs with the session of that moment.
ReadSent ==
    /\ trading = "ask" /\ Active
    /\ reading' = session.token /\ trading' = "asked"
    /\ UNCHANGED <<halted, uncertain, key, reads, under, order, clientStream>>

ReadAnswered ==
    /\ trading = "asked" /\ Valid(reading)
    /\ under' = under \union {reading} /\ reads' = reads + 1
    /\ trading' = IF reads = 0 THEN "ask" ELSE "send"
    /\ UNCHANGED <<halted, uncertain, key, reading, order, clientStream>>

Refused ==
    /\ trading \in {"prepared", "ask", "asked", "send"}
    /\ trading' = "idle"
    /\ UNCHANGED <<halted, uncertain, key, reads, under, reading, order, clientStream>>

SignsAtSend ==                             \* mutant: the session's token, not the intent's
    /\ trading = "send" /\ Active
    /\ key' = session.token
    /\ order' = "sent" /\ uncertain' = TRUE /\ trading' = "waiting"
    /\ UNCHANGED <<halted, reads, under, reading, clientStream>>
Sends ==
    /\ trading = "send"
    /\ order' = "sent" /\ uncertain' = TRUE /\ trading' = "waiting"
    /\ UNCHANGED <<halted, key, reads, under, reading, clientStream>>

Acknowledged ==
    /\ trading = "waiting" /\ order = "accepted"
    /\ uncertain' = FALSE /\ trading' = "idle"
    /\ UNCHANGED <<halted, key, reads, under, reading, order, clientStream>>

GivesUpQuietly ==                          \* mutant: an unanswered order does not halt
    /\ trading = "waiting"
    /\ trading' = "idle"
    /\ UNCHANGED <<halted, uncertain, key, reads, under, reading, order, clientStream>>
OutcomeUnknown ==
    /\ trading = "waiting"
    /\ halted' = TRUE /\ trading' = "idle"
    /\ UNCHANGED <<uncertain, key, reads, under, reading, order, clientStream>>
-----------------------------------------------------------------------------
(* The stream. *)

others == <<session, made, halted, uncertain, renewer, trader, venue>>

\* Before the first connection and before each reconnection.
Captures ==
    /\ streaming = "idle" /\ Active
    /\ own' = session /\ intact' = TRUE /\ streaming' = "subscribe"
    /\ UNCHANGED <<connected, clean, others>>

Subscribed ==
    /\ streaming = "subscribe" /\ Valid(own.token)
    /\ streaming' = "acknowledged"
    /\ UNCHANGED <<connected, own, intact, clean, others>>

SameToken == Active /\ session.token = own.token    \* mutant: tokens are compared
Unchanged == Active /\ session = own

SubscriptionChecked ==
    /\ streaming = "acknowledged" /\ Unchanged
    /\ connected' = TRUE /\ streaming' = "loop"
    /\ UNCHANGED <<own, intact, clean, others>>

Awaits ==
    /\ streaming = "loop" /\ Unchanged
    /\ streaming' = "await"
    /\ UNCHANGED <<connected, own, intact, clean, others>>

\* A frame, also of a subscription whose session was replaced.
FrameArrives ==
    /\ streaming = "await"
    /\ streaming' = "frame"
    /\ UNCHANGED <<connected, own, intact, clean, others>>

Delivers ==
    /\ streaming = "frame" /\ Unchanged
    /\ clean' = intact /\ streaming' = "loop"
    /\ UNCHANGED <<connected, own, intact, others>>

\* A check fails, the socket breaks, or the consumer closes the iterator.
StreamEnds ==
    /\ streaming # "idle"
    /\ connected' = FALSE /\ streaming' = "idle"
    /\ UNCHANGED <<own, intact, clean, others>>
-----------------------------------------------------------------------------
(* The venue, the network and the clock. *)

threads == <<session, made, halted, connected, uncertain, renewer, streaming, own, clean>>

VenueSignsIn ==
    /\ asked
    /\ newest' = newest + 1 /\ reply' = newest + 1 /\ asked' = FALSE
    /\ UNCHANGED <<threads, trader, intact, expired, late>>

VenueSignsInLate ==
    /\ late > 0
    /\ newest' = newest + 1 /\ late' = late - 1
    /\ UNCHANGED <<threads, trader, intact, expired, asked, reply>>

Lost ==
    /\ \/ asked /\ asked' = FALSE /\ UNCHANGED <<late, reply>>
       \/ late > 0 /\ late' = late - 1 /\ UNCHANGED <<asked, reply>>
       \/ reply # 0 /\ reply' = 0 /\ UNCHANGED <<asked, late>>
    /\ UNCHANGED <<threads, trader, intact, newest, expired>>

\* An order is accepted, also after the client stopped waiting, or has no effect.
VenueDecides ==
    /\ order = "sent"
    /\ order' \in IF Valid(key) THEN {"accepted", "dropped"} ELSE {"dropped"}
    /\ UNCHANGED <<threads, trading, key, reads, under, reading, intact, venue>>

Expires ==
    /\ newest \notin expired
    /\ expired' = 1..newest
    /\ intact' = (intact /\ session = NoSession)
    /\ UNCHANGED <<threads, trader, newest, asked, late, reply>>
-----------------------------------------------------------------------------
Renewer == \/ RenewBegins \/ LoadReuses \/ IdentityConfirmed \/ SignInBegins \/ RenewFails
           \/ SignInSent \/ SignInAnswered \/ SignInUnknown \/ Saves
Trader == \/ Prepares \/ PreflightBegins \/ ReadSent \/ ReadAnswered \/ Refused \/ Sends
          \/ Acknowledged \/ OutcomeUnknown
Stream == \/ Captures \/ Subscribed \/ SubscriptionChecked \/ Awaits \/ FrameArrives
          \/ Delivers \/ StreamEnds
Venue == VenueSignsIn \/ VenueSignsInLate \/ Lost \/ VenueDecides \/ Expires

Next == Renewer \/ Trader \/ Stream \/ Venue
Spec == Init /\ [][Next]_vars
-----------------------------------------------------------------------------
(* Properties. *)

\* Types; a command is under uncertain_commands from its send to its answer, and
\* after that only if the client is halted.
TypeOK ==
    /\ session \in [object : 0..made, token : 0..newest] /\ made \in 1..MaxSessions
    /\ {halted, connected, uncertain, intact, clean, asked} \subseteq BOOLEAN
    /\ renewing \in {"idle", "load", "identity", "nonce", "signin", "save"}
    /\ trading \in {"idle", "prepared", "ask", "asked", "send", "waiting"}
    /\ streaming \in {"idle", "subscribe", "acknowledged", "loop", "await", "frame"}
    /\ newest + late + (IF asked THEN 1 ELSE 0) \in 1..MaxTokens
    /\ {file, key, reading, reply} \union under \union expired \subseteq 0..newest
    /\ reads \in 0..2 /\ order \in {"none", "sent", "accepted", "dropped"}
    /\ uncertain => trading = "waiting" \/ halted
    /\ trading = "waiting" => uncertain

\* An order the venue accepts was checked under its own session: both of its
\* preflight reads were made with the token that signed it, although each takes
\* the client's session of its own moment and the order is sent without another
\* look at it.
AcceptedUnderOneSession == order = "accepted" => under = {key}

\* No event crosses a session change: when one is delivered, the client's session
\* is the object the subscription was signed with and was never another, expired
\* or absent in between, also if the same token was reused.
NoEventAcrossSessions == clean
=============================================================================
