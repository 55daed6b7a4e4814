----------------------------- MODULE PureCalls -----------------------------
(***************************************************************************)
(* One call of a function that computes without state, on arbitrary        *)
(* arguments: the signed expiration (SignedExpiration), quotes and         *)
(* marketable prices (OrderPrices), and what may leave the program         *)
(* (Permissions).                                                          *)
(***************************************************************************)
EXTENDS SignedExpiration, OrderPrices, Permissions

VARIABLES
    call,     \* the function and its arguments
    outcome,  \* "none", "done", or who refused: "refused" or "transport"
    result    \* what it returned

vars == <<call, outcome, result>>

Calls == PrepareCalls \union DecodeCalls \union QuotesCalls \union MarketableCalls
            \union OperationCalls \union RequestCalls

Init == call \in Calls /\ outcome = "none" /\ result = "none"
-----------------------------------------------------------------------------
Returns(kind, accepts(_), value(_)) ==
    /\ outcome = "none" /\ call.kind = kind
    /\ IF accepts(call) THEN outcome' = "done" /\ result' = value(call)
       ELSE outcome' = "refused" /\ UNCHANGED result
    /\ UNCHANGED call

\* prepare_order: check the clocks, then encode and sign.
Prepares(c) == ClocksFit(c) /\ Encodable(TermsOf(c))
EncodedTerms(c) == Encode(TermsOf(c))
prepare_order == Returns("prepare", Prepares, EncodedTerms)

\* decode_expiration, in the preflight, of whatever word the request carries.
Decodes(c) == Decodable(c.word)
DecodedFields(c) == Fields(c.word)
decode_expiration == Returns("decode", Decodes, DecodedFields)

quotes == Returns("quotes", MayQuote, QuotesOf)

PricesMarketable(c) == Admissible(c, ToTick(c))
marketable_limit_price == Returns("marketable", PricesMarketable, ToTick)

\* An operation of the client: its own permission, then the transport's.
operate ==
    /\ outcome = "none" /\ call.kind = "operation"
    /\ outcome' = IF ~ClientAllows(call) THEN "refused"
                  ELSE IF TransportAllows(call) THEN "done" ELSE "transport"
    /\ UNCHANGED <<call, result>>

\* Any request handed to a live transport.
request ==
    /\ outcome = "none" /\ call.kind = "request"
    /\ outcome' = IF RouteAllows(call.request, Enabled(call)) THEN "done" ELSE "transport"
    /\ UNCHANGED <<call, result>>

Next == prepare_order \/ decode_expiration \/ quotes \/ marketable_limit_price
            \/ operate \/ request

Spec == Init /\ [][Next]_vars
-----------------------------------------------------------------------------
(* Properties. *)

Done(kind) == outcome = "done" /\ call.kind = kind

\* The word prepare_order signs decodes to exactly what the request says: the
\* preflight and the venue never refuse or misread an order of this client.
SignedBitsMatchRequest ==
    Done("prepare") => Decodable(result) /\ Fields(result) = TermsOf(call)

\* No two words decode to the same terms: whatever word arrives, if it decodes
\* then it is the one encode_expiration gives.
WordsAreCanonical == Done("decode") => Encode(result) = call.word

\* Clocks that pass prepare_order's range checks give an expiry that fits its
\* field, so a valid mode is never refused after those checks.
CheckedClocksFit ==
    call.kind = "prepare" /\ outcome = "refused" /\ ClocksFit(call) =>
        call.mode = "MARKET" \/ (call.reduce /\ call.mode \notin {"IOC", "FOK"})

\* docs/protocol.md, "a hard position bound under either side filling": whichever
\* of the quotes fill, one or both, the position stays within the limit.
BoundUnderEitherFill ==
    Done("quotes") =>
        \A filled \in SUBSET {s \in Sides : result[s] > 0} :
            Within(call.position + (IF "BUY" \in filled THEN Quantity ELSE 0)
                                 - (IF "SELL" \in filled THEN Quantity ELSE 0))

\* Rounding goes outward: a quote never crosses or improves the best price of its
\* own side and keeps at least the half spread from the middle.
QuotesStayOutside ==
    Done("quotes") =>
        /\ result["BUY"] > 0 => /\ result["BUY"] <= call.top.bid
                                /\ result["BUY"] * 2 * Scale <= BelowMid(call)
        /\ result["SELL"] > 0 => /\ result["SELL"] >= call.top.ask
                                 /\ result["SELL"] * 2 * Scale >= AboveMid(call)

\* What the venue and the caller accept of a marketable order: inside every band
\* the market advertises, on a tick, and no worse than the caller's worst price.
Accepted(c, p) ==
    /\ p % c.tick = 0
    /\ \A b \in {c.resting, c.execution} \ {NoBand} :
          c.index * b.down <= p * Scale /\ p * Scale <= c.index * b.up
    /\ c.worst # 0 => IF c.side = "BUY" THEN p <= c.worst ELSE p >= c.worst

\* A marketable price is never out of a band, off the ticks or too bad.
PriceIsAcceptable == Done("marketable") => Accepted(call, result)

\* Rounding loses nothing: the price is the most aggressive tick that the band in
\* force and the worst price allow, and it is refused only if there is none.  The
\* prices up to the band's upper end are all that can be admissible.
PriceIsBest ==
    outcome # "none" /\ call.kind = "marketable" =>
        \A p \in {q \in 1..Floor(Upper(call), Scale) : q % call.tick = 0} :
            Accepted(call, p) /\ Admissible(call, p) =>
                outcome = "done" /\ IF call.side = "BUY" THEN p <= result ELSE p >= result

\* Whatever request reaches a live transport, by the client or directly: one that
\* carries or obtains a session leaves only with the private permission, one that
\* may change orders only with the order permission, and the client's own
\* configuration grants them too when the request is one of its operations.
Sent == IF call.kind = "operation" THEN RequestOf[call.operation] ELSE call.request
Grants == IF call.kind = "operation" THEN {call.granted, call.client} ELSE {call.granted}
NothingUnpermittedLeaves ==
    (Done("operation") \/ Done("request")) /\ call.transport # "offline" =>
        \A g \in Grants :
            /\ Sent.key \/ Sent.path \in {"nonce", "signin"} => g.private
            /\ Sent.key /\ Sent.method # "GET" => g.orders /\ call.transport = "testnet"

\* The two tables agree: what the client's permission admits is on its transport's
\* allow-list, so no command fails, with an unknown outcome, before it left.  Only
\* the account stream has no counterpart on the offline fixture.
TransportServesClient ==
    call.kind = "operation" /\ outcome = "transport" =>
        call.transport = "offline" /\ call.operation = "user_events"
=============================================================================
