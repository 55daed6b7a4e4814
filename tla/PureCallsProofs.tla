-------------------------- MODULE PureCallsProofs --------------------------
(* Theorems about PureCalls, for every width of the expiry field, every market *)
(* and every configuration.                                                    *)
EXTENDS PureCalls, TLAPS

\* A call is answered once, with what its function says of its arguments.
Answered(kind, accepts, value) ==
    call.kind = kind =>
        IF accepts THEN outcome = "done" /\ result = value ELSE outcome = "refused"

IInv ==
    /\ call \in Calls
    /\ outcome # "none" =>
          /\ Answered("prepare", Prepares(call), EncodedTerms(call))
          /\ Answered("decode", Decodes(call), DecodedFields(call))
          /\ Answered("quotes", MayQuote(call), QuotesOf(call))
          /\ Answered("marketable", PricesMarketable(call), ToTick(call))
          /\ call.kind = "operation" =>
                outcome = IF ~ClientAllows(call) THEN "refused"
                          ELSE IF TransportAllows(call) THEN "done" ELSE "transport"
          /\ call.kind = "request" =>
                outcome = IF RouteAllows(call.request, Enabled(call)) THEN "done"
                          ELSE "transport"

\* A call is answered by what its function says.
LEMMA Invariance == Spec => []IInv
  <1>1. Init => IInv
    BY DEF Init, IInv
  <1>2. IInv /\ [Next]_vars => IInv'
    <2> SUFFICES ASSUME IInv, [Next]_vars PROVE IInv'
      OBVIOUS
    <2>1. CASE prepare_order
      BY <2>1 DEF prepare_order, Returns, IInv, Answered
    <2>2. CASE decode_expiration
      BY <2>2 DEF decode_expiration, Returns, IInv, Answered
    <2>3. CASE quotes
      BY <2>3 DEF quotes, Returns, IInv, Answered
    <2>4. CASE marketable_limit_price
      BY <2>4 DEF marketable_limit_price, Returns, IInv, Answered
    <2>5. CASE operate
      BY <2>5 DEF operate, IInv, Answered
    <2>6. CASE request
      BY <2>6 DEF request, IInv, Answered
    <2>7. CASE UNCHANGED vars
      BY <2>7 DEF vars, IInv, Answered
    <2> QED
      BY <2>1, <2>2, <2>3, <2>4, <2>5, <2>6, <2>7 DEF Next
  <1> QED
    BY <1>1, <1>2, PTL DEF Spec

\* The kind of a call says which function it is of.
LEMMA KindOfCall ==
    ASSUME call \in Calls
    PROVE  /\ call.kind = "prepare" => call \in PrepareCalls
           /\ call.kind = "decode" => call \in DecodeCalls
           /\ call.kind = "quotes" => call \in QuotesCalls
           /\ call.kind = "marketable" => call \in MarketableCalls
           /\ call.kind = "operation" => call \in OperationCalls
           /\ call.kind = "request" => call \in RequestCalls
  BY DEF Calls, PrepareCalls, DecodeCalls, QuotesCalls, MarketableCalls, OperationCalls,
     RequestCalls
-----------------------------------------------------------------------------
(* What may leave the program. *)

\* Every operation is public, private or a mutation.
LEMMA OperationNames ==
    Operations = Public \union {"nonce", "signin", "identity", "account", "balances",
                                "commission_rate", "positions", "open_orders", "query_order",
                                "user_events"} \union Mutations
  BY DEF Operations, RequestOf, Public, Mutations

SignedReads == {"account", "balances", "commission_rate", "positions", "open_orders",
                "query_order"}

\* The request of each operation.
LEMMA RequestTable ==
    /\ RequestOf["exchange_info"] = Plain("GET", "exchangeInfo")
    /\ RequestOf["depth"] = MarketRead("depth")
    /\ RequestOf["premium_index"] = MarketRead("premiumIndex")
    /\ RequestOf["nonce"] = Plain("GET", "nonce")
    /\ RequestOf["signin"] = [Plain("POST", "signin") EXCEPT !.body = "signin", !.type = "json"]
    /\ RequestOf["identity"] = [Plain("GET", "me") EXCEPT !.key = TRUE]
    /\ \A op \in SignedReads : \E path \in Reads : RequestOf[op] = SignedRead(path)
    /\ RequestOf["submit_order"] = Command("POST", "order")
    /\ RequestOf["cancel_order"] = Command("DELETE", "order")
    /\ RequestOf["cancel_all"] = Command("DELETE", "openOrders")
    /\ RequestOf["user_events"] = [Plain("GET", "other") EXCEPT !.key = TRUE]
  BY DEF RequestOf, Reads, SignedReads

\* The way each request may leave.
LEMMA PublicRequests ==
    \A op \in Public : PublicAllows(RequestOf[op]) /\ ~RequestOf[op].key
                       /\ RequestOf[op].path \in PUBLIC_PATHS
  BY DEF Public, RequestOf, PublicAllows, PUBLIC_PATHS, Plain, MarketRead

\* The two requests of a sign-in pass the sign-in route.
LEMMA SignInRequests ==
    \A op \in {"nonce", "signin"} :
       SignInAllows(RequestOf[op]) /\ ~RequestOf[op].key
       /\ <<RequestOf[op].method, RequestOf[op].path>> \notin Commands
  <1>1. RequestOf["nonce"] = [method |-> "GET", path |-> "nonce", key |-> FALSE,
                              query |-> "none", body |-> "none", type |-> "none"]
    BY RequestTable DEF Plain
  <1>2. RequestOf["signin"] = [method |-> "POST", path |-> "signin", key |-> FALSE,
                               query |-> "none", body |-> "signin", type |-> "json"]
    BY RequestTable DEF Plain
  <1> QED
    BY <1>1, <1>2 DEF SignInAllows, Commands

\* The identity read passes its own.
LEMMA IdentityRequest ==
    LET r == RequestOf["identity"]
    IN  IdentityAllows(r) /\ r.key /\ r.method = "GET" /\ <<r.method, r.path>> \notin Commands
  BY RequestTable DEF Plain, IdentityAllows, Commands

\* Every signed read passes the signed route, and changes nothing.
LEMMA ReadRequests ==
    \A op \in SignedReads :
       SignedAllows(RequestOf[op]) /\ RequestOf[op].method = "GET" /\ RequestOf[op].key
       /\ <<RequestOf[op].method, RequestOf[op].path>> \notin Commands
  <1> SUFFICES ASSUME NEW op \in SignedReads
               PROVE  /\ SignedAllows(RequestOf[op]) /\ RequestOf[op].method = "GET"
                      /\ RequestOf[op].key
                      /\ <<RequestOf[op].method, RequestOf[op].path>> \notin Commands
    OBVIOUS
  <1>1. PICK path \in Reads : RequestOf[op] = SignedRead(path)
    BY RequestTable
  <1>2. RequestOf[op] = [method |-> "GET", path |-> path, key |-> TRUE,
                         query |-> "signed", body |-> "none", type |-> "none"]
    BY <1>1 DEF SignedRead, Plain
  <1> QED
    BY <1>2 DEF SignedAllows, Commands

\* Orders and cancellations pass it too; a sweep does not and need not.
LEMMA CommandRequests ==
    /\ \A op \in {"submit_order", "cancel_order"} : SignedAllows(RequestOf[op])
    /\ \A op \in Mutations : RequestOf[op].key /\ RequestOf[op].method # "GET"
  <1>1. RequestOf["submit_order"] = [method |-> "POST", path |-> "order", key |-> TRUE,
                      query |-> "none", body |-> "signed", type |-> "form"]
    <2>1. RequestOf["submit_order"] = Command("POST", "order")
      BY RequestTable
    <2> QED
      BY <2>1 DEF Command, Plain
  <1>2. RequestOf["cancel_order"] = [method |-> "DELETE", path |-> "order", key |-> TRUE,
                      query |-> "none", body |-> "signed", type |-> "form"]
    <2>1. RequestOf["cancel_order"] = Command("DELETE", "order")
      BY RequestTable
    <2> QED
      BY <2>1 DEF Command, Plain
  <1>3. RequestOf["cancel_all"] = [method |-> "DELETE", path |-> "openOrders", key |-> TRUE,
                      query |-> "none", body |-> "signed", type |-> "form"]
    <2>1. RequestOf["cancel_all"] = Command("DELETE", "openOrders")
      BY RequestTable
    <2> QED
      BY <2>1 DEF Command, Plain
  <1>4. SignedAllows(RequestOf["submit_order"])
    BY <1>1 DEF SignedAllows, Commands
  <1>5. SignedAllows(RequestOf["cancel_order"])
    BY <1>2 DEF SignedAllows, Commands
  <1> QED
    BY <1>1, <1>2, <1>3, <1>4, <1>5 DEF Mutations

\* What the client lets out, by the kind of its operation.
LEMMA AllowedOperation ==
    ASSUME NEW c \in OperationCalls, ClientAllows(c), c.transport # "offline"
    PROVE  \/ c.operation \in Public
           \/ /\ c.transport = "testnet" /\ c.client.private /\ c.granted.private
              /\ c.operation \in Mutations => c.client.orders /\ c.granted.orders
  BY DEF OperationCalls, ClientAllows, Enabled, Transports

\* What the client allows, its transport refuses only for the fixture's missing stream.
LEMMA ClientIsServed ==
    ASSUME NEW c \in OperationCalls, ClientAllows(c), ~TransportAllows(c)
    PROVE  c.transport = "offline" /\ c.operation = "user_events"
  <1>1. CASE c.transport = "offline"
    BY <1>1 DEF TransportAllows
  <1>2. CASE c.transport # "offline" /\ c.operation \in Public
    <2>1. RouteAllows(RequestOf[c.operation], Enabled(c))
      BY <1>2, PublicRequests DEF RouteAllows
    <2>2. c.operation \notin {"cancel_all", "user_events"}
      BY <1>2 DEF Public
    <2> QED
      BY <1>2, <2>1, <2>2 DEF TransportAllows
  <1>3. CASE c.transport # "offline" /\ c.operation \notin Public
    <2>1. /\ Enabled(c) = c.granted /\ c.granted.private
          /\ c.operation \in Mutations => c.granted.orders
      BY <1>3, AllowedOperation DEF Enabled
    <2>2. CASE c.operation \in {"cancel_all", "user_events"}
      BY <1>3, <2>1, <2>2 DEF TransportAllows, Mutations
    <2>3. CASE c.operation \notin {"cancel_all", "user_events"}
      <3>1. RouteAllows(RequestOf[c.operation], c.granted)
        <4>1. CASE c.operation \in {"nonce", "signin"}
          BY <2>1, <4>1, SignInRequests DEF RouteAllows
        <4>2. CASE c.operation = "identity"
          BY <2>1, <4>2, IdentityRequest DEF RouteAllows
        <4>3. CASE c.operation \in SignedReads
          BY <2>1, <4>3, ReadRequests DEF RouteAllows
        <4>4. CASE c.operation \in {"submit_order", "cancel_order"}
          BY <2>1, <4>4, CommandRequests DEF RouteAllows, Mutations
        <4> QED
          BY <1>3, <2>3, <4>1, <4>2, <4>3, <4>4, OperationNames
          DEF OperationCalls, Mutations, SignedReads
      <3> QED
        BY <1>3, <2>1, <2>3, <3>1 DEF TransportAllows
    <2> QED
      BY <2>2, <2>3
  <1> QED
    BY <1>1, <1>2, <1>3

\* What both let out was granted by both configurations.
LEMMA OperationsAreGranted ==
    ASSUME NEW c \in OperationCalls, ClientAllows(c), c.transport # "offline",
           NEW g \in {c.granted, c.client}
    PROVE  LET sent == RequestOf[c.operation]
           IN  /\ sent.key \/ sent.path \in {"nonce", "signin"} => g.private
               /\ sent.key /\ sent.method # "GET" => g.orders /\ c.transport = "testnet"
  <1>1. CASE c.operation \in Public
    BY <1>1, PublicRequests DEF PUBLIC_PATHS
  <1>2. CASE c.operation \notin Public
    <2>1. /\ c.transport = "testnet" /\ g.private
          /\ c.operation \in Mutations => g.orders
      BY <1>2, AllowedOperation
    <2>2. c.operation \notin Mutations =>
             ~RequestOf[c.operation].key \/ RequestOf[c.operation].method = "GET"
      <3>1. RequestOf["user_events"].method = "GET"
        BY RequestTable DEF Plain
      <3> QED
        BY <1>2, <3>1, OperationNames, SignInRequests, IdentityRequest, ReadRequests
        DEF OperationCalls, SignedReads
    <2> QED
      BY <2>1, <2>2
  <1> QED
    BY <1>1, <1>2

\* A request on its own was granted by the configuration of the transport.
LEMMA RequestsAreGranted ==
    ASSUME NEW c \in RequestCalls, RouteAllows(c.request, Enabled(c))
    PROVE  /\ c.request.key \/ c.request.path \in {"nonce", "signin"} => c.granted.private
           /\ c.request.key /\ c.request.method # "GET" =>
                 c.granted.orders /\ c.transport = "testnet"
  BY DEF RequestCalls, Requests, Enabled, RouteAllows, PublicAllows, SignInAllows,
     IdentityAllows, SignedAllows, Commands, Reads, PUBLIC_PATHS, Transports, Configs

\* No request that carries or obtains a session, and none that may change orders, gets
\* past a live transport without the permission, whoever hands it over.
THEOREM OnlyPermittedLeaves == Spec => []NothingUnpermittedLeaves
  <1>1. IInv => NothingUnpermittedLeaves
    <2> SUFFICES ASSUME IInv, Done("operation") \/ Done("request"),
                        call.transport # "offline", NEW g \in Grants
                 PROVE  /\ Sent.key \/ Sent.path \in {"nonce", "signin"} => g.private
                        /\ Sent.key /\ Sent.method # "GET" =>
                              g.orders /\ call.transport = "testnet"
      BY DEF NothingUnpermittedLeaves
    <2>1. CASE Done("operation")
      <3>1. call \in OperationCalls /\ ClientAllows(call)
        BY <2>1, KindOfCall DEF IInv, Done
      <3> QED
        BY <2>1, <3>1, OperationsAreGranted DEF Done, Sent, Grants
    <2>2. CASE Done("request")
      <3>1. call \in RequestCalls /\ RouteAllows(call.request, Enabled(call))
        BY <2>2, KindOfCall DEF IInv, Done
      <3> QED
        BY <2>2, <3>1, RequestsAreGranted DEF Done, Sent, Grants
    <2> QED
      BY <2>1, <2>2
  <1> QED
    BY <1>1, Invariance, PTL

\* The permission checks of the client and the allow-lists of the transports agree: no
\* command fails with an unknown outcome because a transport would not carry it.
THEOREM TransportServes == Spec => []TransportServesClient
  <1>1. IInv => TransportServesClient
    <2> SUFFICES ASSUME IInv, call.kind = "operation", outcome = "transport"
                 PROVE  call.transport = "offline" /\ call.operation = "user_events"
      BY DEF TransportServesClient
    <2>1. call \in OperationCalls /\ ClientAllows(call) /\ ~TransportAllows(call)
      BY KindOfCall DEF IInv
    <2> QED
      BY <2>1, ClientIsServed
  <1> QED
    BY <1>1, Invariance, PTL
-----------------------------------------------------------------------------
(* Division, the facts the rest needs. *)

\* A quotient times its divisor is at most the number,
LEMMA QuotientBelow == \A n \in Int, d \in Nat \ {0} : (n \div d) * d <= n
  OBVIOUS

\* and misses the number by less than the divisor.
LEMMA QuotientAbove == \A n \in Int, d \in Nat \ {0} : n < (n \div d) * d + d
  OBVIOUS

\* A quotient is an integer.
LEMMA QuotientInt == \A n \in Int, d \in Nat \ {0} : n \div d \in Int
  OBVIOUS

\* Whatever lies within one divisor below the number is the quotient.
LEMMA QuotientIs ==
    \A n, q \in Int, d \in Nat \ {0} : q * d <= n /\ n < q * d + d => n \div d = q
  OBVIOUS

\* The remainder is what the quotient misses.
LEMMA RemainderIs == \A n \in Int, d \in Nat \ {0} : n % d = n - (n \div d) * d
  OBVIOUS

\* A multiple leaves no remainder.
LEMMA MultipleRemainder == \A k \in Int, d \in Nat \ {0} : (k * d) % d = 0
  OBVIOUS

\* Products of integers are integers,
LEMMA ProductInt == \A a, b \in Int : a * b \in Int
  OBVIOUS

\* of positive ones positive;
LEMMA ProductPositive == \A a, b \in Nat \ {0} : a * b \in Nat \ {0}
  OBVIOUS

\* they associate,
LEMMA ProductAssociates == \A a, b, c \in Int : (a * b) * c = a * (b * c)
  OBVIOUS

\* grow with a factor when the other is positive,
LEMMA ProductMonotone == \A a, b \in Int, d \in Nat \ {0} : a <= b => a * d <= b * d
  OBVIOUS

\* order their factors as they are ordered,
LEMMA ProductCancels == \A a, b \in Int, d \in Nat \ {0} : a * d <= b * d => a <= b
  OBVIOUS

\* and change sign with a factor.
LEMMA ProductNegates == \A a, b \in Int : (-a) * b = -(a * b)
  OBVIOUS
-----------------------------------------------------------------------------
(* The signed expiration. *)

\* Clocks that pass prepare_order's range checks give an expiry below 2^58: after them a
\* valid mode is refused only when it is combined with reduce-only.
THEOREM ClocksFitTheField == Spec => []CheckedClocksFit
  <1>1. IInv => CheckedClocksFit
    <2> SUFFICES ASSUME IInv, call.kind = "prepare", outcome = "refused", ClocksFit(call)
                 PROVE  call.mode = "MARKET" \/ (call.reduce /\ call.mode \notin {"IOC", "FOK"})
      BY DEF CheckedClocksFit
    <2>1. call \in PrepareCalls /\ ~Encodable(TermsOf(call))
      BY KindOfCall DEF IInv, Answered, Prepares
    <2>2. call.endpoint \in 1..(Limit - Lease - 1) /\ call.ingress \in 1..(Limit - Lease - 1)
      BY DEF ClocksFit
    <2>3. ExpiresAt(call) \in 1..(Limit - 1)
      BY <2>2, ExpirationBounds DEF ExpiresAt
    <2> QED
      BY <2>1, <2>3 DEF PrepareCalls, RequestModes, TermsOf, Encodable
  <1> QED
    BY <1>1, Invariance, PTL

Terms == [mode : DOMAIN ORDER_MODES, reduce : BOOLEAN, expires : 1..(Limit - 1)]

\* The modes are numbered from 0 to 3 without repetition.
LEMMA ModeNumbers ==
    /\ \A m \in DOMAIN ORDER_MODES : ORDER_MODES[m] \in 0..3
    /\ \A m, n \in DOMAIN ORDER_MODES : ORDER_MODES[m] = ORDER_MODES[n] => m = n
    /\ \A k \in 0..3 : \E m \in DOMAIN ORDER_MODES : ORDER_MODES[m] = k
  BY DEF ORDER_MODES

\* What the word of some terms holds in each of its fields.
LEMMA EncodedFields ==
    ASSUME NEW t \in Terms
    PROVE  (Encode(t) \div ReserveUnit) % 8 = 0 /\ Fields(Encode(t)) = t
  <1> DEFINE m == ORDER_MODES[t.mode]
             r == IF t.reduce THEN 1 ELSE 0
             e == t.expires
             w == m * ModeUnit + r * ReduceUnit + e
  <1>1. /\ m \in 0..3 /\ r \in 0..1 /\ e \in 1..(Limit - 1)
        /\ Limit \in Nat \ {0}
    BY ModeNumbers, ExpirationBounds DEF Terms
  <1>2. Encode(t) = w
    BY <1>1 DEF Encode, ModeUnit, ReduceUnit
  <1> HIDE DEF m, r, e
  <1>3. /\ w = (16 * m + 8 * r) * Limit + e
        /\ w = (2 * m + r) * ReduceUnit + e
        /\ w = m * ModeUnit + (8 * r * Limit + e)
        /\ 8 * r * Limit + e \in 0..(16 * Limit - 1)
        /\ w \in Int
    BY <1>1 DEF ModeUnit, ReduceUnit
  <1> HIDE DEF w
  <1>4. w \div Limit = 16 * m + 8 * r
    BY <1>1, <1>3, QuotientIs
  <1>5. w \div ReduceUnit = 2 * m + r
    BY <1>1, <1>3, QuotientIs DEF ReduceUnit
  <1>6. w \div ModeUnit = m
    BY <1>1, <1>3, QuotientIs DEF ModeUnit
  <1>7. w % Limit = e
    <2>1. w % Limit = w - (w \div Limit) * Limit
      BY <1>1, <1>3, RemainderIs
    <2>2. w - (16 * m + 8 * r) * Limit = e
      BY <1>1, <1>3
    <2> QED
      BY <1>4, <2>1, <2>2
  <1>8. (w \div ReserveUnit) % 8 = 0
    BY <1>1, <1>4 DEF ReserveUnit
  <1>9. (w \div ReduceUnit) % 2 = 1 <=> t.reduce
    <2>1. (2 * m + r) % 2 = r
      BY <1>1
    <2> QED
      BY <2>1, <1>5 DEF r
  <1>10. (CHOOSE x \in DOMAIN ORDER_MODES : ORDER_MODES[x] = w \div ModeUnit) = t.mode
    BY <1>6, ModeNumbers DEF Terms, m
  <1>11. Fields(w) = [mode |-> t.mode, reduce |-> t.reduce, expires |-> t.expires]
    <2>1. ((w \div ReduceUnit) % 2 = 1) = t.reduce
      BY <1>9 DEF Terms
    <2> QED
      BY <2>1, <1>7, <1>10 DEF Fields, e
  <1>12. t = [mode |-> t.mode, reduce |-> t.reduce, expires |-> t.expires]
    BY DEF Terms
  <1> QED
    BY <1>2, <1>8, <1>11, <1>12

\* The word prepare_order signs decodes, in the preflight and at the venue, to exactly
\* the mode, reduce-only flag and expiry of the request, for every width of the expiry.
THEOREM SignedBitsSayTheRequest == Spec => []SignedBitsMatchRequest
  <1>1. IInv => SignedBitsMatchRequest
    <2> SUFFICES ASSUME IInv, Done("prepare")
                 PROVE  Decodable(result) /\ Fields(result) = TermsOf(call)
      BY DEF SignedBitsMatchRequest
    <2>1. call \in PrepareCalls /\ Encodable(TermsOf(call)) /\ result = Encode(TermsOf(call))
      BY KindOfCall DEF IInv, Answered, Done, Prepares, EncodedTerms
    <2>2. TermsOf(call) \in Terms
      BY <2>1 DEF Terms, TermsOf, PrepareCalls, Encodable
    <2> QED
      BY <2>1, <2>2, EncodedFields DEF Decodable
  <1> QED
    BY <1>1, Invariance, PTL

\* A word that decodes is the word of its fields.
LEMMA DecodedWord ==
    ASSUME NEW w \in Words, Decodable(w)
    PROVE  Encode(Fields(w)) = w
  <1> DEFINE a == w \div Limit
  <1>1. Limit \in Nat \ {0} /\ w \in Int /\ 0 <= w /\ w < 64 * Limit /\ a \in Int
    BY ExpirationBounds, QuotientInt DEF Words
  <1>2. a * Limit <= w /\ w < a * Limit + Limit
    BY <1>1, QuotientBelow, QuotientAbove
  <1>3. w % Limit = w - a * Limit
    BY <1>1, RemainderIs
  <1>4. a % 8 = 0
    BY DEF Decodable, ReserveUnit
  <1> HIDE DEF a
  <1>5. a \in 0..63
    <2>1. (-1) * Limit < a * Limit /\ a * Limit < 64 * Limit
      BY <1>1, <1>2
    <2>2. ~(a <= -1) /\ ~(64 <= a)
      BY <1>1, <2>1, ProductMonotone
    <2> QED
      BY <1>1, <2>2
  <1>6. a \in {0, 8, 16, 24, 32, 40, 48, 56}
    BY <1>4, <1>5
  <1>7. w \div ReduceUnit = a \div 8 /\ w \div ModeUnit = a \div 16
    <2>1. (a \div 8) * ReduceUnit <= w /\ w < (a \div 8) * ReduceUnit + ReduceUnit
      BY <1>1, <1>2, <1>6 DEF ReduceUnit
    <2>2. (a \div 16) * ModeUnit <= w /\ w < (a \div 16) * ModeUnit + ModeUnit
      BY <1>1, <1>2, <1>6 DEF ModeUnit
    <2> QED
      BY <1>1, <1>5, <2>1, <2>2, QuotientIs DEF ReduceUnit, ModeUnit
  <1>8. ORDER_MODES[Fields(w).mode] = a \div 16
    <2>1. a \div 16 \in 0..3
      BY <1>6
    <2>2. PICK m \in DOMAIN ORDER_MODES : ORDER_MODES[m] = a \div 16
      BY <2>1, ModeNumbers
    <2> QED
      BY <1>7, <2>2 DEF Fields
  <1>9. Fields(w).reduce = ((a \div 8) % 2 = 1) /\ Fields(w).expires = w - a * Limit
    BY <1>3, <1>7 DEF Fields
  <1>10. Encode(Fields(w)) = (a \div 16) * ModeUnit
                              + (IF (a \div 8) % 2 = 1 THEN ReduceUnit ELSE 0) + (w - a * Limit)
    BY <1>8, <1>9 DEF Encode
  <1> QED
    BY <1>1, <1>6, <1>10 DEF ModeUnit, ReduceUnit

\* decode_expiration accepts only what encode_expiration gives: no two words decode to
\* the same terms.
THEOREM WordsCanonical == Spec => []WordsAreCanonical
  <1>1. IInv => WordsAreCanonical
    BY KindOfCall, DecodedWord
    DEF IInv, Answered, WordsAreCanonical, Done, Decodes, DecodedFields, DecodeCalls
  <1> QED
    BY <1>1, Invariance, PTL
-----------------------------------------------------------------------------
(* Quotes. *)

\* What a call of quotes is made of, and its prices.
LEMMA QuotesNumbers ==
    ASSUME NEW c \in QuotesCalls
    PROVE  /\ c.tick \in Nat \ {0} /\ c.position \in Int
           /\ c.top.bid \in Nat /\ c.top.ask \in Nat
           /\ Scale \in Nat \ {0} /\ TickUnit(c) \in Nat \ {0}
           /\ BelowMid(c) \in Int /\ AboveMid(c) \in Int
  <1>1. /\ c.tick \in Nat \ {0} /\ c.position \in Int
        /\ c.top.bid \in Nat /\ c.top.ask \in Nat
        /\ Scale \in Nat \ {0} /\ HalfSpread \in Int
    <2>1. c.tick \in Ticks /\ c.position \in Positions
      BY DEF QuotesCalls
    <2>2. c.top.bid \in 1..MaxPrice /\ c.top.ask \in 1..MaxPrice
      BY DEF QuotesCalls, Tops
    <2>3. /\ Ticks \subseteq Nat \ {0} /\ Positions \subseteq Int /\ MaxPrice \in Nat
          /\ Scale \in Nat \ {0} /\ HalfSpread \in 1..Scale
      BY PriceBounds
    <2>4. c.tick \in Nat \ {0} /\ c.position \in Int
      BY <2>1, <2>3
    <2>5. c.top.bid \in Nat /\ c.top.ask \in Nat /\ HalfSpread \in Int
      BY <2>2, <2>3
    <2> QED
      BY <2>3, <2>4, <2>5
  <1>2. 2 * Scale \in Nat \ {0}
    BY <1>1
  <1>3. TickUnit(c) \in Nat \ {0}
    BY <1>1, <1>2, ProductPositive DEF TickUnit
  <1>4. BelowMid(c) \in Int /\ AboveMid(c) \in Int
    BY <1>1, ProductInt DEF BelowMid, AboveMid
  <1> QED
    BY <1>1, <1>3, <1>4

\* Whichever of the quotes of MakerPolicy fill, one or both, the position stays within
\* max_position.
THEOREM BoundHoldsUnderFills == Spec => []BoundUnderEitherFill
  <1>1. IInv => BoundUnderEitherFill
    <2> SUFFICES ASSUME IInv, Done("quotes"),
                        NEW filled \in SUBSET {s \in Sides : result[s] > 0}
                 PROVE  Within(call.position + (IF "BUY" \in filled THEN Quantity ELSE 0)
                                             - (IF "SELL" \in filled THEN Quantity ELSE 0))
      BY DEF BoundUnderEitherFill
    <2>1. /\ call \in QuotesCalls /\ Within(call.position)
          /\ result = [s \in Sides |-> IF HasRoom(call, s) THEN QuotePrice(call, s) ELSE 0]
      BY KindOfCall DEF IInv, Answered, Done, MayQuote, QuotesOf
    <2>2. \A s \in filled : s \in Sides /\ HasRoom(call, s)
      BY <2>1
    <2>3. call.position \in Int /\ Quantity \in Nat /\ MaxPosition \in Nat
      BY <2>1, QuotesNumbers, PriceBounds
    <2>4. "BUY" \in filled => call.position + Quantity \in -MaxPosition..MaxPosition
      BY <2>2 DEF HasRoom, AfterFill, Within
    <2>5. "SELL" \in filled => call.position + (-Quantity) \in -MaxPosition..MaxPosition
      BY <2>2 DEF HasRoom, AfterFill, Within
    <2> QED
      BY <2>1, <2>3, <2>4, <2>5 DEF Within
  <1> QED
    BY <1>1, Invariance, PTL

\* The floor, as a number of ticks of u each, is at most n units.
LEMMA FloorBelow ==
    ASSUME NEW n \in Int, NEW t \in Nat \ {0}, NEW u \in Nat \ {0}
    PROVE  /\ Floor(n, u * t) \in Int
           /\ (Floor(n, u * t) * t) * u <= n
  <1>1. u * t \in Nat \ {0}
    BY ProductPositive
  <1> DEFINE k == n \div (u * t)
  <1>2. k \in Int /\ k * (u * t) <= n
    BY <1>1, QuotientInt, QuotientBelow
  <1> HIDE DEF k
  <1>3. (k * t) * u = k * (u * t)
    BY <1>2
  <1> QED
    BY <1>2, <1>3 DEF Floor, k

\* The ceiling is at least n units.
LEMMA CeilingAbove ==
    ASSUME NEW n \in Int, NEW t \in Nat \ {0}, NEW u \in Nat \ {0}
    PROVE  /\ Ceiling(n, u * t) \in Int
           /\ (Ceiling(n, u * t) * t) * u >= n
  <1>1. u * t \in Nat \ {0}
    BY ProductPositive
  <1> DEFINE k == (-n) \div (u * t)
  <1>2. k \in Int /\ k * (u * t) <= -n
    BY <1>1, QuotientInt, QuotientBelow
  <1> HIDE DEF k
  <1>3. ((-k) * t) * u = -(k * (u * t))
    BY <1>2
  <1> QED
    BY <1>2, <1>3 DEF Ceiling, k

\* Rounding goes outward: no quote improves its own side of the book or comes nearer to
\* the middle than the half spread, for every tick.
THEOREM QuotesOutside == Spec => []QuotesStayOutside
  <1>1. IInv => QuotesStayOutside
    <2> SUFFICES ASSUME IInv, Done("quotes") PROVE QuotesStayOutside
      BY DEF QuotesStayOutside
    <2>1. /\ call \in QuotesCalls
          /\ result = [s \in Sides |-> IF HasRoom(call, s) THEN QuotePrice(call, s) ELSE 0]
      BY KindOfCall DEF IInv, Answered, Done, QuotesOf
    <2> DEFINE u == 2 * Scale
               down == Floor(BelowMid(call), u * call.tick) * call.tick
               up == Ceiling(AboveMid(call), u * call.tick) * call.tick
    <2>2. /\ call.tick \in Nat \ {0} /\ u \in Nat \ {0}
          /\ call.top.bid \in Nat /\ call.top.ask \in Nat
          /\ BelowMid(call) \in Int /\ AboveMid(call) \in Int
      BY <2>1, QuotesNumbers
    <2>3. /\ QuotePrice(call, "BUY") = Least(call.top.bid, down)
          /\ QuotePrice(call, "SELL") = Greatest(call.top.ask, up)
      BY DEF QuotePrice, TickUnit
    <2> HIDE DEF u
    <2>4. down \in Int /\ down * u <= BelowMid(call)
      <3>1. /\ Floor(BelowMid(call), u * call.tick) \in Int
            /\ (Floor(BelowMid(call), u * call.tick) * call.tick) * u <= BelowMid(call)
        BY <2>2, FloorBelow
      <3> QED
        BY <2>2, <3>1, ProductInt
    <2>5. up \in Int /\ up * u >= AboveMid(call)
      <3>1. /\ Ceiling(AboveMid(call), u * call.tick) \in Int
            /\ (Ceiling(AboveMid(call), u * call.tick) * call.tick) * u >= AboveMid(call)
        BY <2>2, CeilingAbove
      <3> QED
        BY <2>2, <3>1, ProductInt
    <2> HIDE DEF down, up
    <2>6. \A p \in Int : p <= down => p * u <= BelowMid(call)
      <3> SUFFICES ASSUME NEW p \in Int, p <= down PROVE p * u <= BelowMid(call)
        OBVIOUS
      <3>1. p * u <= down * u
        BY <2>2, <2>4, ProductMonotone
      <3> QED
        BY <2>2, <2>4, <3>1, ProductInt
    <2>7. \A p \in Int : p >= up => p * u >= AboveMid(call)
      <3> SUFFICES ASSUME NEW p \in Int, p >= up PROVE p * u >= AboveMid(call)
        OBVIOUS
      <3>1. up * u <= p * u
        BY <2>2, <2>5, ProductMonotone
      <3> QED
        BY <2>2, <2>5, <3>1, ProductInt
    <2>8. \A p \in Int : p * 2 * Scale = p * u
      BY <2>2, PriceBounds DEF u
    <2>9. result["BUY"] > 0 => /\ result["BUY"] <= call.top.bid
                               /\ result["BUY"] * 2 * Scale <= BelowMid(call)
      <3> SUFFICES ASSUME result["BUY"] > 0
                   PROVE  /\ result["BUY"] <= call.top.bid
                          /\ result["BUY"] * 2 * Scale <= BelowMid(call)
        OBVIOUS
      <3>1. result["BUY"] = Least(call.top.bid, down)
        BY <2>1, <2>3 DEF Sides
      <3>2. /\ result["BUY"] \in Int
            /\ result["BUY"] <= call.top.bid /\ result["BUY"] <= down
        BY <2>2, <2>4, <3>1 DEF Least
      <3> QED
        BY <2>6, <2>8, <3>2
    <2>10. result["SELL"] > 0 => /\ result["SELL"] >= call.top.ask
                                 /\ result["SELL"] * 2 * Scale >= AboveMid(call)
      <3> SUFFICES ASSUME result["SELL"] > 0
                   PROVE  /\ result["SELL"] >= call.top.ask
                          /\ result["SELL"] * 2 * Scale >= AboveMid(call)
        OBVIOUS
      <3>1. result["SELL"] = Greatest(call.top.ask, up)
        BY <2>1, <2>3 DEF Sides
      <3>2. /\ result["SELL"] \in Int
            /\ result["SELL"] >= call.top.ask /\ result["SELL"] >= up
        BY <2>2, <2>5, <3>1 DEF Greatest
      <3> QED
        BY <2>7, <2>8, <3>2
    <2> QED
      BY <2>9, <2>10 DEF QuotesStayOutside
  <1> QED
    BY <1>1, Invariance, PTL
-----------------------------------------------------------------------------
(* Marketable prices. *)

\* What a call of marketable_limit_price is made of.
LEMMA MarketableNumbers ==
    ASSUME NEW c \in MarketableCalls
    PROVE  /\ c.tick \in Nat \ {0} /\ c.index \in Nat \ {0} /\ c.worst \in Nat
           /\ Scale \in Nat \ {0} /\ c.side \in Sides
           /\ c.resting \in Bands \union {NoBand} /\ c.execution \in Bands \union {NoBand}
           /\ c.resting = NoBand => c.execution = NoBand
           /\ c.bps \in 1..(Scale - 1)
  <1>1. /\ c.tick \in Ticks /\ c.index \in Indexes /\ c.worst \in WorstPrices \union {0}
        /\ c.side \in Sides /\ c.bps \in BandBps
        /\ c.resting \in Bands \union {NoBand} /\ c.execution \in Bands \union {NoBand}
        /\ c.resting = NoBand => c.execution = NoBand
    BY DEF MarketableCalls
  <1>2. /\ Ticks \subseteq Nat \ {0} /\ Indexes \subseteq Nat \ {0}
        /\ WorstPrices \subseteq Nat \ {0} /\ BandBps \subseteq 1..(Scale - 1)
        /\ Scale \in Nat \ {0}
    BY PriceBounds
  <1>3. c.tick \in Nat \ {0} /\ c.index \in Nat \ {0} /\ c.bps \in 1..(Scale - 1)
    BY <1>1, <1>2
  <1>4. c.worst \in Nat
    <2>1. c.worst \in WorstPrices => c.worst \in Nat
      BY <1>2
    <2> QED
      BY <1>1, <2>1
  <1> QED
    BY <1>1, <1>2, <1>3, <1>4

\* The band in force is within every band the market advertises.
LEMMA BandInForce ==
    ASSUME NEW c \in MarketableCalls
    PROVE  /\ fair_price_band(c).down \in Nat \ {0} /\ fair_price_band(c).up \in Nat
           /\ \A b \in {c.resting, c.execution} \ {NoBand} :
                 /\ b.down \in Nat /\ b.up \in Nat
                 /\ b.down <= fair_price_band(c).down /\ fair_price_band(c).up <= b.up
  <1>1. \A b \in Bands : b.down \in Nat \ {0} /\ b.up \in Nat
    BY PriceBounds
  <1> DEFINE selected == IF c.execution # NoBand THEN c.execution ELSE Configured(c)
  <1>2. selected.down \in Nat \ {0} /\ selected.up \in Nat
    <2>1. CASE c.execution # NoBand
      BY <1>1, <2>1, MarketableNumbers
    <2>2. CASE c.execution = NoBand
      BY <2>2, MarketableNumbers DEF Configured
    <2> QED
      BY <2>1, <2>2
  <1>3. c.execution # NoBand => selected = c.execution
    OBVIOUS
  <1>4. fair_price_band(c) = IF c.resting = NoBand THEN selected
                             ELSE [down |-> Greatest(c.resting.down, selected.down),
                                   up |-> Least(c.resting.up, selected.up)]
    BY DEF fair_price_band
  <1> HIDE DEF selected
  <1>5. CASE c.resting = NoBand
    BY <1>2, <1>4, <1>5, MarketableNumbers
  <1>6. CASE c.resting # NoBand
    <2>1. c.resting.down \in Nat \ {0} /\ c.resting.up \in Nat
      BY <1>1, <1>6, MarketableNumbers
    <2>2. /\ fair_price_band(c).down = Greatest(c.resting.down, selected.down)
          /\ fair_price_band(c).up = Least(c.resting.up, selected.up)
      BY <1>4, <1>6
    <2>3. /\ fair_price_band(c).down \in Nat \ {0} /\ fair_price_band(c).up \in Nat
          /\ c.resting.down <= fair_price_band(c).down /\ fair_price_band(c).up <= c.resting.up
          /\ selected.down <= fair_price_band(c).down /\ fair_price_band(c).up <= selected.up
      BY <1>2, <2>1, <2>2 DEF Greatest, Least
    <2> QED
      BY <1>2, <1>3, <2>1, <2>3
  <1> QED
    BY <1>5, <1>6

\* Both ends of the band in force, and the bound: the worse of the band's end and the
\* worst price, reached by nothing that respects both.
LEMMA MarketableBounds ==
    ASSUME NEW c \in MarketableCalls
    PROVE  /\ Lower(c) \in Nat \ {0} /\ Upper(c) \in Nat /\ Bound(c) \in Int
           /\ \A b \in {c.resting, c.execution} \ {NoBand} :
                 c.index * b.down <= Lower(c) /\ Upper(c) <= c.index * b.up
           /\ c.side = "BUY" => /\ Bound(c) <= Upper(c)
                                /\ c.worst # 0 => Bound(c) <= c.worst * Scale
                                /\ \A x \in Int :
                                      x <= Upper(c) /\ (c.worst # 0 => x <= c.worst * Scale)
                                         => x <= Bound(c)
           /\ c.side = "SELL" => /\ Bound(c) >= Lower(c)
                                 /\ c.worst # 0 => Bound(c) >= c.worst * Scale
                                 /\ \A x \in Int :
                                       x >= Lower(c) /\ (c.worst # 0 => x >= c.worst * Scale)
                                          => x >= Bound(c)
  <1>1. c.index \in Nat \ {0} /\ c.worst * Scale \in Int
    BY MarketableNumbers, ProductInt
  <1>2. fair_price_band(c).down \in Nat \ {0} /\ fair_price_band(c).up \in Nat
    BY BandInForce
  <1>3. Lower(c) \in Nat \ {0}
    BY <1>1, <1>2, ProductPositive DEF Lower
  <1>4. Upper(c) \in Nat
    BY <1>1, <1>2 DEF Upper
  <1>5. \A b \in {c.resting, c.execution} \ {NoBand} :
           c.index * b.down <= Lower(c) /\ Upper(c) <= c.index * b.up
    <2> SUFFICES ASSUME NEW b \in {c.resting, c.execution} \ {NoBand}
                 PROVE  c.index * b.down <= Lower(c) /\ Upper(c) <= c.index * b.up
      OBVIOUS
    <2>1. /\ b.down \in Nat /\ b.up \in Nat
          /\ b.down <= fair_price_band(c).down /\ fair_price_band(c).up <= b.up
      BY BandInForce
    <2>2. b.down * c.index <= fair_price_band(c).down * c.index
      BY <1>1, <1>2, <2>1, ProductMonotone
    <2>3. fair_price_band(c).up * c.index <= b.up * c.index
      BY <1>1, <1>2, <2>1, ProductMonotone
    <2> QED
      BY <1>1, <1>2, <2>1, <2>2, <2>3 DEF Lower, Upper
  <1>6. c.side = "BUY" =>
           Bound(c) = IF c.worst = 0 THEN Upper(c) ELSE Least(c.worst * Scale, Upper(c))
    BY DEF Bound
  <1>7. c.side = "SELL" =>
           Bound(c) = IF c.worst = 0 THEN Lower(c) ELSE Greatest(c.worst * Scale, Lower(c))
    BY DEF Bound
  <1>8. c.side = "BUY" \/ c.side = "SELL"
    BY MarketableNumbers DEF Sides
  <1> QED
    BY <1>1, <1>3, <1>4, <1>5, <1>6, <1>7, <1>8 DEF Least, Greatest

\* The price is on a tick, as near the bound as a tick can be.
LEMMA NearestTick ==
    ASSUME NEW c \in MarketableCalls
    PROVE  /\ ToTick(c) \in Int /\ ToTick(c) % c.tick = 0
           /\ c.side = "BUY" => /\ ToTick(c) * Scale <= Bound(c)
                                /\ \A j \in Int : (j * c.tick) * Scale <= Bound(c)
                                                   => j * c.tick <= ToTick(c)
           /\ c.side = "SELL" => /\ ToTick(c) * Scale >= Bound(c)
                                 /\ \A j \in Int : (j * c.tick) * Scale >= Bound(c)
                                                    => j * c.tick >= ToTick(c)
  <1> DEFINE b == Bound(c)
             t == c.tick
             u == t * Scale
             k == b \div u
             l == (-b) \div u
  <1>1. b \in Int /\ t \in Nat \ {0} /\ Scale \in Nat \ {0} /\ c.side \in Sides
    BY MarketableNumbers, MarketableBounds
  <1> HIDE DEF b, t
  <1>2. u \in Nat \ {0}
    BY <1>1, ProductPositive
  <1> HIDE DEF u
  <1>3. k \in Int /\ k * u <= b /\ b < k * u + u
    BY <1>1, <1>2, QuotientInt, QuotientBelow, QuotientAbove
  <1>4. l \in Int /\ l * u <= -b /\ -b < l * u + u
    BY <1>1, <1>2, QuotientInt, QuotientBelow, QuotientAbove
  <1> HIDE DEF k, l
  <1>5. \A j \in Int : (j * t) * Scale = j * u
    BY <1>1, ProductAssociates DEF u
  <1>6. \A j \in Int : j * u <= b => j * t <= k * t
    <2> SUFFICES ASSUME NEW j \in Int, j * u <= b PROVE j * t <= k * t
      OBVIOUS
    <2>1. (k + 1) * u = k * u + u /\ j * u \in Int /\ k * u \in Int
      BY <1>2, <1>3, ProductInt
    <2>2. j <= k
      <3>1. ~((k + 1) * u <= j * u)
        BY <1>1, <1>2, <1>3, <2>1
      <3>2. ~(k + 1 <= j)
        BY <1>2, <1>3, <3>1, ProductMonotone
      <3> QED
        BY <1>3, <3>2
    <2> QED
      BY <1>1, <1>3, <2>2, ProductMonotone
  <1>7. \A j \in Int : j * u >= b => j * t >= (-l) * t
    <2> SUFFICES ASSUME NEW j \in Int, j * u >= b PROVE j * t >= (-l) * t
      OBVIOUS
    <2>1. /\ (-l - 1) * u = -(l * u + u)
          /\ j * u \in Int /\ l * u \in Int
      BY <1>2, <1>4, ProductInt
    <2>2. -l <= j
      <3>1. ~(j * u <= (-l - 1) * u)
        BY <1>1, <1>2, <1>4, <2>1
      <3>2. ~(j <= -l - 1)
        BY <1>2, <1>4, <3>1, ProductMonotone
      <3> QED
        BY <1>4, <3>2
    <2>3. -l \in Int
      BY <1>4
    <2> QED
      BY <1>1, <2>2, <2>3, ProductMonotone
  <1>8. CASE c.side = "BUY"
    <2>1. ToTick(c) = k * t
      BY <1>8 DEF ToTick, Floor, k, b, t, u
    <2>2. k * t \in Int /\ (k * t) % t = 0 /\ (k * t) * Scale = k * u
      BY <1>1, <1>3, <1>5, ProductInt, MultipleRemainder
    <2> QED
      BY <1>3, <1>5, <1>6, <1>8, <2>1, <2>2 DEF b, t
  <1>9. CASE c.side = "SELL"
    <2>1. ToTick(c) = (-l) * t
      BY <1>9 DEF ToTick, Ceiling, l, b, t, u
    <2>2. -l \in Int /\ (-l) * u = -(l * u) /\ l * u \in Int
      BY <1>2, <1>4, ProductInt, ProductNegates
    <2>3. (-l) * t \in Int /\ ((-l) * t) % t = 0 /\ ((-l) * t) * Scale = (-l) * u
      <3>1. (-l) * t \in Int
        BY <1>1, <2>2, ProductInt
      <3>2. ((-l) * t) % t = 0
        BY <1>1, <2>2, MultipleRemainder
      <3>3. ((-l) * t) * Scale = (-l) * u
        BY <1>5, <2>2
      <3> QED
        BY <3>1, <3>2, <3>3
    <2>4. (-l) * u >= b
      BY <1>1, <1>4, <2>2
    <2> QED
      BY <1>5, <1>7, <1>9, <2>1, <2>3, <2>4 DEF b, t
  <1> QED
    BY <1>1, <1>8, <1>9 DEF Sides

\* A marketable_limit_price is on a tick, inside every band the market advertises and
\* no worse than the caller's worst price, for every index, band and tick.
THEOREM PriceAcceptable == Spec => []PriceIsAcceptable
  <1>1. IInv => PriceIsAcceptable
    <2> SUFFICES ASSUME IInv, Done("marketable") PROVE Accepted(call, result)
      BY DEF PriceIsAcceptable
    <2>1. /\ call \in MarketableCalls /\ result = ToTick(call)
          /\ Admissible(call, result)
      BY KindOfCall DEF IInv, Answered, Done, PricesMarketable
    <2>2. result \in Int /\ result % call.tick = 0
      BY <2>1, NearestTick
    <2>3. /\ Scale \in Nat \ {0} /\ call.worst \in Nat /\ call.side \in Sides
          /\ call.index \in Nat \ {0} /\ result * Scale \in Int
      BY <2>1, <2>2, MarketableNumbers, ProductInt
    <2>4. /\ Lower(call) \in Int /\ Upper(call) \in Int /\ Bound(call) \in Int
          /\ Lower(call) <= result * Scale /\ result * Scale <= Upper(call)
      BY <2>1, MarketableBounds DEF Admissible
    <2>5. \A b \in {call.resting, call.execution} \ {NoBand} :
             call.index * b.down <= result * Scale /\ result * Scale <= call.index * b.up
      <3> SUFFICES ASSUME NEW b \in {call.resting, call.execution} \ {NoBand}
                   PROVE  call.index * b.down <= result * Scale
                          /\ result * Scale <= call.index * b.up
        OBVIOUS
      <3>1. call.index * b.down <= Lower(call) /\ Upper(call) <= call.index * b.up
        BY <2>1, MarketableBounds
      <3>2. call.index * b.down \in Int /\ call.index * b.up \in Int
        BY <2>1, <2>3, BandInForce, ProductInt
      <3> QED
        BY <2>3, <2>4, <3>1, <3>2
    <2>6. call.worst # 0 => IF call.side = "BUY" THEN result <= call.worst
                            ELSE result >= call.worst
      <3> SUFFICES ASSUME call.worst # 0
                   PROVE  IF call.side = "BUY" THEN result <= call.worst ELSE result >= call.worst
        OBVIOUS
      <3>1. call.worst * Scale \in Int
        BY <2>3, ProductInt
      <3>2. CASE call.side = "BUY"
        <4>1. result * Scale <= Bound(call) /\ Bound(call) <= call.worst * Scale
          BY <2>1, <3>2, NearestTick, MarketableBounds
        <4>2. result * Scale <= call.worst * Scale
          BY <2>3, <2>4, <3>1, <4>1
        <4> QED
          BY <2>2, <2>3, <3>2, <4>2, ProductCancels
      <3>3. CASE call.side = "SELL"
        <4>1. result * Scale >= Bound(call) /\ Bound(call) >= call.worst * Scale
          BY <2>1, <3>3, NearestTick, MarketableBounds
        <4>2. call.worst * Scale <= result * Scale
          BY <2>3, <2>4, <3>1, <4>1
        <4>3. call.worst <= result
          BY <2>2, <2>3, <4>2, ProductCancels
        <4> QED
          BY <2>2, <2>3, <3>3, <4>3
      <3> QED
        BY <2>3, <3>2, <3>3 DEF Sides
    <2> QED
      BY <2>2, <2>5, <2>6 DEF Accepted
  <1> QED
    BY <1>1, Invariance, PTL

\* marketable_limit_price rounds away nothing: no acceptable tick is more aggressive
\* than the answer, and there is none when it refuses.
THEOREM PriceBest == Spec => []PriceIsBest
  <1>1. IInv => PriceIsBest
    <2> SUFFICES ASSUME IInv, outcome # "none", call.kind = "marketable",
                        NEW p \in 1..Floor(Upper(call), Scale), p % call.tick = 0,
                        Accepted(call, p), Admissible(call, p)
                 PROVE  outcome = "done"
                        /\ IF call.side = "BUY" THEN p <= result ELSE p >= result
      BY DEF PriceIsBest
    <2> DEFINE q == ToTick(call)
    <2>1. /\ call \in MarketableCalls
          /\ Admissible(call, q) => outcome = "done" /\ result = q
      BY KindOfCall DEF IInv, Answered, PricesMarketable
    <2>2. /\ call.tick \in Nat \ {0} /\ Scale \in Nat \ {0} /\ call.worst \in Nat
          /\ call.side \in Sides /\ p \in Int /\ q \in Int
          /\ Lower(call) \in Nat \ {0} /\ Upper(call) \in Int /\ Bound(call) \in Int
      BY <2>1, MarketableNumbers, MarketableBounds, NearestTick
    <2> HIDE DEF q
    <2>3. p * Scale \in Int /\ q * Scale \in Int
      BY <2>2, ProductInt
    <2>4. PICK j \in Int : p = j * call.tick
      <3>1. p = (p \div call.tick) * call.tick
        <4>1. p % call.tick = p - (p \div call.tick) * call.tick
          BY <2>2, RemainderIs
        <4>2. (p \div call.tick) * call.tick \in Int
          BY <2>2, QuotientInt, ProductInt
        <4> QED
          BY <2>2, <4>1, <4>2
      <3> QED
        BY <2>2, <3>1, QuotientInt
    <2>5. Lower(call) <= p * Scale /\ p * Scale <= Upper(call) /\ p > 0
      BY DEF Admissible
    <2>6. CASE call.side = "BUY"
      <3>1. call.worst # 0 => p * Scale <= call.worst * Scale
        BY <2>2, <2>6, ProductMonotone DEF Accepted
      <3>2. p * Scale <= Bound(call)
        BY <2>1, <2>3, <2>5, <2>6, <3>1, MarketableBounds
      <3>3. p <= q /\ q * Scale <= Bound(call) /\ Bound(call) <= Upper(call)
        BY <2>1, <2>4, <2>6, <3>2, NearestTick, MarketableBounds DEF q
      <3>4. p * Scale <= q * Scale
        BY <2>2, <3>3, ProductMonotone
      <3>5. Admissible(call, q)
        BY <2>2, <2>3, <2>5, <3>3, <3>4 DEF Admissible
      <3> QED
        BY <2>1, <2>6, <3>3, <3>5
    <2>7. CASE call.side = "SELL"
      <3>1. call.worst # 0 => p * Scale >= call.worst * Scale
        BY <2>2, <2>7, ProductMonotone DEF Accepted
      <3>2. p * Scale >= Bound(call)
        BY <2>1, <2>3, <2>5, <2>7, <3>1, MarketableBounds
      <3>3. p >= q /\ q * Scale >= Bound(call) /\ Bound(call) >= Lower(call)
        BY <2>1, <2>4, <2>7, <3>2, NearestTick, MarketableBounds DEF q
      <3>4. q * Scale <= p * Scale
        BY <2>2, <3>3, ProductMonotone
      <3>5. q > 0
        <4>1. ~(q * Scale <= 0 * Scale)
          BY <2>2, <2>3, <3>3
        <4> QED
          BY <2>2, <4>1, ProductMonotone
      <3>6. Admissible(call, q)
        BY <2>2, <2>3, <2>5, <3>3, <3>4, <3>5 DEF Admissible
      <3> QED
        BY <2>1, <2>7, <3>3, <3>6
    <2> QED
      BY <2>2, <2>6, <2>7 DEF Sides
  <1> QED
    BY <1>1, Invariance, PTL
=============================================================================
