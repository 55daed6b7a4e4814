-------------------------- MODULE SignedExpiration --------------------------
(***************************************************************************)
(* The signed expiration of an order: the uint64 that packs order mode,    *)
(* reduce-only flag and expiry seconds (signing.py, encode_expiration and  *)
(* decode_expiration), and the expiry prepare_order chooses for it         *)
(* (client_orders.py).  Operators only; PureCalls calls them.              *)
(*                                                                         *)
(* Limit is 2^58 in the code.  The 64-bit word is a number in four fields: *)
(* expiry, three reserved bits, the reduce-only bit and two mode bits.     *)
(***************************************************************************)
EXTENDS Integers

CONSTANTS Limit,   \* one more than EXPIRY_MASK
          Lease    \* seconds an order lives: 60 in prepare_order

ASSUME ExpirationBounds == Limit \in Nat \ {0} /\ Lease \in Nat \ {0}

ReserveUnit == Limit
ReduceUnit == 8 * Limit
ModeUnit == 16 * Limit
Words == 0..(64 * Limit - 1)

\* ORDER_MODES: LIMIT/GTC 0, LIMIT/IOC 1, LIMIT/FOK 2, POST_ONLY/GTC 3; "MARKET"
\* stands for every pair the table lacks.
ORDER_MODES == [GTC |-> 0, IOC |-> 1, FOK |-> 2, POST_ONLY |-> 3]
RequestModes == DOMAIN ORDER_MODES \union {"MARKET"}

\* A request, and the clocks of the chain and of the client when it is prepared.
PrepareCalls == [kind : {"prepare"}, mode : RequestModes, reduce : BOOLEAN,
                 endpoint : 0..(Limit + 1), ingress : 0..(Limit + 1)]
DecodeCalls == [kind : {"decode"}, word : Words]
-----------------------------------------------------------------------------
ExpiresAt(c) == (IF c.endpoint >= c.ingress THEN c.endpoint ELSE c.ingress) + Lease

LeaseIgnored(c) == {c.endpoint, c.ingress} \subseteq 1..(Limit - 1)         \* mutant
ClocksFit(c) == {c.endpoint, c.ingress} \subseteq 1..(Limit - Lease - 1)

TermsOf(c) == [mode |-> c.mode, reduce |-> c.reduce, expires |-> ExpiresAt(c)]

Encodable(t) ==
    /\ t.mode \in DOMAIN ORDER_MODES
    /\ t.reduce => t.mode \in {"IOC", "FOK"}
    /\ t.expires \in 1..(Limit - 1)

ReduceInReserved(t) ==                     \* mutant: the flag one bit too low
    ORDER_MODES[t.mode] * ModeUnit + (IF t.reduce THEN 4 * ReserveUnit ELSE 0) + t.expires
Encode(t) ==
    ORDER_MODES[t.mode] * ModeUnit + (IF t.reduce THEN ReduceUnit ELSE 0) + t.expires

Fields(w) == [mode |-> CHOOSE m \in DOMAIN ORDER_MODES : ORDER_MODES[m] = w \div ModeUnit,
              reduce |-> (w \div ReduceUnit) % 2 = 1,
              expires |-> w % Limit]

NoReservedCheck(w) == Encodable(Fields(w))          \* mutant
Decodable(w) == (w \div ReserveUnit) % 8 = 0 /\ Encodable(Fields(w))
=============================================================================
