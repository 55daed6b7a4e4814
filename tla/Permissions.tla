---------------------------- MODULE Permissions ----------------------------
(***************************************************************************)
(* What may leave the program: the client's permission checks              *)
(* (client_session.py, _permission and _private), the permissions a        *)
(* configuration may hold (models.py, TestnetConfig.validate), and what    *)
(* each transport lets out (transport.py; offline.py for the fixture).     *)
(* Operators only; PureCalls calls them.                                   *)
(*                                                                         *)
(* A client holds a configuration and a transport that holds one too, and  *)
(* the two may differ.  A request is reduced to what the allow-lists look  *)
(* at: its query, body and content type are members of small sets.         *)
(***************************************************************************)
EXTENDS Naturals

\* Orders need the private permission as well.
Configs == {c \in [private : BOOLEAN, orders : BOOLEAN] : c.orders => c.private}

PUBLIC_PATHS == {"time", "exchangeInfo", "depth", "premiumIndex"}
ForgottenReads == {"openOrders", "positionRisk", "order", "account", "balance"}  \* mutant
Reads == {"openOrders", "positionRisk", "order", "account", "balance", "commissionRate"}
Commands == {<<"POST", "order">>, <<"DELETE", "order">>}
Paths == PUBLIC_PATHS \union Reads \union {"nonce", "signin", "me", "other"}

\* query "market" is the one a public market read takes; "signed" has a timestamp
\* and a signature; key says that the session's token is in the headers.
Requests == [method : {"GET", "POST", "DELETE"}, path : Paths, key : BOOLEAN,
             query : {"none", "market", "signed"}, body : {"none", "signin", "signed"},
             type : {"none", "json", "form"}]

Plain(method, path) == [method |-> method, path |-> path, key |-> FALSE,
                        query |-> "none", body |-> "none", type |-> "none"]
MarketRead(path) == [Plain("GET", path) EXCEPT !.query = "market"]
SignedRead(path) == [Plain("GET", path) EXCEPT !.key = TRUE, !.query = "signed"]
Command(method, path) ==
    [Plain(method, path) EXCEPT !.key = TRUE, !.body = "signed", !.type = "form"]

\* The request of each operation of the client; user_events opens a socket, and its
\* subscription frame carries the session's key.
RequestOf ==
    [exchange_info |-> Plain("GET", "exchangeInfo"), depth |-> MarketRead("depth"),
     premium_index |-> MarketRead("premiumIndex"),
     nonce |-> Plain("GET", "nonce"),
     signin |-> [Plain("POST", "signin") EXCEPT !.body = "signin", !.type = "json"],
     identity |-> [Plain("GET", "me") EXCEPT !.key = TRUE],
     account |-> SignedRead("account"), balances |-> SignedRead("balance"),
     commission_rate |-> SignedRead("commissionRate"), positions |-> SignedRead("positionRisk"),
     open_orders |-> SignedRead("openOrders"), query_order |-> SignedRead("order"),
     submit_order |-> Command("POST", "order"), cancel_order |-> Command("DELETE", "order"),
     cancel_all |-> Command("DELETE", "openOrders"),
     user_events |-> [Plain("GET", "other") EXCEPT !.key = TRUE]]
Operations == DOMAIN RequestOf
Public == {"exchange_info", "depth", "premium_index"}
Mutations == {"submit_order", "cancel_order", "cancel_all"}

Transports == {"offline", "readonly", "testnet"}
OperationCalls == [kind : {"operation"}, operation : Operations, client : Configs,
                   transport : Transports, granted : Configs]
RequestCalls == [kind : {"request"}, request : Requests,
                 transport : Transports \ {"offline"}, granted : Configs]
-----------------------------------------------------------------------------
\* private_enabled and mutations_enabled: the read-only transport has neither.
Enabled(c) == IF c.transport = "testnet" THEN c.granted
              ELSE [private |-> FALSE, orders |-> FALSE]

ClientAllows(c) ==
    \/ c.operation \in Public \/ c.transport = "offline"
    \/ /\ c.client.private /\ Enabled(c).private
       /\ c.operation \in Mutations => c.client.orders /\ Enabled(c).orders

PublicAllows(r) ==
    /\ r.method = "GET" /\ r.path \in PUBLIC_PATHS
    /\ r.body = "none" /\ ~r.key /\ r.type = "none"
    /\ r.query = IF r.path \in {"depth", "premiumIndex"} THEN "market" ELSE "none"

SignInAllows(r) ==
    /\ r.query = "none" /\ ~r.key
    /\ \/ r.method = "GET" /\ r.path = "nonce" /\ r.body = "none" /\ r.type = "none"
       \/ r.method = "POST" /\ r.path = "signin" /\ r.body = "signin"

IdentityAllows(r) == r.method = "GET" /\ r.path = "me" /\ r.query = "none" /\ r.body = "none" /\ r.key

SignedAllows(r) ==
    /\ r.key
    /\ \/ r.method = "GET" /\ r.path \in Reads /\ r.body = "none" /\ r.query = "signed"
       \/ <<r.method, r.path>> \in Commands
          /\ r.query = "none" /\ r.type = "form" /\ r.body = "signed"

CommandsUnchecked(r, enabled) ==           \* mutant: mutations_enabled is not tested
    \/ PublicAllows(r)
    \/ enabled.private /\ (SignInAllows(r) \/ IdentityAllows(r) \/ SignedAllows(r))
RouteAllows(r, enabled) ==
    \/ PublicAllows(r)
    \/ /\ enabled.private
       /\ SignInAllows(r) \/ IdentityAllows(r) \/ SignedAllows(r)
       /\ <<r.method, r.path>> \in Commands => enabled.orders

\* trading_request carries cancel_all, private_socket the account stream; the
\* fixture answers every request and has no stream.
TransportAllows(c) ==
    IF c.transport = "offline" THEN c.operation # "user_events"
    ELSE CASE c.operation = "cancel_all" -> Enabled(c).private /\ Enabled(c).orders
           [] c.operation = "user_events" -> Enabled(c).private
           [] OTHER -> RouteAllows(RequestOf[c.operation], Enabled(c))
=============================================================================
