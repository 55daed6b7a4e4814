# A TLA+ model of the Bond PerpDEX client

The repository holds a Python client for a perpetual-futures exchange: it signs
in, keeps a local order book, chooses prices, places and cancels orders, and
follows its account over a private stream. It has no retries of anything that
changes the account, and most of its code is there to decide when *not* to send
an order. These modules model that code, TLC checks small instances of them, and
TLAPS proves their safety properties for every instance.

Paths below are relative to the repository; `client_orders.py` and the like are
in `src/bond_perpdex_client/`.

## The system

| Component | State it keeps | Operations | Talks to |
|---|---|---|---|
| Order commands (`client_orders.py`) | `halted`, `_nonces`, `_attempted`, `_cancel_attempted`, `_open`, `_pending_cancels`, `_uncertain_cancel_all`, `uncertain_commands` | `prepare_order`, `submit_order` with `_live_preflight`, `cancel_order`, `cancel_all` | venue, session, account queries, stream flag |
| Account queries (`client_account.py`) | none of their own; they change `_open`, `_pending_cancels`, `stream_requires_reconciliation` | `query_order`, `reconcile_account`, plain reads | venue's account projection |
| Private stream (`user_stream.py`) | the generator's locals, `_stream_connected`, `_stream_revision`, `stream_requires_reconciliation` | `user_events` and its reconnects | trading WebSocket, session |
| Session (`client_session.py`) | `_session`, `signing_registry` | `authenticate`, `authenticate_cached`, `discover_signing_context` | venue, cache file |
| Session cache (`credentials.py`) | one file | load, `needs_renewal`, save through a temporary file | disk |
| Depth book (`strategy.py`) | `bids`, `asks`, `last_id`, `last_received`, `last_event`, `ready` | `snapshot`, `apply`, `top`, `disconnect` | depth stream |
| Prices (`strategy.py`, `client_orders.py`, `models.py`) | none | `MakerPolicy.quotes`, `fair_price_band`, `marketable_limit_price`, market filters | depth book, index price |
| Signing (`signing.py`) | none | `encode_expiration`, `decode_expiration`, canonical forms, EIP-712 | order commands |
| Offline demonstration (`__main__.py`, `offline.py`) | the fixture venue's orders | submit every quote, clean up | order commands |
| Supervised runs (`quickstart.py`, `workflows.py`) | locals | `open_account`, `watch_account`, `place_and_cancel` | everything above |
| Transports (`transport.py`) | none (a socket per trading request) | allow-listed requests, bounded frames | network |
| The rest (`configuration.py`, `setup.py`, `registry.py`, `discovery.py`, `chain.py`, `bot_key.py`, `wire.py`, `models.py`) | files and immutable values | parsing, validation, encoding | - |

How they interact: one client object, `BondPerpDexClient`, carries the state of
the first four. A command holds the client's RLock from its first check to its
answer; `query_order`, `reconcile_account` and the stream take no lock, so in a
program with several threads their steps fall between those of a command, and a
thread that copies `_open` can lose control in the middle of the copy. Every
command marks itself as attempted and uncertain *before* it is sent and only an
expected answer removes it again; anything else halts the client for good.

What is hard here, and hardly reached by the repository's tests, which run one
thread against a scripted transport:

- an answer that never comes, or a request the venue acts on after the client
  gave up (a placement, a cancellation, a sweep, a sign-in);
- an account projection that lags behind the venue, read in two requests that
  need not agree;
- cancellations answered by a bare receipt, decided later;
- a dict rebuilt without the lock (`client_account.py:81`) while a command
  replaces it or enters an order;
- orders in the same book that other processes of the account placed;
- the reconciliation flag, raised by the stream's thread while another compares,
  clears and relies on it;
- frames lost, repeated, overtaken, late; snapshots older than the stream;
- a process that dies between the venue's token and the cache file;
- fixed-width words, ticks and bands at their boundaries.

`PROJECT.json` lists each of these as a hazard, at its line, with the properties
that would fail if the code got it wrong.

What makes each component correct, in a sentence: *order commands* never lose
sight of an order that can trade and never send a placement over an undecided
one; *stream and reconciliation* unblock submissions only on an account view
without a hole; *session* never uses, keeps or caches a token its own sign-in
replaced; *depth book* shows only what the venue published, and not for long;
*prices* are acceptable to the venue and within the caller's limit; *signing*
says exactly what the request says; the *runs* report success only with
nothing left open.

## Modules

| Module | Models | Kind |
|---|---|---|
| `CommandLedger` | what the client promises of its commands | abstract specification |
| `OrderClient` | the command path with its venue; implements `CommandLedger` | specification |
| `MCOrderClient` | instances of it | for TLC |
| `OrderClientProofs` | theorems about `OrderClient` | proofs |
| `UserStream` | the stream generator, reconciliation, the preflight's flag test | specification |
| `DepthBook` | the local book and the venue that feeds it | specification |
| `WatchAccount` | `watch_account`, a loop over the stream; extends `UserStream` | composition |
| `SessionCache` | start-up, renewal and the cache file, for several processes, with crashes | specification |
| `SessionRenewal` | one client's session under three threads: renewal, an order, the stream | composition |
| `SupervisedTrade` | the trade of `quickstart.py`'s trade mode, with its venue | component |
| `DemoRun` | the offline demonstration | component |
| `Quickstart` | `quickstart.py`: settings, flag and mode choose what runs; extends `SupervisedTrade`, instantiates `DemoRun` | composition |
| `SignedExpiration` | the packed expiration word | operators |
| `OrderPrices` | the maker's quotes and marketable prices | operators |
| `Permissions` | permission checks of the client and allow-lists of the transports | operators |
| `PureCalls`, `MCPureCalls` | one call of any function of the last three | specification, instance |
| `UserStreamProofs`, `WatchAccountProofs` | theorems about the stream, and about the loop on top of it | proofs |
| `SessionRenewalProofs`, `SessionCacheProofs` | theorems about sessions | proofs |
| `DepthBookProofs` | theorems about the book | proofs |
| `QuickstartProofs` | theorems about all modes of `quickstart.py` | proofs |
| `PureCallsProofs` | theorems about the word, the prices and the permissions | proofs |

Variables and actions carry the source's names (`halted`, `pending` for
`_pending_cancels`, `Apply`, `Snapshot`, `disconnect`); the `map` of
`PROJECT.json` gives the lines of each. The venue, the network and the clock are
not in the repository: they are modelled from how the code uses them, as freely
as it allows, and marked external.

### OrderClient

The *trader* issues commands; a preflight is three steps, because it
reads positions and open orders in two requests (`ReadPositions`,
`ReadOpenOrders`) before it compares and sends (`CheckAndSend`). `SubmitAcked`,
`CancelAcked` and `SweepAcked` are the three ways a command ends well;
`OutcomeUnknown` is the `except` clause they share. The *readers* are threads in
`query_order`, which changes `_open` and `_pending_cancels` without the lock.
`reconcile_account` calls `query_order` for the pending cancellations and is
covered by it.

The grain is CPython's: a thread can lose control at a call and at a loop's
back-edge. `query_order` on a terminal order is therefore the response
(`QueryReads`), the `pop` (`QueryPops`), the beginning of the comprehension over
`_open` (`QueryRebuilds`) and its end, which stores the copy (`QueryApplies`). The
rebuilds of `cancel_order` and `cancel_all` are two steps for the same reason
(`AnswerRebuilds`, then `CancelAcked` or `SweepDropsOpen`). `viewing` is what the
dict that a thread copies holds, and `current` says whose dict is still the one
`_open` refers to: an order entered there is seen by those copies, and if the dict
had entries, makes them raise (`resized`, `QueryRaises`, "dictionary changed size
during iteration"); an order entered after the dict was replaced is not seen, and is
lost when the older copy is stored. The history variable `dropped` collects the orders
lost in this way, and only those. The rebuild of `_pending_cancels` by `cancel_all` can
raise likewise, when a reader pops an entry; then the sweep's outcome counts as unknown.

The venue may drop a request, act on it at any later time, accept an order with
any status and fill its mode allows, fill or expire a resting order, answer a
cancellation with a receipt and decide it afterwards, and sweep a market or a
part of it. `Others` are orders of the account that this client did not place
(other processes, or an earlier run): they appear, fill and end on their own, and the
client meets them in the projection only. One that is placed and projected before the client's
first command stands for an order older than the process.
The projection (`proj`) follows order by order, arbitrarily late; all reads go
through it. A client order ID stands for the order and its UUID. A preflight
check that concerns only constant data is a `PreflightRefuses`.

### UserStream

Neither the stream's fields nor the flag are protected by the lock, so the
grain of the steps matters. `pyproject.toml` asks for CPython 3.12 or later, which
switches threads only at calls and at loop back-edges: a run of plain attribute
tests and assignments is one step, and a network read always separates two. The
revision number is used only for comparison with an earlier value of itself; `moved`
records that it changed since the capture. `docs/protocol.md` notes that
numbers are shared with other accounts; to the client, an execution of another
account is one whose frame never arrives, so the model lets frames be lost and the
property speaks of every number. Frames that come before the subscription is
acknowledged are buffered by `_rpc`; in the model they are on their way from then on
(`Happens` while the generator connects) and received after the "connected" message. That
the buffer keeps its order is not modelled: any frame may overtake another.

### DepthBook

The venue's book is a function from change number to levels; a frame is the
interval of changes it covers (`U`, `u`, `pu`) with its publication time, and
its levels are read off the venue's history, so no frame is invented. `covered`
is a history variable: whether the last snapshot showed all of the venue's book.
A failed `apply` or `top` discards the book.

Snapshots hold 20 levels a side and frames mention only levels that change. Once
the levels a snapshot showed are gone, the best level held need not be the
venue's best. Nothing in the repository promises otherwise, so there is no
finding, but the property `TopIsVenueTop` needs `covered`, and
`HeldLevelsAreTrue` is what holds without it.

### WatchAccount

One thread runs the loop, the generator and `reconcile_account`, so `UserStream`'s
actions are reused and only their order changes: the account is read while the
generator is suspended at a message. `HandlesMessage` is the loop body up to the
read, `Reconciles` the read, `Leaves` the exit through `closing()`. `noticed` is a
history variable: what had happened when the last message asked for a read.

### SessionCache

Tokens are numbered as the venue issues them; each replaces the one before. A
crash keeps only the file. A sign-in the process abandoned may still be carried
out, and then the cached token is dead although it looks fresh. The process cannot know;
`/auth/me` fails and it stops. The two safety properties
therefore speak of the sign-ins a process was waiting for when they were
carried out.

`README.md` and the docs ask for one renewal owner. The model has two processes
with one file, each with its own temporary file, and `overlapped` remembers
whether both were ever between the nonce and the saved file. That shows what the rule
buys: without the antecedent `~overlapped`, `CacheIsNewestOrRenewed` fails (the
process that signed in first saves last), and with it processes may take turns
freely. The file is never torn and no process keeps a session its own
sign-in replaced, overlap or not.

### SessionRenewal

The documentation asks the application to close streams and finish commands
before it renews; `authenticate_cached` tests that once, without the lock, and
`authenticate` not at all. Here the three run in three threads without any
coordination. A session is an object with a token, since the stream compares
objects. The trader's two preflight reads each sign with the session of
their moment; the stream's checks stand where the code has them, and every other
check of either thread is a step that may fail. `intact` and `clean` are history variables.

What keeps an accepted order under one session is the venue, which honours only
the newest token, together with the intent's own `x-api-key`: a preflight read
under a later token means that the intent's token is dead. That is an assumption
about the venue, from the repository's `README.md` ("every run signs in again and replaces
the prior token"). It says nothing about a client that is signed in to *another*
account between prepare and submit; the code has no check for that beyond the
key, and the model has one account.

### Quickstart, SupervisedTrade, DemoRun

The programs are sequential; a step is one request with what the program does
about its answer. `Quickstart` is `main` and `run`: settings are reduced to the
mode, `--allow-live-orders`, whether a price is given, whether all values are
valid, and `--show-config`. Its offline mode takes `DemoRun`'s steps (the venue is
the repository's own fixture, with its injected failures), its trade mode
`SupervisedTrade`'s, and its private modes share the sign-in and the account read with
the trade.

`SupervisedTrade` adds a venue that rotates its signing
context. `docs/protocol.md` says that a rotation during a run stops trading; the
client sees a rotation only when it reads `exchangeInfo` again, so the property
is that an order is sent only under the one context that every reading showed.

### PureCalls with SignedExpiration, OrderPrices, Permissions

One call on every combination of arguments of the instance, with its results compared
with what they mean. The word of `SignedExpiration` keeps its fields and their
order; the 58-bit expiry is scaled down to a limit, and the bits above it are multiples of that
limit. In `OrderPrices`, prices are integers and multipliers fractions of
`Scale`, computed exactly. The code computes in `Decimal`: `marketable_limit_price` in a
context of 80 digits, `MakerPolicy.quotes` in the default one of 28. The
model agrees with it as long as the products fit in that many digits, and says nothing about inputs
with more. `PriceIsBest` compares the answer with every tick up to the band's upper end,
hence with every admissible one.

`Permissions` reduces a request to what the allow-lists look at. A client holds a
configuration and a transport that holds one too; all pairs are enumerated,
and on the live transports every request of the reduced shape as well, not only
the client's own. `trading_request` and `private_socket` go round the route table and have their
own tests. `cancel_all` is not in the route table and does not need to be. The request of
`user_events` carries a key: the subscription frame holds the session's.

## Runs

| Run | Instance | What it shows |
|---|---|---|
| `orders` | three bids of the client, a POST_ONLY of one lot and a GTC of two in one market and a POST_ONLY in another, a sweep, and a bid of two lots of another process; of these two orders of the client, or one and the sweep or the other process's, in play at a time; limits of two lots and two orders | `NoForgottenOrder`, `NoOverlapWithCancelled`, `OneActiveMarket`, `RoomForEveryRestingOrder`, `TypeOK` |
| `fair` | the client's two bids in the one market, or its GTC bid and a sweep; limits of two lots and one order; fairness | `OpenOrderLimit`, `ImplementsLedger`; `EndedOrdersResolve` |
| `overshoot` | a POST_ONLY bid of one lot and a GTC bid of two, limits of two lots and two orders | `PositionLimit` is **violated** (below) |
| `stale` | two bids of the client and one of another process in one market, one reader | `UnreconciledRejected` is **violated** (below) |
| `stream` | three events, one reconnect, two iterators, three executions, fairness | the flag and the iterator: four properties |
| `stream_submit` | two events, one iterator | `NoSendWhileBlocked` is **violated** (below) |
| `watch` | four events, two reconnects, four executions | `WaitsInStep`, `ReturnIsReconciled` |
| `depth` | three prices, one lot, snapshots of one level, three changes, ages of at most one tick of a clock of two | held levels, top and age of the book |
| `session_cache` | two processes, lifetime 2, window 1, clock to 3, three tokens | the cache and the sessions in memory |
| `renewal` | three session objects, three tokens | `AcceptedUnderOneSession`, `NoEventAcrossSessions`, `TypeOK` |
| `quickstart` | all settings, four quotes, two contexts, two rotations, any registry pin, fairness | PASS and clean-up; context, return and exception of a trade; who places orders; termination |
| `calls` | expiry limit 5, lease 2, all modes, flags, clocks and words; prices to 16, ticks 1 to 3, three bands, two configured widths, positions beyond both limits; all configurations, operations and reduced requests | the packed word, quotes and marketable prices, permissions |

The largest runs are `session_cache` (1.6 million states), `stream` (1.2 million) and
`orders` (0.9 million); each finishes within about two minutes on two cores.

Why the bounds are enough. *Orders*: every check relates the order being placed to
one other (the one it overlaps, exceeds the limit with, or leaves in another
market), so two orders reach each conflict; `TwoInPlay` bounds the `orders` and `fair` runs to them. The
nonces are only compared: `orders` takes them as symmetric, `fair` in one order. In `fair`, with a limit of one
order, any second live order violates `OpenOrderLimit`; in `orders`, with a limit of two, a placement enters `_open`
while a query copies it, and an order of another process is listed beside the new one. A stale copy of `_open` that drops a live order
needs two orders as well, and occurs in both runs; that a further
placement is then sent over it needs a third, which the `stale` run has. The theorems remove the
bounds for the properties that are proved. *Sign-ins*: one, lost at any time, and repeated as long as
nothing is prepared; orders under replaced sessions are the `renewal` run's. *Stream*: a hole needs three
numbers, an overlap of two iterators needs two, and one reconnect is the first
that resets `last_sequence`. *Depth*: three prices leave room for a touched, an
untouched and a new level on one side, three changes for a bridge, a hole and a
late frame; with snapshots of one level both covering and truncated ones occur. *Watching*: two reconnects, so that the
budget has a middle; four executions for a hole on either side of a
disconnection. *Session*: three tokens give
a replaced, a current and an abandoned one, or the two of an overlap; a clock of
three passes a full lifetime and the window; three session objects are the one
before, a reused one and a new one. *Demonstration*: `MakerPolicy` returns at most two quotes,
four is more than it needs. *Expiration*: the fields do not interact, so a small
limit keeps every boundary (zero, limit, limit less the lease).

Runs that disable the deadlock check are those of programs that end (a quick
start, a watch, one call) and `renewal`, whose sessions and tokens run out.
`OrderClient`, `UserStream`, `DepthBook` and `SessionCache` never stop altogether.

### Three disagreements

- **`stale`.** `docs/protocol.md:114-115` says that `submit_order` rejects
  "unreconciled known orders". A query that is copying `_open` (`client_account.py:81`),
  and loses control, keeps the order it began with; meanwhile a cancellation's answer
  replaces `_open`, and a placement's answer enters its order in the new dict. The query
  then stores its copy. The resting order is neither in `_open` nor uncertain, the
  next preflight does not wait for the projection to show it, and the placement is sent.
  In the run's trace the order that is cancelled and queried is another process's; one of
  the client's own does as well, in a longer trace. This takes a program that
  queries in one thread and trades in another; the repository's own
  programs use one.
- **`overshoot`.** `configuration.py:156` describes `BOND_MAX_POSITION` as
  "Maximum absolute per-market base position, including worst-case open-order
  fills." A GTC order is acknowledged as FILLED (so it is not in `_open`), the
  projection does not show the fill yet, and the next preflight finds neither an
  open order nor a position: it sends an order that takes the position past the
  limit. What does hold is `RoomForEveryRestingOrder`: any excess comes from
  fills the position read did not show, or from orders of other processes that were not
  listed, never from the client's own resting orders (dropped ones apart).
- **`stream_submit`.** `docs/protocol.md:199` says the flag "blocks new live
  submissions until `reconcile_account()` succeeds while the stream is open".
  `_live_preflight` tests it once (`client_orders.py:243`), before its own
  reads; a notice that the stream's thread raises during them does not stop
  the order.

A fourth has no run of its own. `configuration.py:170` says that `BOND_MAX_OPEN_ORDERS`
"includes this account's other processes". The preflight counts what the projection lists, and
waits for the client's own orders only (`client_orders.py:291-294`): another process's order
that is not listed yet, or one that it sends at the same time, is not counted, and the account can
exceed the cap. `OpenOrderLimit` is therefore a property of the client's own orders and says
nothing of the account's. `docs/protocol.md:116-117` asks for a dedicated account.

## Fairness

Only three runs check liveness.

- `OrderClient!FairSpec` (`EndedOrdersResolve`): weak fairness of `VenueExpires` (orders
  are signed with an expiry 60 seconds ahead), of `Projects` (the projection lags
  but is not abandoned), and of the steps of a query once its response is there
  (`QueryPops`, `QueryRebuilds`, `QueryApplies`, `QueryRaises`: a call
  that has its response returns); strong fairness of `QueryReads`, which is the application's duty,
  not the client's: it polls each order, and since a thread has one call under way at a time
  and sessions come and go, the call is not enabled continuously. Nothing is assumed of
  the trader. The property gives up when the session is lost, because the code does:
  nothing in it signs in by itself.
- `UserStream!FairSpec` (`IteratorEnds`): the generator, once started, takes
  steps. Socket operations have deadlines (`_receive`, the idle limit), and
  the consumer is a `for` loop. No fairness of the trader or of the venue is assumed.
- `Quickstart!RunSpec` (`EndsAccountedFor`): weak fairness of `Program`, a sequential
  program whose every request has a deadline; none of the venue.

## Proofs

Every safety property that a passing run checks is also a theorem: of the specification, hence
for every value of the constants that meets the module's assumption, not only for
the instance of the run. Each comes from an inductive invariant,
`IInv`, in the proof module. It is what the code relies on without saying so, and is
stronger than the properties because they are not inductive by themselves.

| Module | Theorem | Property | Assumes |
|---|---|---|---|
| `OrderClientProofs` | `TypeCorrect` | `TypeOK` | `IntentsAreFinite`, `ConstantTypes` |
| | `NothingForgotten` | `NoForgottenOrder` | |
| | `CancelledBeforeReplaced` | `NoOverlapWithCancelled` (action) | |
| | `OrderLimitHolds` | `OpenOrderLimit` | |
| | `OneMarketAtATime` | `OneActiveMarket` | |
| | `RestingOrdersHaveRoom` | `RoomForEveryRestingOrder` (action) | |
| | `CommandsFollowLedger` | `ImplementsLedger` (refinement) | |
| `UserStreamProofs` | `TypeCorrect`, `LossFlagged`, `StopBlocks` | `TypeOK`, `LossIsFlagged`, `StoppedStreamBlocks` | `StreamBounds` |
| `WatchAccountProofs` | `LoopRunsTheStream` | `WatchSpec => Spec` (refinement) | |
| | `WaitInStep`, `ReturnReconciled` | `WaitsInStep`, `ReturnIsReconciled` | |
| `SessionRenewalProofs` | `TypeCorrect`, `OrdersUnderOneSession`, `EventsUnderOneSession` | `TypeOK`, `AcceptedUnderOneSession`, `NoEventAcrossSessions` | `RenewalBounds` |
| `SessionCacheProofs` | `TypeCorrect`, `CacheNeverStale`, `OldSessionGoesFirst` | `TypeOK`, `CacheIsNewestOrRenewed`, `NoSupersededSession` | `CacheBounds` |
| `DepthBookProofs` | `TypeCorrect`, `LevelsAreTrue`, `TopIsTrue`, `MissingAreRecent` | `TypeOK`, `HeldLevelsAreTrue`, `TopIsVenueTop`, `MissingChangesAreRecent` | `BookBounds` |
| `QuickstartProofs` | `PassIsClean`, `CleanupIsComplete` | `PassMeansClean`, `CleanupReachesEveryOrder` | `QuotesAssumption` |
| | `EndIsAccountedFor` | the safety half of `EndsAccountedFor` | |
| | `SignedUnderOneContext`, `ReturnIsSettled` | `OneSigningContext`, `TradeReturnsSettled` | `TradeConstants` |
| | `RaiseIsOnRecord`, `TradesOnlyIfAsked` | `RaisedIsOnRecord`, `OrdersOnlyIfAsked` | |
| `PureCallsProofs` | `SignedBitsSayTheRequest`, `WordsCanonical`, `ClocksFitTheField` | `SignedBitsMatchRequest`, `WordsAreCanonical`, `CheckedClocksFit` | `ExpirationBounds` |
| | `BoundHoldsUnderFills`, `QuotesOutside` | `BoundUnderEitherFill`, `QuotesStayOutside` | `PriceBounds` |
| | `PriceAcceptable`, `PriceBest` | `PriceIsAcceptable`, `PriceIsBest` | |
| | `OnlyPermittedLeaves`, `TransportServes` | `NothingUnpermittedLeaves`, `TransportServesClient` | none |

The assumptions are those the constants' meaning gives (a limit is a natural number, a
tick is positive, orders are finitely many, `HalfSpread` and the bands are as the
configuration and the market filters admit them). TLC evaluates each in a run.

### OrderClient

`IInv` is a conjunction of named parts, each needed by the next:

- `TypeOK`: typing, no order overfilled, a command exactly while the lock is held;
- `CommandInv`: what is uncertain or on the wire was attempted, and an uncertain
  command is the awaited one unless the client has halted. This is what makes a preflight safe: when it sends,
  the client is not halted, hence nothing is uncertain;
- `BookInv`: an order exists at the venue only after its placement left the wire,
  and what the projection, or a query under way, shows as terminal is terminal. Without
  the second half, a late projection could drop a live order in `QueryApplies`;
- `ReplyInv`: an answer on its way, or being applied, belongs to the command in progress and tells
  the truth about the venue's book; without it, an acknowledgement could drop
  a resting order from the record;
- `CancelInv`: an order the client tried to cancel is terminal, pending or
  uncertain, and during a preflight nothing is pending;
- `RebuildInv`: what any thread is copying holds no live order that `_open` lacks, and what
  the trader is about to store lacks none that `_open` has, orders in `dropped` apart.
  It is what makes the rebuilds of the *commands* safe: the trader enters orders itself,
  so none is entered while it copies;
- `NoForgottenOrder` itself.

A query's rebuild is not safe, and the theorem says so: `NoForgottenOrder` excepts the orders in
`dropped`, to which `QueryApplies` adds exactly what `_open` has and the stored copy neither has nor was
meant to remove. So the theorem says that a stale rebuild is the only way an order is lost, and the
`stale` run shows one. Everything that rests on the record carries the same exception: the limit on
open orders, the single market and the room for resting orders.

From the invariant follows the lemma these rest on, `SendSeesEveryLiveOrder`: at a
send, every live order of the client that was not dropped is acknowledged, so it is in `_open`,
so (`Reconciled`) it is among the orders the preflight read. `OnlySendsAddLive` says that no other step adds one.
With `Live` for the live orders, including a placement on the wire, the order limit is an induction
on `Cardinality(Live)`, and `OneLiveMarket` one on `Live` with `ListedInv` (a preflight
lists orders of its own market only). Both are of the client's own orders. The refinement maps each step of the client to a
step of the ledger or a stutter, one lemma per kind of step.

`RestingOrdersHaveRoom` compares two sums over sets of orders: what the preflight counted,
and what can really still fill. `LagInv` (the projection never shows more filled than the
venue has) makes `ReadInv` inductive: what was read as left of a listed order stays an upper
bound, since orders only fill further. Orders of the client that are not listed are not live, or
were dropped; orders of others count if they are listed. That sums of
larger summands over more elements are larger needs induction over the set, which
the library's induction theorems cannot be used for here; `SmallestSubset` takes their place (among
the subsets that would fail, there is a smallest, since strict inclusion of finite sets is
well founded), and with it `TotalLeftStep` shows that `MapThenSumSet`, which adds
in the order `CHOOSE` picks, gives the same total in any order.

### UserStream and WatchAccount

`SeenInv` is what makes the flag sound: every hole between two delivered numbers is
covered by the account read in progress as long as no notice came since it was begun
(`moved`, the code's revision), and by the last finished read while submissions are not blocked.
`LossIsFlagged` alone does not survive the step where `reconcile_account` clears the flag.
`PlaceInv` ties the generator's position to its locals.

`watch_account` takes the stream's own actions, so the first theorem is that its specification
implies the stream's, and the stream's `IInv` is used, not proved again. `TurnInv` says whose turn it is
(the generator is suspended at a message whenever the account is read, so nothing can move during
the read); `NoticeInv` that the account read after a message covers all that had happened when it came.

### SessionRenewal and SessionCache

With three threads the argument is that tokens only get newer: `PreflightInv` says that every
accepted preflight read ran under a token at least as new as the intent's key, and that a send
has at least one such read. The venue accepts an order only under the newest token, so the two
are equal. `CaptureInv` says that a captured session that was touched is not the client's any more or has
expired; it needs that an object number is never used twice (`TypeOK` with `made`).

In `SessionCache` the parts follow a token from the venue to the file. `VenueInv`: what
the venue issued, and one request at a time from each process (a bound on tokens needs the cardinality of
`asked`). `CopiesInv`: every copy of a session, also a torn temporary file's, is one some
process was answered with. `PlaceInv`: what a process holds at each place.
`RenewalInv`: while renewals keep apart there is at most one, it found a cache that needed it,
and it holds the newest token. `NoSupersededSession` needs no such antecedent.

### DepthBook

The venue's history is a variable, so a frame that covers several changes is handled by an
invariant about the history in place of an induction over a frame's length: `HistoryInv` says that a
level no change between `i` and `j` touched (`Steady`) has the same quantity in both books.
`FrameInv`: frames follow each other and no later change is older than a frame's publication. `HeldInv`: the
levels held are those of change `lastId`, and all of them if the snapshot covered the book. It
must be stated from the snapshot on, before the book is ready: the first frame is applied to the snapshot's
levels.

### Quickstart

`DemoInv` follows the demonstration by its counter `k`: `Submitted` before clean-up,
`CleanedUp` from then on, where each acknowledged order below `k` is cancelled or uncertain
and each from `k` on still in `_open`. The number of quotes is any natural number.
`TradeInv` follows the trade: `ModeInv` (which mode is where), `ContextInv` (every reading is
the registry's, and the order is signed for it), `CommandInv` (what is on the wire at each
step; while the placement is, the order is absent and no receipt has come), `RecordInv`
(what may still trade or be cancelled is on the client's record). Steps of one program
leave the other's variables alone.

### PureCalls

`IInv` says that a call is answered as its function says; the rest are lemmas about the operators.
*Words*: `EncodedFields` and `DecodedWord` are inverse to each other from the bounds of quotient and
remainder (`QuotientBelow` and the lemmas after it, cited because the solver loses them among other facts).
*Quotes*: rounding to a tick moves outward by less than a tick. *Marketable prices*:
`BandInForce` reduces the advertised bands to one interval, `MarketableBounds` says which prices are
acceptable, `NearestTick` that no tick lies between the price and the bound it was rounded from.
*Permissions*: lemmas that read the request of each operation off the table.

A failed proof led to one correction of a model: in `TransportAllows`, two guards of a
`CASE` overlapped for `cancel_all` on the offline transport, so that which one
applied was left open by the semantics of `CASE`, although TLC always took the
first. The offline transport, which has no allow-list and no stream, is now tested first.

### Only model-checked

- Liveness: `EndedOrdersResolve`, `IteratorEnds` and the termination in `EndsAccountedFor`. They need
  fairness and `ENABLED`, which the prover does not handle.
- The three disagreements, which are counterexamples.

## Not modelled

- `transport.py`, its readers: bounded HTTP bodies, sockets and depth frames are plain
  I/O. Their effect on the models is that requests fail; their limits are why waits end.
- `wire.py`, `bot_key.py`, the canonical forms and hashes of `signing.py`:
  encodings and cryptography without state.
- `configuration.py`, the parsing of single values; `discovery.py`, `chain.py`, most of
  `models.py`: parsing and validation, without concurrency.
- `setup.py`: it creates the environment file and the signing key with `O_EXCL` and then writes
  them, so a crash in between leaves an empty file that later runs keep. `PROJECT.json`
  lists it as a hazard; a model would have only these two steps.
- A halt that arrives while a command is in flight: the renewal thread sets `halted`
  without the lock. `SessionRenewal` takes the step, and states no property,
  because nothing says that a halt stops a command already under way.
- `client.py`, `__init__.py`: composition without behaviour of their own.

## Plan

Done: the command path, the stream and the loop that watches it, the depth
book, the session cache with several processes, renewal beside commands and
streams, the quick start in all its modes, the pure functions and the permission tables; and
the proofs of all their safety properties.

Next, in the model: two instances of the client on one account, for the limits that other
processes escape. In the proofs: an abstract book (what a consumer of `top` may rely on) that `DepthBook`
implements; that the trade of `SupervisedTrade` keeps the promise of `CommandLedger` for its two commands; a
bound on the excess in `overshoot`, from `RestingOrdersHaveRoom`: the fills that the
position read did not show.
