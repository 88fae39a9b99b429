# aiter-commerce: specifications and proofs

This directory holds a TLA+ model of aiter-commerce, the TLC configurations that
check it on small instances, and TLAPS proofs of its most important properties
for every instance. Paths below are relative to `src/crates/`.

## 1. The system

`aiter-core` is a library without I/O: money, carts, pricing, the status
machines of checkout sessions and orders, receipts, consents, stores and
signatures. `aiter-server` serves it over HTTP (axum on tokio's multi-threaded
runtime), over MCP on stdio, and as a command line client. The whole state of a
server is one `AppState` (`aiter-server/src/catalog.rs:115-141`): a set of
stores, each behind an async mutex of its own, and a few atomics. Nothing is
persisted (`SledStore` is in the library, but no handler uses it); a restart
begins with fresh state, and hands out the same ids again.

| component | state | operations | modelled in |
|---|---|---|---|
| checkout sessions (`checkout/session.rs`, core `checkout.rs`) | `sessions`, `orders`, `audit` | create, complete, cancel | `Checkout`, `CheckoutSpec`, `Carts` |
| agent registry and spend caps (`catalog.rs`) | `agents` | `register_agent`, `charge_agent` | `Checkout` |
| cart endpoints (`checkout/cart.rs`) | `carts`, `cancelled_carts`, `next_id` | create, update, cancel, get | `Carts` |
| cart and pricing (core `cart.rs`, `pricing.rs`, `amount.rs`) | the vector of lines | add, update, remove, `compute_totals` | `Cart`, `CartSpec`, `Money` |
| UPI Reserve Pay (core and server `reserve.rs`) | `consents` | `create_consent`, `debit` | `ReservePay` |
| payments (`payments/*.rs`, core `order.rs`) | `orders`, a counter; Razorpay outside | `order_payment_link`, `razorpay_webhook` | `Payments` |
| status machines (core `checkout.rs`, `order.rs`) | none | the two transition tables | `Fsm` |
| stores (core `store.rs`) | a map; for `SledStore` a cache and a disk | new, create, get, update, close | `Store`, `Durable` |
| authentication (`auth.rs`, core `signing.rs`) | none (reads `agents`) | `require_signed` | `Gate`; its outcome in `Checkout` |
| rate limiter (`rate_limit.rs`) | windows per key | `check` | `Gate` |
| metrics (`metrics.rs`) | counters | bumps | the three business counters, where they are bumped |
| MCP binding (`mcp.rs`, `bin/mcp.rs`) | its own `AppState`, the lines on stdin | tool calls | `Mcp` over `Shop`; completions without an agent also in `Checkout` |
| command line client (`cli.rs`, `bin/aiter-cli.rs`) | the run's locals | `run_flow` | `Cli` over `Shop`, composed in `Clients` |
| catalog (`catalog.rs`) | immutable | `list_products` | `Catalog`; prices are a constant elsewhere |
| configuration (`config.rs`, `main.rs`, `payments/client.rs`) | one file | `init`, `run` | `Config`, `Startup` |
| merchant conversion, seed, discovery documents, error bodies | none | formatting | not modelled |

### How the parts interact, and what is hard

* **Locks and awaits.** A handler runs without interruption between two `.await`
  points, but the runtime has many threads: two handlers overlap wherever they
  do not hold the same mutex. `complete_checkout` holds `orders` and `sessions`
  to its end while it awaits `agents` and then `audit`; `update_cart` holds
  `carts` while it awaits `cancelled_carts`, twice; `create_checkout_session`,
  `cancel_cart` and `get_cart` take one lock after the other;
  `order_payment_link` holds nothing while it awaits Razorpay.
* **Cancellation.** hyper drops the future of a handler when its client
  disconnects, at whatever `.await` it is suspended. Locks are released; nothing
  is rolled back.
* **Retries and duplicates.** Agents repeat completions and cancellations,
  Razorpay repeats deliveries; there is no request id, so idempotence rests on
  what the stores say.
* **Arithmetic.** `Amount::add` and `mul_by_quantity` are checked,
  `charge_agent` and the consent ledger use raw `i64` operators, which wrap
  around in a release build.
* **Time.** Receipts carry a time that was read before the lock of the log was
  awaited, and the rate limiter counts a hit under a time that was read before
  its own lock was. (Sessions carry an expiry too, which no code reads.)
* **Crashes.** The server forgets everything, while its clients keep ids of the
  process before. `SledStore` writes to sled, then to its cache, and flushes
  only at `close`. `aiter-server init` may be stopped with its file half
  written.
* **Lost answers.** `aiter-cli` cannot tell a request that was not handled from
  one whose answer was lost; it stops in either case.

What makes each part correct: a session is charged once, by an agent within its
cap, and has exactly one order and one receipt; a cart holds only served
products of its currency, and is frozen once cancelled; a consent is never
overdrawn; an order is confirmed by one payment over its exact total; what was
stored at a close is found again; a configuration file is never overwritten by
`init`, and its template changes nothing; a client that reports an order reports
its own. `PROJECT.json` lists each hazard at its line with the properties that
watch it.

## 2. Modules

`Money`, `Fsm` and `Store` are libraries of operators, without variables.

**`Checkout`** is the core. Its variables are the stores of `AppState` that
completions touch, the requests in flight (`requests`: their stage, i.e. the
lock they wait for, and their locals), a clock and two history variables
(`charges`, `registrations`). An action goes from one lock to the next:

| code (`checkout/session.rs`) | action |
|---|---|
| request arrives, its agent was found by `require_signed` | `CallComplete`, `CallCancel` |
| 83: `orders.lock().await` | `LockOrders` |
| 84-103, the early returns | `AnswerEarly` |
| 84-111, then waits for `agents` | `LockSessions` |
| 113-164: charge, both writes, the counter, then waits for `audit` | `ChargeAgent` |
| 113-115, refused | `RefuseCharge` |
| 164-167 | `PushReceipt` |
| 84-167 without an agent (MCP) | `CompleteUncharged` |
| 172-188 | `CancelSession` |
| the client disconnects at any of these points | `HangUp` |
| `payments/webhook.rs` 98-139, the other writer of `orders` | `ConfirmOrder` |

A guard that is held across an await is not a variable: `HoldsOrders` and
`HoldsSessions` read off the stage of a request which locks it holds, which is
what RAII makes of it. `charge_agent` takes and releases its lock within
`ChargeAgent`; that the writes to `orders` and `sessions` are in the same action
is sound, because nobody can see either store while the completion holds both
locks, and that the answer to `agents` comes earlier than these writes can be
seen by nobody else for the same reason.

What `ChargeAgent` requires is that the charge is accepted, and nothing else.
The charge is appended to `charges`, a sequence, whatever comes of it; then the
handler goes on with its own copy of the status (`found`), and each `?` of
118-134 is there (`Finalize`): an illegal event or an order that exists leaves
the session charged and nothing written, a missing session leaves the order
alone. That these errors never happen (`NoLateError`), and that no session is
charged twice or without an order (`ChargedOnce`), are results about the locks
and the order of the checks: the first fails if either lock is released across
the charge, the second if the orders lock is.
`expires_at` is left out of a session, since no code reads it.

**`CheckoutSpec`** says what the checkout promises: completing is one
indivisible step that pays the session, charges the agent and receipts the
charge. `Checkout!Promise` maps the handlers to it; a completion takes effect in
`ChargeAgent`, where its receipt counts as written although it is still to be
pushed.

**`Carts`** has the four cart handlers and the one that opens a session, with
the same granularity. `update_cart` is `LockCart`, `PassCheck` (or
`RefuseUpdate`), `WriteCart`, `AnswerUpdate`: between `PassCheck` and
`WriteCart` there is no await, but the lock of the cancelled set is free, so
another thread may run `MarkCancelled`. For the same reason `HangUp` is not
possible there. `get_cart` is `FetchCart`, `LookCancelled` and `AnswerGet`;
while its stage is `told` the answer is on its way. `live` is a history
variable: every content a cart had while it was not cancelled.

**`Cart`** has the vector of lines of `core::cart` and the pricing of
`pricing.rs`, which go over it line by line (recursive functions over its
prefixes); **`CartSpec`** is the map from products to quantities. `Carts` uses
the map and the exact sum in place of the vector and the running total: that is
what the theorems of `CartProofs` justify.

**`ReservePay`** has one action per handler, since both work under one lock
without an await. `drawn` is a history variable that adds the debits up in
unbounded integers.

**`Payments`** has `order_payment_link` in two steps (the copy of the order, the
answer of Razorpay) and each webhook delivery in one. Razorpay is external:
`PayLink` and `PayElsewhere` make payments, and a delivery of any payment made
so far is possible at any time, any number of times: `Reconcile`, `AlreadyPaid`,
`RefuseDelivery`, `IgnoreEvent`. A delivery that lacks the payment entity, or a
`payment.paid` without the id of an order, is answered with an error and changes
nothing; it has no action of its own.

**`Gate`** is what a request passes before its handler, as `router()` stacks it:

| code | action |
|---|---|
| `auth.rs` 75-90: headers, freshness, then waits for `agents` | `ReceiveWrite`, `RefuseHeaders` |
| `auth.rs` 91-99: copies the identity, waits for the body | `FindAgent`, `UnknownAgent` |
| `auth.rs` 99-116 and `rate_limit.rs` 100-86: verifies, reads the time, waits for the limiter | `VerifyBody`, `RefuseBody` |
| `rate_limit.rs` 114-86: a read goes for the limiter | `ReceiveRead` |
| `rate_limit.rs` 86-92: counts, then the handler or 429 | `Count` |
| `register_agent` meanwhile | `Register` |

A signature is abstracted to the key that made it; one that does not cover the
method, target and body presented counts as made by no key (`Unsigned`).
`registry` is the part of `AppState::agents` that authentication reads (the caps
are in `Checkout`), and the handlers behind the gate are in the other modules.
`admitted` and `held` are history variables: when each caller was let through,
and which keys an agent ever had. The clock does not go back; the limiter reads
the wall clock, which could. A `u32` counts the hits of a window; that more than
2^32 requests of one caller arrive within a minute is left out.

**`Durable`** is `SledStore`. `create` and `update` are a check of the cache
with the insert into sled (`Insert`, or `InsertFails`, where sled may have
applied it or not) and then the cache (`Remember`); `new` is `Open`, `close` is
`Close`, and `Crash` may come anywhere between. sled is external: `versions`
holds the trees a crash may leave, in the order in which they were written, and
`FlushSome` is the disk catching up.

**`Config`** has the parser, the layers and the Razorpay settings as pure
operators over files (sequences of lines) and environments. **`Startup`** puts
one file between the processes that use it: `init` (`Create`, `WriteSome`,
`WriteRest`, `Abandon`), the operator's editor (`Edit`, `Unlink`) and the server
(`Run`, `Stop`), whose payment calls use what it read at its start. A template
that was cut off anywhere is one of `TornTemplates`. The editor puts a new file
in place of the old one. One that saves in place, into a file that an init has
created and not yet written (`config.rs` 305-319), would lose its text to
`write_all`; this is not modelled, and `NeverClobbers` does not exclude it.

**`Catalog`** is `list_products`: filter, rank, page. A hit's place is told by
how many hits are before it, which is what sorting by rank and id comes to, no
two products having the same id. **`Shop`** is the state of
a server as its clients see it, with one step for each request, which `Carts`
and `Checkout` take apart. **`Cli`** sends the five requests of `run_flow` one
after the other; the server handles a request (`ServeCart`, `ServeComplete`,
...) or refuses it (`ServeError`), the connection fails before or after
(`Fail`), and `Restart` forgets everything. It also has the agent that walks the
pages (`WalkOn`). **`Mcp`** is the loop over stdin: an agent sends ahead, and
each line is skipped, answered, or ends the loop. **`Clients`** composes them:
aiter-cli, a walker, or one agent over MCP, since the MCP server is a process
with a state of its own. At the end of `Clients` stands the inductive invariant
of its proofs, what every run knows at each stage.

Operators whose comment begins with "Mutant" are plausible bugs, one definition
changed; they occur in no specification and serve to see that each property can
fail.

## 3. Runs

| run | cfg | shows |
|---|---|---|
| `checkout` | `MCCheckout` | consistency of sessions, orders, charges and receipts under interleaved completions, cancellations, confirmations, re-registrations and hang-ups; the inductive invariant |
| `checkout_promise` | `MCCheckoutPromise` | without hang-ups: refinement of `CheckoutSpec`, every charge has its receipt, receipts are in order of time; every request is answered |
| `cart` | `MCCart` | the vector behaves like a map, totals are exact or refused |
| `carts` | `MCCarts` | unique ids, carts of served products in one currency, snapshots of live carts only, true answers of GET |
| `reserve_pay` | `MCReservePay` | consents are never overdrawn |
| `gate` | `MCGate` | quotas hold over time, nobody is throttled without cause, an agent's quota is spent by its own keys only |
| `payments` | `MCPayments` | one exact payment per order, for good; the payment of a link is reconciled |
| `durable` | `MCDurable` | the cache of `SledStore` is what sled holds; what was stored at a close survives every later crash |
| `startup` | `MCStartup` | `init` clobbers nothing, a template, whole or torn, is harmless, the layers agree with the environment |
| `clients` | `MCClients` | reports of aiter-cli are true, nothing is bought twice, a walk sees each product once and in order, everybody ends |

Two further runs state what the documentation says and the code does not do. TLC
finds each violated:

| run | the code |
|---|---|
| `checkout_dropped` | a client that hangs up while its completion awaits the audit lock leaves a charged order without a receipt, for good |
| `carts_frozen` | a cart is rewritten after it was cancelled |

While reading the code we met further places where a document says something
else. No run is spent on these; the models do what the code does:

* `expires_at` is written and shown, and no code reads it: a session can be
  completed at any time (`checkout/session.rs:95`, core `checkout.rs:102`).
* `charge_agent` adds raw `i64` units; near the end of the range a release build
  wraps around and passes the cap (`catalog.rs:277`), where `amount.rs:6` speaks
  of overflow guards. `Implements` and `SpendAccounted` need
  `NoOverflow` for this reason.
* A payment link is minted for an order that was paid while the handler waited
  for Razorpay (`payments/api.rs:43` looks at a copy; `api.rs:22` excludes it).
* `webhooks_verified` is bumped for ignored events too (`payments/api.rs:99`);
  `metrics.rs:34` describes a count of reconciled deliveries.
* `config.rs:336` lists an empty key as a malformed line; the parser skips it
  (`config.rs:222`).
* `config.rs:22` calls a run without a file identical to the one before the
  loader. For `RAZORPAY_MODE` or `RAZORPAY_BASE_URL` that are not Unicode it is
  not: `from_env` refuses them, the layers take them for unset.
  `AgreesWithLegacy` excludes these.
* The MCP tool `list_products` offers "every product" (`mcp.rs:41`) and returns
  the first page; aiter-cli likewise calls a product beyond the first page
  unknown.
* `limit=0` yields empty pages with `has_more` true, so that a walk does not
  end; `Ends` excludes it.
* `bin/mcp.rs:21` takes every read error for the end of stdin, a line that is
  not UTF-8 as well.

Two more observations are of what the code does not promise: over MCP, two
`complete_checkout` calls for one cart make two orders; and since ids start
again with the process, a run of aiter-cli that outlives a restart may complete
a session of another run. `ReportsAreTrue` therefore speaks of runs that began
after the last restart. The availability of a product is never decremented.

### Bounds

Three requests in flight (two where liveness or refinement is checked), two
sessions and two agents are enough for every pair of handlers to race over the
same and over different keys, with one agent acting for a session another one
has completed, and a third request in the way; the proofs need no bound.
`MaxUnits` is small in `cart`, `carts` and `reserve_pay`, so that the overflow
of an `i64` is met; totals and caps are chosen below, at and above each other,
in two currencies where currencies are compared. In `checkout` two totals of one
unit exhaust the demo cap of two, and exceed the cap of one that a later
registration brings. `MaxClock` bounds the clock, which only goes forward. The
server reads the wall clock: `AuditChronological`, `LongRunRate` and
`ThrottledWithCause` assume that this is not set back. `MaxRegistrations` bounds
the registrations per agent of `Checkout` (in `Gate` they are unbounded),
`MaxId` the ids that are handed out, `MaxDeliveries` only what the counter of
`Payments` counts (the deliveries go on). In `gate` a window of two seconds on a
clock of three lets a window be renewed and hits come late; one more request
than the larger quota exhausts it. `MaxAge` is one, so that timestamps are too
old and too new. `MayDrop` says whether clients hang up. Two elements of each
kind suffice for a symmetry; sets of model values are declared symmetric in the
runs of safety properties only.

In `durable` up to three trees are not on the disk yet (`MaxLag`), which lets a
crash lose several writes to one key or to both. In `startup` the environments
are empty, keyed, or keyed with any one variable changed to any of its
interesting values; the edits have good, bad and malformed lines. In `clients`
two terminals start two runs around one restart, so that a run can meet ids of
before and of after; the cap allows some orders and refuses others; four
products on pages of three put one beyond the first page; three messages over
MCP let an agent create a cart and buy it twice. The server's page limits of 25
and 100 are 3 and 3 here.

### Fairness

`checkout_promise` assumes strong fairness of each handler
(`SF_vars(Serve(r))`): tokio's `Mutex` serves its waiters in order of arrival,
so a handler whose lock is free again and again is woken. Clients, registrations
and the clock are not fair. `payments` assumes weak fairness of `Reconcile(p)`
for each payment: Razorpay delivers a webhook until it is acknowledged. That is
a promise of Razorpay, not of this code. `clients` assumes weak fairness of the
server, of a client that has its answer, and of the loop over stdin; users, the
network and restarts are not fair. aiter-cli sets no timeout (`cli.rs:230`), so
that `WF_vars(CliStep(t))` also assumes that a connection nobody answers breaks
in the end.

## 4. Proofs

All theorems hold for every value of the constants that satisfies the named
assumptions: amounts within the range of an `i64`, caps and totals not negative,
names that are different where the code makes them different.

* `CheckoutProofs`. `IInv` strengthens the invariants by `Exclusion` (the orders
  lock has one holder), `ReceiptDue` (a completion that waits for the audit log
  was charged, has its order, and has no receipt yet), `ReceiptsHaveOrders`,
  `NeverReady`, and by what makes two more properties inductive:
  `ReceiptsTimely` (a receipt that is still to be pushed is not older than the
  last one in the log, since both locks are held from the reading of the clock
  to the end) and `CompletedCountsOrders` with the finiteness of the orders.
  Without `Exclusion` the check before the charge would not survive the await;
  without `ReceiptDue` a second receipt could not be excluded. `NoLateError` is
  itself part of the induction: with it, a completion whose charge is accepted
  creates the order (`ChargeAgentDone`), and one that finds no order finds no
  charge either, since every charge has its order; so that no charge is added to
  an earlier one (`ChargedOnce`). From it follow type correctness,
  `PaidIffOrdered`, `ChargedOnce`, `NoLateError`, `WithinCap`,
  `ReceiptsMatchCharges`, `AuditChronological`, `CompletedCountsOrders` and the
  action properties `ClosedForGood` and `AuditAppendOnly`. `ClosedForGood` lets
  a payment confirm an order, and nothing else; that a paid order then stays as
  it is, is `PaidForGood` of `Payments`. `WithinCap` holds with wrapping
  arithmetic as well, since it speaks of the recorded spend. `SpendAccounted`
  says what that record is: the sum of what was charged to the agent since it
  was registered last (`SpentIsCharged`). It needs that every charge was made
  under a registration that exists (`ChargesPast`), so that a new registration
  begins with no charges, and `NoOverflow`, since past the end of the range the
  recorded sum is not the sum. The refinement: every step of the handlers is a
  step of `CheckoutSpec` or a stutter (as is a webhook's, since the promise does
  not speak of the status of an order), under two assumptions that are both
  necessary: `NoHangUp` (see `checkout_dropped`) and `NoOverflow` (see the raw
  addition in section 3). `AllReceipted` shows `EveryChargeHasReceipt` under
  `NoHangUp` alone.
* `CartProofs`. `WellFormed` is inductive; the work is in the recursion of
  `Retain` and of `cart_subtotal`. Both are recursive functions over the
  prefixes of the vector. No induction theorem of the library can be
  instantiated, so that the lemmas argue by a first counterexample
  (`LeastNatural`, from `WFMin`) or a smallest one (`SmallestSubset`);
  `PrefixRecursion` shows that such a recursion has a solution. What is kept of
  a prefix has exactly its lines of other products (`RetainDrops`), so that
  every call does to `QuantityOf` what `CartSpec` promises (`CartIsAMap`). The
  subtotal of a prefix is compared with a sum over the set of its products
  (`Tracks`): costs are not negative, so that a running total that left the
  range never comes back, and a cart is refused only when its exact total is no
  `i64` (`CartPricedExactly`). The sums over sets are those of the community
  modules; that they exist, do not depend on an order and grow by what is added
  is proved first (`SumUnfold`, `SumAdd`, `SumSame`), and used by
  `SpendAccounted` as well.
* `CartsProofs`. `IInv` adds that every id in use is below the counter, that the
  carts lock has one holder, what each request knows at each stage (`Knows`) and
  that the content of a live cart is recorded (`LiveIsRecorded`). The last two
  make `SnapshotsWereLive` inductive: a copy of a cart is either of a time when
  the cart was live, or the cart is cancelled by the time the set is looked at.
  The same argument gives `AnswersWereTrue`.
* `PaymentsProofs`, for both ways to pay. Of the consents, the guard of `debit`
  keeps spend and limit in such a relation that neither the difference nor the
  sum leaves the range of an `i64`, so that both are exact, whatever the limit
  (`LedgerInductive`, `LimitKept`, `NoNewHeadroom`). Of the links,
  `LinksMatchOrders` relates links to the orders they were copied from; with it,
  an order is confirmed exactly when it bears a payment over its exact total,
  and nothing changes it afterwards.
* `GateProofs`. `WindowOK` accounts for each caller: the hits of the current
  window are the latest entries of `admitted`, made since it began, and all
  earlier ones fit into the windows before it. It is needed because the window
  alone forgets its past. From it follow the rate over any stretch
  (`LongRunRate`) and `ThrottledWithCause`; `TasksTrusted`, that what a request
  copied before an await was true at that time, gives `QuotaSpentByItsAgent`.
  The only arithmetic is that a window later one more has passed, and one more
  quota is due.
* `DurableProofs`. `IInv` adds `WritingInTree`: the key being written has its
  new value in the tree, so that the cache catches up with `Remember`. That any
  tree a crash may leave agrees with the last close on untouched keys is
  inductive, as every insert marks its key.
* `StartupProofs`. What init has written is read off the author of the file and
  the stage of that init (`FileKnown`), for any number of inits, environments
  and edits. The rest is a calculation: what each torn template resolves to, by
  the last line of a key that is not empty.

* `ClientsProofs`. `Informed` says what a run of aiter-cli knows at each stage,
  and that the answer on its way to it is right; it is only claimed of runs that
  began after the last restart, and survives what others do because the shop
  only grows (`ShopGrows`), also when a run of before the restart acts on ids
  that are not its own. That gives `ReportsAreTrue`. `OneOrderEach` needs two
  arguments: a run places its order at its fourth request and does not come back
  to it (`OrdersOfRuns`; runs are told apart by `RunsNumbered`); over MCP, the
  lines on stdin are the last that were sent, and every order is of a line that
  was taken from it before (`OrdersOfLines`), so that the next call bought
  nothing yet, however far the agent has sent ahead. The runs check the
  conjunct `OneOrderEach` and the consequence `ReportsAreTrue`; the invariant as
  a whole is left to its proof.
  For the walk, `SeenInOrder` says that what was seen is a beginning of what the
  query finds, page after page. That this is every hit once, best first, is a
  fact about `Found`: places are different, since whoever is before has a
  smaller one, and none is empty by the pigeonhole principle (`PlaceTaken`). A
  title match ranks above a tag match only up to a position of 98999 in the
  title; `WalksSeeAll` names this (`ShortTitles`), since nothing in
  `search_rank` ensures it.

Only model-checked: liveness (`EveryRequestAnswered`, `PaymentsArrive`, `Ends`),
which is out of the reach of TLAPS.

## 5. State of the plan

All of the plan is done: the checkout core and its refinement; carts, pricing
and their endpoints; consents and payments; the signature check and the limiter;
the durable store; configuration and start-up; the clients; and the proofs of
each, which state every safety property the passing runs check.

Not modelled, and not planned:

* Ed25519, HMAC and digests (external; a signature is the key that made it), the
  wire format of webhooks, and the Orders API of Razorpay, which no handler
  calls.
* The formatting of JSON, `llms.txt`, agent cards, discovery documents and error
  bodies, the conversion of merchant data and the seed: no state, no choice.
* The routing table, and the request counters of the metrics middleware.
* Titles longer than 100000 bytes, where the subtraction in `search_rank` would
  wrap around (from 99000 on a match may rank below a tag, see section 4);
  `AITER_CONFIG`, which chooses another path for the one file.
* Availability, which is part of a product and read by nobody who sells it.
