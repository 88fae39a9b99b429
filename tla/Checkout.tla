------------------------------ MODULE Checkout ------------------------------
(***************************************************************************)
(* Completing and cancelling checkout sessions                             *)
(* (aiter-server/src/checkout/session.rs), with the spend caps, the agent  *)
(* registry and the audit log of AppState (aiter-server/src/catalog.rs).   *)
(*                                                                         *)
(* Each store sits behind an async mutex of its own.  A handler runs       *)
(* without interruption between two `lock().await` points, so an action    *)
(* goes from one such point to the next.  A lock that is not held across   *)
(* an await is taken and released inside one action; `complete_checkout`   *)
(* holds the orders lock and the sessions lock to its end, and a request   *)
(* at one of its later stages therefore holds them (RAII guards: the lock  *)
(* is free again as soon as the request is answered or dropped).           *)
(***************************************************************************)
EXTENDS Money, Fsm, Store, Sequences, FiniteSets, Functions

CONSTANTS
  Agents,             \* agent ids that may be registered
  DemoAgent,          \* the agent every fresh AppState knows
  DemoCap,            \* its spend cap
  Caps,               \* the caps register_agent may be called with
  Totals,             \* order totals the priced carts may have
  SessionIds,         \* ids gen_id("cs") may hand out
  Requests,           \* slots for requests in flight
  Mcp,                \* stands for the missing agent of an MCP completion
  MaxClock,           \* bound: the clock stops here
  MaxRegistrations,   \* bound: register_agent calls per agent
  MayDrop             \* whether a client may hang up on a running handler

ASSUME AgentsAssumption  == DemoAgent \in Agents /\ Mcp \notin Agents
ASSUME AmountsAssumption ==
  /\ Totals \subseteq Amount /\ \A t \in Totals : t.units >= 0
  /\ Caps \cup {DemoCap} \subseteq Amount
  /\ \A c \in Caps \cup {DemoCap} : c.units >= 0
ASSUME BoundsAssumption ==
  /\ MaxClock \in Nat /\ MaxRegistrations \in Nat
  /\ MayDrop \in BOOLEAN

VARIABLES
  sessions,        \* store: session id -> session
  orders,          \* store: session id -> order (the key is "ord-" + session id)
  agents,          \* store: agent id -> spend cap and what was spent of it
  audit,           \* the append-only log of receipts, oldest first
  completed,       \* the checkouts_completed counter
  requests,        \* the requests being served: their stage and their locals
  clock,           \* Unix time
  registrations,   \* how often each agent was registered (bounds Register)
  charges          \* history: every successful charge_agent, oldest first

vars == <<sessions, orders, agents, audit, completed, requests, clock,
          registrations, charges>>

\* Of a session, expires_at is left out: it is written once, and no code reads it.
Session  == [status : CheckoutStatus, total : Totals]
Order    == [total : Totals, status : OrderStatus]
Record   == [limit : Caps \cup {DemoCap}, spent : Amount]
Receipt  == [agent : Agents, order : SessionIds, amount : Totals, at : Nat]
Charge   == [agent : Agents, session : SessionIds, registration : Nat]

\* The lock().await points a request can be suspended at.
Stages == {"orders", "sessions", "agents", "audit", "cancel"}

\* The locals: `found` is the status in the handler's own copy of the session,
\* which it works on after the charge; the rest of a session never changes.
Request ==
  [stage : Stages, session : SessionIds, agent : Agents \cup {Mcp},
   found : CheckoutStatus, at : Nat]

At(r, stage) == Has(requests, r) /\ requests[r].stage = stage

\* Mutant: both locks are released before the audit log is awaited.
HoldsUntilCharged(r) == \E stage \in {"sessions", "agents"} : At(r, stage)

\* Mutant: a lock is not held across the charge.
HoldsAfterCharge(r) == At(r, "audit")

HoldsOrders(r) == \E stage \in {"sessions", "agents", "audit"} : At(r, stage)

\* A completion only takes the sessions lock while it holds the orders lock.
HoldsSessions(r) == HoldsOrders(r) /\ ~At(r, "sessions")

OrdersFree   == \A r \in Requests : ~HoldsOrders(r)
SessionsFree == \A r \in Requests : ~HoldsSessions(r)

GoTo(r, stage) == requests' = [requests EXCEPT ![r].stage = stage]
Answer(r)      == requests' = Without(requests, r)
-----------------------------------------------------------------------------
(* The environment: registrations, new sessions, requests, the clock.      *)

FreshRecord(cap) == [limit |-> cap, spent |-> Zero(cap.currency)]

\* AppState::register_agent: a second registration overwrites the record.
Register(a, cap) ==
  /\ registrations[a] < MaxRegistrations
  /\ registrations' = [registrations EXCEPT ![a] = @ + 1]
  /\ agents' = Put(agents, a, FreshRecord(cap))
  /\ UNCHANGED <<sessions, orders, audit, completed, requests, clock, charges>>

NewSession(total) == [status |-> "Pending", total |-> total]

\* The last step of create_checkout_session (module Carts has the others).
OpenSession(s, total) ==
  /\ SessionsFree
  /\ CanCreate(sessions, s)
  /\ sessions' = Put(sessions, s, NewSession(total))
  /\ UNCHANGED <<orders, agents, audit, completed, requests, clock,
                 registrations, charges>>

Arrive(r, stage, s, a) ==
  /\ ~Has(requests, r)
  /\ requests' = Put(requests, r,
                     [stage |-> stage, session |-> s, agent |-> a,
                      found |-> "Pending", at |-> 0])
  /\ UNCHANGED <<sessions, orders, agents, audit, completed, clock,
                 registrations, charges>>

\* Over HTTP require_signed has found the agent registered; the MCP tool
\* calls the handler without one.
CallComplete(r, s, a) == (a = Mcp \/ Has(agents, a)) /\ Arrive(r, "orders", s, a)
CallCancel(r, s)      == Arrive(r, "cancel", s, Mcp)

\* The model's clock only goes forward.  now() reads the system's clock, which
\* an administrator or NTP may set back; nothing but AuditChronological
\* depends on it.
Tick ==
  /\ clock < MaxClock
  /\ clock' = clock + 1
  /\ UNCHANGED <<sessions, orders, agents, audit, completed, requests,
                 registrations, charges>>

\* reconcile_payment, the other writer of the orders (module Payments has the
\* rest of it): a payment confirms a placed order.  It holds the orders lock,
\* and awaits nothing while it does.
ConfirmOrder(s) ==
  /\ OrdersFree
  /\ Has(orders, s) /\ orders[s].status = "Placed"
  /\ orders' = [orders EXCEPT ![s].status = OrderTarget["Confirm"]]
  /\ UNCHANGED <<sessions, agents, audit, completed, requests, clock,
                 registrations, charges>>
-----------------------------------------------------------------------------
(* complete_checkout                                                       *)

LockOrders(r) ==
  /\ At(r, "orders")
  /\ OrdersFree
  /\ GoTo(r, "sessions")
  /\ UNCHANGED <<sessions, orders, agents, audit, completed, clock,
                 registrations, charges>>

\* A session another completion, a cancellation or a failure closed is
\* refused; Paid falls through.
Completable(s) ==
  /\ Has(sessions, s)
  /\ sessions[s].status = "Paid" \/ sessions[s].status \notin CheckoutTerminal

\* Pending -> Ready -> Paid, and Paid stays Paid.
ApplyEvent(status, event) ==
  IF CanCheckout(status, event) THEN CheckoutTarget[event] ELSE status

PaidFrom(status) ==
  LET ready == IF status = "Pending" THEN ApplyEvent(status, "MarkReady")
                                     ELSE status
  IN  IF ready = "Paid" THEN ready ELSE ApplyEvent(ready, "MarkPaid")

NewOrder(s) == [total |-> sessions[s].total, status |-> "Placed"]

\* The order is created unless an event is illegal or create finds one; the
\* session is updated behind it.  A failure ends the handler with an error and
\* undoes nothing.
Creates(s, found)  == PaidFrom(found) = "Paid" /\ CanCreate(orders, s)
Finishes(s, found) == Creates(s, found) /\ CanUpdate(sessions, s)

Finalize(s, found) ==
  /\ orders' = IF Creates(s, found) THEN Put(orders, s, NewOrder(s)) ELSE orders
  /\ IF Finishes(s, found)
     THEN /\ sessions' = [sessions EXCEPT ![s].status = PaidFrom(found)]
          /\ completed' = completed + 1
     ELSE UNCHANGED <<sessions, completed>>

\* Existing order (the idempotent repeat), unknown session, closed session.
AnswerEarly(r) ==
  /\ At(r, "sessions")
  /\ SessionsFree
  /\ LET s == requests[r].session IN Has(orders, s) \/ ~Completable(s)
  /\ Answer(r)
  /\ UNCHANGED <<sessions, orders, agents, audit, completed, clock,
                 registrations, charges>>

AwaitAgents(r, status) ==
  requests' = [requests EXCEPT ![r].stage = "agents", ![r].found = status]

\* Without an agent there is nothing to charge and no receipt to write.
CompleteUncharged(r) ==
  /\ At(r, "sessions")
  /\ SessionsFree
  /\ requests[r].agent = Mcp
  /\ LET s == requests[r].session
     IN  ~Has(orders, s) /\ Completable(s) /\ Finalize(s, sessions[s].status)
  /\ Answer(r)
  /\ UNCHANGED <<agents, audit, clock, registrations, charges>>

\* Mutant: a completion without an agent is charged as well.
LockForAnyone(r) ==
  /\ At(r, "sessions")
  /\ SessionsFree
  /\ LET s == requests[r].session
     IN  /\ ~Has(orders, s) /\ Completable(s)
         /\ AwaitAgents(r, sessions[s].status)
  /\ UNCHANGED <<sessions, orders, agents, audit, completed, clock,
                 registrations, charges>>

LockSessions(r) ==
  /\ At(r, "sessions")
  /\ SessionsFree
  /\ requests[r].agent # Mcp
  /\ LET s == requests[r].session
     IN  /\ ~Has(orders, s) /\ Completable(s)
         /\ AwaitAgents(r, sessions[s].status)
  /\ UNCHANGED <<sessions, orders, agents, audit, completed, clock,
                 registrations, charges>>

\* Mutant: the charge replaces what was spent before.
LastCharge(a, total) == total.units

\* AppState::charge_agent adds raw i64 units.
SpentAfter(a, total) == WrapAdd(agents[a].spent.units, total.units)

MayCharge(a, total) ==
  /\ Has(agents, a)
  /\ agents[a].limit.currency = total.currency
  /\ SpentAfter(a, total) <= agents[a].limit.units

ChargeOf(req) ==
  [agent |-> req.agent, session |-> req.session,
   registration |-> registrations[req.agent]]

\* Behind a successful charge the request waits for the audit log, or it is
\* answered with an error and the charge stays.
ChargeAgent(r) ==
  /\ At(r, "agents")
  /\ LET a == requests[r].agent
         s == requests[r].session
         found == requests[r].found
         total == sessions[s].total
     IN  /\ MayCharge(a, total)
         /\ agents' = [agents EXCEPT ![a].spent.units = SpentAfter(a, total)]
         /\ charges' = Append(charges, ChargeOf(requests[r]))
         /\ Finalize(s, found)
         /\ IF Finishes(s, found)
            THEN requests' = [requests EXCEPT ![r].stage = "audit", ![r].at = clock]
            ELSE Answer(r)
  /\ UNCHANGED <<audit, clock, registrations>>

\* Mutant: a refused charge is tried again, with the locks held.
RetryCharge(r) ==
  /\ At(r, "agents")
  /\ ~MayCharge(requests[r].agent, sessions[requests[r].session].total)
  /\ GoTo(r, "agents")
  /\ UNCHANGED <<sessions, orders, agents, audit, completed, clock,
                 registrations, charges>>

RefuseCharge(r) ==
  /\ At(r, "agents")
  /\ ~MayCharge(requests[r].agent, sessions[requests[r].session].total)
  /\ Answer(r)
  /\ UNCHANGED <<sessions, orders, agents, audit, completed, clock,
                 registrations, charges>>

\* Mutant: every receipt names the demo agent.
DemoReceipt(req) ==
  [agent |-> DemoAgent, order |-> req.session,
   amount |-> orders[req.session].total, at |-> req.at]

ReceiptOf(req) ==
  [agent |-> req.agent, order |-> req.session,
   amount |-> orders[req.session].total, at |-> req.at]

\* Mutant: an agent has one receipt only.
PushFirstOfAgent(r) ==
  /\ At(r, "audit")
  /\ audit' = IF \E i \in DOMAIN audit : audit[i].agent = requests[r].agent
              THEN audit ELSE Append(audit, ReceiptOf(requests[r]))
  /\ Answer(r)
  /\ UNCHANGED <<sessions, orders, agents, completed, clock, registrations,
                 charges>>

PushReceipt(r) ==
  /\ At(r, "audit")
  /\ audit' = Append(audit, ReceiptOf(requests[r]))
  /\ Answer(r)
  /\ UNCHANGED <<sessions, orders, agents, completed, clock, registrations,
                 charges>>
-----------------------------------------------------------------------------
(* cancel_checkout                                                         *)

\* Mutant: the status is overwritten, without asking whether the edge is legal.
CancelAny(r) ==
  /\ At(r, "cancel")
  /\ SessionsFree
  /\ LET s == requests[r].session
     IN  sessions' = IF Has(sessions, s)
                     THEN [sessions EXCEPT ![s].status = "Cancelled"]
                     ELSE sessions
  /\ Answer(r)
  /\ UNCHANGED <<orders, agents, audit, completed, clock, registrations,
                 charges>>

\* Unknown sessions and the illegal Paid -> Cancelled edge are refused; a
\* session already cancelled stays so.
CancelSession(r) ==
  /\ At(r, "cancel")
  /\ SessionsFree
  /\ LET s == requests[r].session
     IN  sessions' = IF Has(sessions, s)
                     THEN [sessions EXCEPT ![s].status =
                             ApplyEvent(@, "MarkCancelled")]
                     ELSE sessions
  /\ Answer(r)
  /\ UNCHANGED <<orders, agents, audit, completed, clock, registrations,
                 charges>>

\* The client hangs up: the handler's future is dropped where it is
\* suspended, which releases its locks.
HangUp(r) ==
  /\ MayDrop
  /\ Has(requests, r)
  /\ Answer(r)
  /\ UNCHANGED <<sessions, orders, agents, audit, completed, clock,
                 registrations, charges>>
-----------------------------------------------------------------------------
Init ==
  /\ sessions = EmptyStore
  /\ orders = EmptyStore
  /\ agents = [a \in {DemoAgent} |-> FreshRecord(DemoCap)]
  /\ audit = <<>>
  /\ completed = 0
  /\ requests = EmptyStore
  /\ clock = 0
  /\ registrations = [a \in Agents |-> 0]
  /\ charges = <<>>

\* One step of the handler serving r.
Serve(r) ==
  \/ LockOrders(r)
  \/ AnswerEarly(r)
  \/ CompleteUncharged(r)
  \/ LockSessions(r)
  \/ ChargeAgent(r)
  \/ RefuseCharge(r)
  \/ PushReceipt(r)
  \/ CancelSession(r)

Next ==
  \/ \E a \in Agents, cap \in Caps : Register(a, cap)
  \/ \E s \in SessionIds, total \in Totals : OpenSession(s, total)
  \/ \E r \in Requests, s \in SessionIds, a \in Agents \cup {Mcp} :
       CallComplete(r, s, a)
  \/ \E r \in Requests, s \in SessionIds : CallCancel(r, s)
  \/ \E r \in Requests : Serve(r) \/ HangUp(r)
  \/ \E s \in SessionIds : ConfirmOrder(s)
  \/ Tick

Spec == Init /\ [][Next]_vars

\* tokio's mutex is fair (waiters are served in order), so a handler whose
\* lock is free again and again gets it.  The environment owes nothing.
Fairness == \A r \in Requests : SF_vars(Serve(r))

FairSpec == Spec /\ Fairness
-----------------------------------------------------------------------------
(* Properties                                                              *)

\* Every variable stays in its type.
TypeOK ==
  /\ DOMAIN sessions \subseteq SessionIds
  /\ \A s \in DOMAIN sessions : sessions[s] \in Session
  /\ DOMAIN orders \subseteq SessionIds
  /\ \A s \in DOMAIN orders : orders[s] \in Order
  /\ DOMAIN agents \subseteq Agents
  /\ \A a \in DOMAIN agents : agents[a] \in Record
  /\ audit \in Seq(Receipt)
  /\ completed \in Nat
  /\ DOMAIN requests \subseteq Requests
  /\ \A r \in DOMAIN requests : requests[r] \in Request
  /\ clock \in Nat
  /\ registrations \in [Agents -> Nat]
  /\ charges \in Seq(Charge)

\* A session is Paid exactly when its order exists, and the order is over the
\* total the session was opened with: complete_checkout writes the two stores
\* with both locks held, and nothing else closes a session that way.
PaidIffOrdered ==
  /\ DOMAIN orders \subseteq DOMAIN sessions
  /\ \A s \in DOMAIN sessions : sessions[s].status = "Paid" <=> Has(orders, s)
  /\ \A s \in DOMAIN orders : orders[s].total = sessions[s].total

\* What complete_checkout found before it waited for the agents lock still
\* holds when it has it: the session has no order and can be paid, and the
\* copy the handler works on is what the store holds; so the error branches
\* behind a successful charge are dead.
NoLateError ==
  \A r \in DOMAIN requests : requests[r].stage = "agents" =>
    LET s == requests[r].session
    IN  /\ ~Has(orders, s) /\ Completable(s)
        /\ requests[r].found = sessions[s].status
        /\ Finishes(s, requests[r].found)

\* Whatever the number of agents and retries that complete a session, at most
\* one charge_agent succeeds for it, and then its order exists: the check for
\* an order comes before the await of the charge, and the writes that can fail
\* after it.
ChargedOnce ==
  /\ \A i, j \in DOMAIN charges : charges[i].session = charges[j].session => i = j
  /\ \A i \in DOMAIN charges : Has(orders, charges[i].session)

\* An agent's spend never passes the cap of its registration.
WithinCap == \A a \in DOMAIN agents : agents[a].spent.units <= agents[a].limit.units

\* What a charge came to, and the charges of an agent's present registration.
ChargedUnits == [i \in DOMAIN charges |-> sessions[charges[i].session].total.units]
ChargesOf(a) ==
  {i \in DOMAIN charges :
     charges[i].agent = a /\ charges[i].registration = registrations[a]}

\* spent is the sum of the orders charged to the agent since it was last
\* registered: no charge is lost and none is added twice, as long as no sum
\* leaves the range of an i64.
SpentIsCharged ==
  \A a \in DOMAIN agents :
    agents[a].spent.units = SumFunctionOnSet(ChargedUnits, ChargesOf(a))

\* No order has two receipts, and a receipt names the agent that was charged
\* for its order and the order's total.
ReceiptsMatchCharges ==
  /\ \A i, j \in DOMAIN audit : audit[i].order = audit[j].order => i = j
  /\ \A i \in DOMAIN audit :
       /\ \E k \in DOMAIN charges :
            charges[k].agent = audit[i].agent /\ charges[k].session = audit[i].order
       /\ audit[i].amount = orders[audit[i].order].total

\* Receipts are in the order of the times they bear, although the time is
\* read before the audit lock is awaited; as long as the system's clock is not
\* set back.
AuditChronological ==
  \A i, j \in DOMAIN audit : i < j => audit[i].at <= audit[j].at

\* checkouts_completed counts each order once, repeats not at all.
CompletedCountsOrders == completed = Cardinality(DOMAIN orders)

\* A charge that is not being written to the audit log any more is in it
\* (README, "Behavioral guarantees": each completed signed checkout appends
\* exactly one receipt).
EveryChargeHasReceipt ==
  \A k \in DOMAIN charges :
    \/ \E i \in DOMAIN audit : audit[i].order = charges[k].session
    \/ \E r \in Requests : At(r, "audit") /\ requests[r].session = charges[k].session

\* An order never disappears, no later completion or cancellation replaces it,
\* and all that a webhook does to it is to confirm it; a session that is Paid
\* or Cancelled is never changed again.
ClosedForGood ==
  [][/\ \A s \in DOMAIN orders :
          /\ Has(orders', s)
          /\ orders'[s] \in {orders[s], [orders[s] EXCEPT !.status = "Confirmed"]}
     /\ \A s \in DOMAIN sessions :
          sessions[s].status \in CheckoutTerminal =>
            Has(sessions', s) /\ sessions'[s] = sessions[s]]_vars

\* The audit log only grows, at its end, by one receipt at a time.
AuditAppendOnly ==
  [][/\ Len(audit') = Len(audit) + 1
     /\ \A i \in DOMAIN audit : audit'[i] = audit[i]]_audit

\* No handler waits for ever: the locks are always released, and nobody who
\* holds one waits for a holder that waits for it.
EveryRequestAnswered ==
  \A r \in Requests : Has(requests, r) ~> ~Has(requests, r)

-----------------------------------------------------------------------------
(* The inductive invariant                                                 *)

\* The orders lock has one holder, and hence the sessions lock, which a
\* completion only takes while it holds the orders lock.
Exclusion == \A q, r \in Requests : HoldsOrders(q) /\ HoldsOrders(r) => q = r

\* The agents and the audit log are only waited for on behalf of an agent.
OnBehalfOfAgent ==
  \A r \in DOMAIN requests :
    requests[r].stage \in {"agents", "audit"} => requests[r].agent \in Agents

\* A completion that waits for the audit log was charged and created its
\* order, and its receipt is not written yet.
ReceiptDue ==
  \A r \in DOMAIN requests : requests[r].stage = "audit" =>
    /\ Has(orders, requests[r].session)
    /\ \E k \in DOMAIN charges :
         /\ charges[k].agent = requests[r].agent
         /\ charges[k].session = requests[r].session
    /\ \A i \in DOMAIN audit : audit[i].order # requests[r].session

\* Only orders have receipts.
ReceiptsHaveOrders == \A i \in DOMAIN audit : Has(orders, audit[i].order)

\* Ready only occurs inside a completion, Failed not at all.
NeverReady ==
  \A s \in DOMAIN sessions : sessions[s].status \in {"Pending", "Paid", "Cancelled"}

\* The time of a receipt, written or due, was read before now, and a receipt
\* that is due was dated after all that are written.
ReceiptsTimely ==
  /\ \A i \in DOMAIN audit : audit[i].at <= clock
  /\ \A r \in DOMAIN requests : requests[r].stage = "audit" =>
       /\ requests[r].at <= clock
       /\ \A i \in DOMAIN audit : audit[i].at <= requests[r].at

\* No charge is from a registration still to come.
ChargesPast ==
  \A i \in DOMAIN charges : charges[i].registration <= registrations[charges[i].agent]

\* Together they are preserved by every step, and imply the invariants above.
IInv ==
  /\ TypeOK
  /\ Exclusion
  /\ PaidIffOrdered
  /\ NoLateError
  /\ OnBehalfOfAgent
  /\ ChargedOnce
  /\ WithinCap
  /\ ReceiptDue
  /\ ReceiptsHaveOrders
  /\ ReceiptsMatchCharges
  /\ NeverReady
  /\ AuditChronological
  /\ ReceiptsTimely
  /\ IsFiniteSet(DOMAIN orders) /\ CompletedCountsOrders
  /\ ChargesPast
-----------------------------------------------------------------------------
(* Refinement of CheckoutSpec                                              *)

\* A completion takes effect in ChargeAgent (or CompleteUncharged): the
\* receipt the request is still to push counts as written from then on.
Receipted ==
  {[agent |-> audit[i].agent, order |-> audit[i].order, amount |-> audit[i].amount] :
      i \in DOMAIN audit}
    \cup
  {[agent |-> requests[r].agent, order |-> requests[r].session,
    amount |-> sessions[requests[r].session].total] :
      r \in {q \in DOMAIN requests : requests[q].stage = "audit"}}

Promise == INSTANCE CheckoutSpec WITH
  status   <- [s \in DOMAIN sessions |-> sessions[s].status],
  total    <- [s \in DOMAIN sessions |-> sessions[s].total],
  account  <- [a \in DOMAIN agents |->
                [limit |-> agents[a].limit, spent |-> agents[a].spent.units]],
  receipts <- Receipted

\* The handlers, interleaved at every await, look like the atomic checkout as
\* long as no client hangs up and no sum leaves the range of an i64.
KeepsPromise == Promise!SSpec
=============================================================================
