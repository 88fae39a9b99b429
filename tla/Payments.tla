------------------------------ MODULE Payments ------------------------------
(***************************************************************************)
(* The payments rail: payment links (payments/api.rs, order_payment_link)  *)
(* and the reconciliation of Razorpay's webhooks (payments/webhook.rs)     *)
(* with the orders and their status machine (aiter-core/src/order.rs).     *)
(*                                                                         *)
(* A webhook is handled in one go: it reads nothing before it has the      *)
(* orders lock and waits for nothing after.  Minting a link copies the     *)
(* order under the lock and then awaits Razorpay's answer without it.      *)
(*                                                                         *)
(* Razorpay is external: it keeps the links it was asked for and what was  *)
(* paid, and delivers each payment any number of times, in any order.      *)
(***************************************************************************)
EXTENDS Money, Fsm, Store, Sequences

CONSTANTS
  OrderIds,       \* ids of orders
  Totals,         \* their totals
  Links,          \* payment links; the payment of a link bears its name
  Elsewhere,      \* payments that were not made through one of our links
  Requests,       \* slots for order_payment_link requests in flight
  NoPayment,      \* payment_reference: None
  Unreported,     \* a webhook without a currency
  MaxDeliveries   \* bound: deliveries the model counts

ASSUME TotalsAssumption == Totals \subseteq Amount
ASSUME NamesAssumption ==
  /\ NoPayment \notin Links \cup Elsewhere /\ Links \cap Elsewhere = {}
  /\ Unreported \notin Currencies /\ MaxDeliveries \in Nat

VARIABLES
  orders,             \* store: order id -> order
  requests,           \* the order_payment_link requests that wait for Razorpay
  links,              \* Razorpay: link -> the order and the amount it is for
  payments,           \* Razorpay: payment -> its order_id note and its amount
  webhooks_verified   \* the counter

vars == <<orders, requests, links, payments, webhooks_verified>>

PaymentIds == Links \cup Elsewhere
Order ==
  [total : Totals, status : OrderStatus, timeline : Seq(OrderStatus),
   payment_reference : PaymentIds \cup {NoPayment}]
Link    == [order : OrderIds, amount : Totals]
Payment == [order : OrderIds, units : Units, currency : Currencies \cup {Unreported}]

\* Order::new, as complete_checkout calls it (module Checkout).
NewOrder(total) ==
  [total |-> total, status |-> "Placed", timeline |-> <<"Placed">>,
   payment_reference |-> NoPayment]

PlaceOrder(o, total) ==
  /\ CanCreate(orders, o)
  /\ orders' = Put(orders, o, NewOrder(total))
  /\ UNCHANGED <<requests, links, payments, webhooks_verified>>
-----------------------------------------------------------------------------
(* order_payment_link                                                      *)

\* Mutant: a link is for the smallest of the totals.
CheapLink(o) == [order |-> o, amount |-> CHOOSE t \in Totals : \A u \in Totals : t.units <= u.units]

\* The body of POST /v1/payment_links, partial payments refused.
LinkFor(o) == [order |-> o, amount |-> orders[o].total]

\* An order that is already paid is refused.
ReadOrder(r, o) ==
  /\ ~Has(requests, r)
  /\ Has(orders, o) /\ orders[o].payment_reference = NoPayment
  /\ requests' = Put(requests, r, LinkFor(o))
  /\ UNCHANGED <<orders, links, payments, webhooks_verified>>

\* Razorpay mints the link, whether its answer arrives or not.
MintLink(r, l) ==
  /\ Has(requests, r)
  /\ ~Has(links, l)
  /\ links' = Put(links, l, requests[r])
  /\ requests' = Without(requests, r)
  /\ UNCHANGED <<orders, payments, webhooks_verified>>

\* The call fails, or the client hangs up before it was made.
LinkFails(r) ==
  /\ Has(requests, r)
  /\ requests' = Without(requests, r)
  /\ UNCHANGED <<orders, links, payments, webhooks_verified>>
-----------------------------------------------------------------------------
(* Razorpay                                                                *)

\* A buyer pays a link, in full.
PayLink(l) ==
  /\ Has(links, l) /\ ~Has(payments, l)
  /\ payments' = Put(payments, l,
       [order |-> links[l].order, units |-> links[l].amount.units,
        currency |-> links[l].amount.currency])
  /\ UNCHANGED <<orders, requests, links, webhooks_verified>>

\* A payment that names an order of ours was made in another way: any amount,
\* perhaps without a currency.
PayElsewhere(p, o, units, currency) ==
  /\ ~Has(payments, p)
  /\ payments' = Put(payments, p, [order |-> o, units |-> units, currency |-> currency])
  /\ UNCHANGED <<orders, requests, links, webhooks_verified>>
-----------------------------------------------------------------------------
(* razorpay_webhook: deliveries whose signature verifies                   *)

\* Mutant: the currency is not compared.
AmountOnly(payment, order) == payment.units = order.total.units

\* The amount has to be the order's total; currency_matches accepts a webhook
\* that names no currency.
Matches(payment, order) ==
  /\ payment.units = order.total.units
  /\ payment.currency \in {Unreported, order.total.currency}

\* Mutant: an order that was paid is driven by the next payment again.
Driven(p) ==
  LET o == payments[p].order
  IN  /\ Has(orders, o)
      /\ Matches(payments[p], orders[o])
      /\ CanOrder(orders[o].status, "Confirm")

\* What reconcile_payment asks for before it touches the order.
Reconcilable(p) ==
  LET o == payments[p].order
  IN  /\ Has(orders, o) /\ orders[o].payment_reference = NoPayment
      /\ Matches(payments[p], orders[o])
      /\ CanOrder(orders[o].status, "Confirm")

\* Order::apply_event for a legal event.
ApplyOrderEvent(order, event) ==
  IF order.status = OrderTarget[event] THEN order
  ELSE [order EXCEPT !.status = OrderTarget[event],
                     !.timeline = Append(@, OrderTarget[event])]

\* Bound: the counter stops at MaxDeliveries, the deliveries do not.
Counted ==
  webhooks_verified' = IF webhooks_verified < MaxDeliveries THEN webhooks_verified + 1
                                                            ELSE webhooks_verified

\* Mutant: the order is confirmed, the payment's id is not written.
ConfirmOnly(p) ==
  /\ Has(payments, p) /\ Reconcilable(p)
  /\ LET o == payments[p].order
     IN  orders' = [orders EXCEPT ![o] = ApplyOrderEvent(@, "Confirm")]
  /\ Counted
  /\ UNCHANGED <<requests, links, payments>>

\* payment.paid: the order is confirmed and bears the payment's id.
Reconcile(p) ==
  /\ Has(payments, p) /\ Reconcilable(p)
  /\ LET o == payments[p].order
     IN  orders' = [orders EXCEPT ![o] =
           [ApplyOrderEvent(@, "Confirm") EXCEPT !.payment_reference = p]]
  /\ Counted
  /\ UNCHANGED <<requests, links, payments>>

\* payment.paid for an order that is paid: by the same payment or by another.
AlreadyPaid(p) ==
  /\ Has(payments, p)
  /\ LET o == payments[p].order
     IN  Has(orders, o) /\ orders[o].payment_reference # NoPayment
  /\ Counted
  /\ UNCHANGED <<orders, requests, links, payments>>

\* A verified event that is not payment.paid is acknowledged, and counted.  One
\* that carries no payment entity, or a payment.paid without the id of an
\* order, is answered with an error and changes nothing, which is a stutter.
IgnoreEvent ==
  /\ Counted
  /\ UNCHANGED <<orders, requests, links, payments>>

\* An unknown order, another amount, an order that cannot be confirmed: an
\* error, after which Razorpay delivers the payment again.
RefuseDelivery(p) ==
  /\ Has(payments, p)
  /\ LET o == payments[p].order
     IN  Has(orders, o) => orders[o].payment_reference = NoPayment
  /\ ~Reconcilable(p)
  /\ UNCHANGED vars
-----------------------------------------------------------------------------
Init ==
  /\ orders = EmptyStore
  /\ requests = EmptyStore
  /\ links = EmptyStore
  /\ payments = EmptyStore
  /\ webhooks_verified = 0

Next ==
  \/ \E o \in OrderIds, total \in Totals : PlaceOrder(o, total)
  \/ \E r \in Requests :
       \/ \E o \in OrderIds : ReadOrder(r, o)
       \/ \E l \in Links : MintLink(r, l)
       \/ LinkFails(r)
  \/ \E l \in Links : PayLink(l)
  \/ \E p \in Elsewhere, o \in OrderIds, units \in {t.units : t \in Totals},
        currency \in Currencies \cup {Unreported} : PayElsewhere(p, o, units, currency)
  \/ \E p \in PaymentIds : Reconcile(p) \/ AlreadyPaid(p) \/ RefuseDelivery(p)
  \/ IgnoreEvent

Spec == Init /\ [][Next]_vars

\* Razorpay delivers a payment until the delivery is acknowledged.
FairSpec == Spec /\ \A p \in PaymentIds : WF_vars(Reconcile(p))
-----------------------------------------------------------------------------
(* Properties                                                              *)

\* Every variable stays in its type.
TypeOK ==
  /\ DOMAIN orders \subseteq OrderIds
  /\ \A o \in DOMAIN orders : orders[o] \in Order
  /\ DOMAIN requests \subseteq Requests
  /\ \A r \in DOMAIN requests : requests[r] \in Link
  /\ DOMAIN links \subseteq Links
  /\ \A l \in DOMAIN links : links[l] \in Link
  /\ DOMAIN payments \subseteq PaymentIds
  /\ \A p \in DOMAIN payments : payments[p] \in Payment
  /\ webhooks_verified \in Nat

\* The payment an order bears was made for this order, over exactly its total,
\* and in its currency if a currency was reported, whatever else was delivered
\* for the order, how often and in which order.
PaidInFull ==
  \A o \in DOMAIN orders : LET p == orders[o].payment_reference IN
    p # NoPayment =>
      /\ Has(payments, p) /\ payments[p].order = o
      /\ payments[p].units = orders[o].total.units
      /\ payments[p].currency \in {Unreported, orders[o].total.currency}

\* An order is confirmed exactly when it bears a payment, and its timeline has
\* one entry for each status it went through.
ConfirmedByPayment ==
  \A o \in DOMAIN orders :
    /\ orders[o].timeline = IF orders[o].payment_reference = NoPayment
                            THEN <<"Placed">> ELSE <<"Placed", "Confirmed">>
    /\ orders[o].status = orders[o].timeline[Len(orders[o].timeline)]

\* Once an order is paid no delivery changes it: not the same payment again,
\* not the payment of a second link.
PaidForGood ==
  [][\A o \in DOMAIN orders :
       /\ Has(orders', o) /\ orders'[o].total = orders[o].total
       /\ orders[o].payment_reference # NoPayment => orders'[o] = orders[o]]_vars

\* A paid link is reconciled: its order ends up bearing a payment.
PaymentsArrive ==
  \A l \in Links :
    Has(payments, l) ~>
      /\ Has(payments, l) /\ Has(orders, payments[l].order)
      /\ orders[payments[l].order].payment_reference # NoPayment
-----------------------------------------------------------------------------
\* The inductive invariant: links and requests for links are for orders that
\* exist, over their total.
LinksMatchOrders ==
  /\ \A r \in DOMAIN requests :
       Has(orders, requests[r].order)
         /\ requests[r].amount = orders[requests[r].order].total
  /\ \A l \in DOMAIN links :
       Has(orders, links[l].order) /\ links[l].amount = orders[links[l].order].total

IInv == TypeOK /\ PaidInFull /\ ConfirmedByPayment /\ LinksMatchOrders
=============================================================================
