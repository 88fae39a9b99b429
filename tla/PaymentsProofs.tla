--------------------------- MODULE PaymentsProofs ---------------------------
(***************************************************************************)
(* The two rails of money.  What a reconciled order says of its payment,   *)
(* for any orders, totals, links and payments; and the limits of the       *)
(* consent ledger for any limits and debits in the range of an i64.        *)
(***************************************************************************)
EXTENDS Payments, ReservePay, SequenceTheorems, TLAPS
-----------------------------------------------------------------------------
(* Payment links and webhooks                                              *)

\* The timeline of an order that was placed and then confirmed.
LEMMA AppendOne ==
  ASSUME NEW s, NEW e
  PROVE  Append(<<s>>, e) = <<s, e>>
  <1>1. Append(<<s>>, e) \in Seq({s, e}) /\ <<s, e>> \in Seq({s, e}) /\ <<s>> \in Seq({s, e})
    OBVIOUS
  <1>2. Len(Append(<<s>>, e)) = 2 /\ Len(<<s, e>>) = 2
    OBVIOUS
  <1>3. Append(<<s>>, e)[1] = s /\ Append(<<s>>, e)[2] = e
    BY <1>1
  <1>4. \A i \in 1..2 : Append(<<s>>, e)[i] = <<s, e>>[i]
    BY <1>3
  <1> QED BY <1>1, <1>2, <1>4, SeqEqual

\* Without orders there is nothing to violate.
LEMMA InvInit == Init => IInv
  BY DEF Init, EmptyStore, IInv, TypeOK, PaidInFull, ConfirmedByPayment, LinksMatchOrders

\* A new order is unpaid, and no link is for it yet.
LEMMA PlaceInv ==
  ASSUME IInv, NEW o \in OrderIds, NEW total \in Totals, PlaceOrder(o, total)
  PROVE  IInv'
  <1> DEFINE new == NewOrder(total)
  <1>1. /\ new \in Order /\ new.payment_reference = NoPayment /\ new.total = total
        /\ new.timeline = <<"Placed">> /\ new.status = new.timeline[Len(new.timeline)]
    BY DEF NewOrder, Order, OrderStatus
  <1>2. /\ o \notin DOMAIN orders /\ orders' = Put(orders, o, new)
        /\ UNCHANGED <<requests, links, payments, webhooks_verified>>
    BY DEF PlaceOrder, CanCreate, Has
  <1> HIDE DEF new
  <1>3. /\ DOMAIN orders' = DOMAIN orders \cup {o} /\ orders'[o] = new
        /\ \A x \in DOMAIN orders : orders'[x] = orders[x]
    BY <1>2 DEF Put
  <1>4. TypeOK'
    BY <1>1, <1>2, <1>3 DEF IInv, TypeOK
  <1>5. PaidInFull'
    BY <1>1, <1>2, <1>3 DEF IInv, PaidInFull
  <1>6. ConfirmedByPayment'
    BY <1>1, <1>2, <1>3 DEF IInv, ConfirmedByPayment
  <1>7. LinksMatchOrders'
    BY <1>2, <1>3 DEF IInv, LinksMatchOrders, Has
  <1> QED BY <1>4, <1>5, <1>6, <1>7 DEF IInv

\* A request for a link is for an order of the store, over its total.
LEMMA ReadInv ==
  ASSUME IInv, NEW r \in Requests, NEW o \in OrderIds, ReadOrder(r, o)
  PROVE  IInv'
  <1>1. /\ r \notin DOMAIN requests /\ o \in DOMAIN orders
        /\ requests' = Put(requests, r, LinkFor(o))
        /\ UNCHANGED <<orders, links, payments, webhooks_verified>>
    BY DEF ReadOrder, Has
  <1>2. /\ DOMAIN requests' = DOMAIN requests \cup {r} /\ requests'[r] = LinkFor(o)
        /\ \A x \in DOMAIN requests : requests'[x] = requests[x]
    BY <1>1 DEF Put
  <1>3. LinkFor(o) \in Link /\ LinkFor(o).order = o /\ LinkFor(o).amount = orders[o].total
    BY <1>1 DEF LinkFor, Link, IInv, TypeOK, Order
  <1>4. TypeOK'
    BY <1>1, <1>2, <1>3 DEF IInv, TypeOK
  <1>5. PaidInFull' /\ ConfirmedByPayment'
    BY <1>1 DEF IInv, PaidInFull, ConfirmedByPayment
  <1>6. LinksMatchOrders'
    BY <1>1, <1>2, <1>3 DEF IInv, LinksMatchOrders, Has
  <1> QED BY <1>4, <1>5, <1>6 DEF IInv

\* The link is what the request asked for.
LEMMA MintInv ==
  ASSUME IInv, NEW r \in Requests, NEW l \in Links, MintLink(r, l)
  PROVE  IInv'
  <1>1. /\ r \in DOMAIN requests /\ l \notin DOMAIN links
        /\ links' = Put(links, l, requests[r]) /\ requests' = Without(requests, r)
        /\ UNCHANGED <<orders, payments, webhooks_verified>>
    BY DEF MintLink, Has
  <1>2. /\ DOMAIN links' = DOMAIN links \cup {l} /\ links'[l] = requests[r]
        /\ \A x \in DOMAIN links : links'[x] = links[x]
        /\ DOMAIN requests' = DOMAIN requests \ {r}
        /\ \A x \in DOMAIN requests \ {r} : requests'[x] = requests[x]
    BY <1>1 DEF Put, Without
  <1>3. TypeOK'
    BY <1>1, <1>2 DEF IInv, TypeOK
  <1>4. PaidInFull' /\ ConfirmedByPayment'
    BY <1>1 DEF IInv, PaidInFull, ConfirmedByPayment
  <1>5. LinksMatchOrders'
    BY <1>1, <1>2 DEF IInv, LinksMatchOrders, Has
  <1> QED BY <1>3, <1>4, <1>5 DEF IInv

\* A request that fails leaves nothing behind.
LEMMA FailInv ==
  ASSUME IInv, NEW r \in Requests, LinkFails(r)
  PROVE  IInv'
  <1>1. /\ requests' = Without(requests, r)
        /\ UNCHANGED <<orders, links, payments, webhooks_verified>>
    BY DEF LinkFails
  <1>2. /\ DOMAIN requests' = DOMAIN requests \ {r}
        /\ \A x \in DOMAIN requests \ {r} : requests'[x] = requests[x]
    BY <1>1 DEF Without
  <1>3. TypeOK' /\ LinksMatchOrders'
    BY <1>1, <1>2 DEF IInv, TypeOK, LinksMatchOrders, Has
  <1>4. PaidInFull' /\ ConfirmedByPayment'
    BY <1>1 DEF IInv, PaidInFull, ConfirmedByPayment
  <1> QED BY <1>3, <1>4 DEF IInv

\* A payment made at Razorpay changes no order, and no payment made before.
LEMMA NewPaymentInv ==
  ASSUME IInv, NEW p \in PaymentIds, p \notin DOMAIN payments, NEW pay \in Payment,
         payments' = Put(payments, p, pay),
         UNCHANGED <<orders, requests, links, webhooks_verified>>
  PROVE  IInv'
  <1>1. /\ DOMAIN payments' = DOMAIN payments \cup {p} /\ payments'[p] = pay
        /\ \A x \in DOMAIN payments : payments'[x] = payments[x]
    BY DEF Put
  <1>2. TypeOK'
    BY <1>1 DEF IInv, TypeOK
  <1>3. PaidInFull'
    BY <1>1 DEF IInv, PaidInFull, Has
  <1>4. ConfirmedByPayment' /\ LinksMatchOrders'
    BY DEF IInv, ConfirmedByPayment, LinksMatchOrders
  <1> QED BY <1>2, <1>3, <1>4 DEF IInv

\* The payment of a link, and one that was not made through a link.
LEMMA PayInv ==
  ASSUME IInv
  PROVE  /\ \A l \in Links : PayLink(l) => IInv'
         /\ \A p \in Elsewhere, o \in OrderIds, units \in {t.units : t \in Totals},
               currency \in Currencies \cup {Unreported} :
               PayElsewhere(p, o, units, currency) => IInv'
  <1>1. ASSUME NEW l \in Links, PayLink(l) PROVE IInv'
    <2> DEFINE pay == [order |-> links[l].order, units |-> links[l].amount.units,
                       currency |-> links[l].amount.currency]
    <2>1. links[l] \in Link
      BY <1>1 DEF PayLink, Has, IInv, TypeOK
    <2>2. pay \in Payment
      BY <2>1, TotalsAssumption DEF Link, Payment, Amount
    <2> QED BY <1>1, <2>2, NewPaymentInv DEF PayLink, Has, PaymentIds
  <1>2. ASSUME NEW p \in Elsewhere, NEW o \in OrderIds, NEW units \in {t.units : t \in Totals},
               NEW currency \in Currencies \cup {Unreported},
               PayElsewhere(p, o, units, currency)
        PROVE  IInv'
    <2>1. [order |-> o, units |-> units, currency |-> currency] \in Payment
      BY TotalsAssumption DEF Payment, Amount
    <2> QED BY <1>2, <2>1, NewPaymentInv DEF PayElsewhere, Has, PaymentIds
  <1> QED BY <1>1, <1>2

\* A reconciled payment confirms a placed order that bore none, over the
\* order's total, and touches no other order.
LEMMA ReconcileEffect ==
  ASSUME IInv, NEW p \in PaymentIds, Reconcile(p)
  PROVE  LET o == payments[p].order IN
         /\ p \in DOMAIN payments /\ o \in DOMAIN orders
         /\ orders[o].payment_reference = NoPayment /\ p # NoPayment
         /\ Matches(payments[p], orders[o])
         /\ DOMAIN orders' = DOMAIN orders
         /\ \A x \in DOMAIN orders : x # o => orders'[x] = orders[x]
         /\ orders'[o] \in Order /\ orders'[o].total = orders[o].total
         /\ orders'[o].status = "Confirmed" /\ orders'[o].payment_reference = p
         /\ orders'[o].timeline = <<"Placed", "Confirmed">>
  <1> DEFINE o == payments[p].order
             confirmed == ApplyOrderEvent(orders[o], "Confirm")
  <1>1. /\ p \in DOMAIN payments /\ o \in DOMAIN orders
        /\ orders[o].payment_reference = NoPayment
        /\ Matches(payments[p], orders[o])
        /\ orders' = [orders EXCEPT ![o] = [confirmed EXCEPT !.payment_reference = p]]
    BY DEF Reconcile, Reconcilable, Has
  <1> HIDE DEF o
  <1>2. orders[o] \in Order /\ orders[o].timeline = <<"Placed">>
    BY <1>1 DEF IInv, TypeOK, ConfirmedByPayment
  <1>3. orders[o].status = "Placed"
    <2>1. orders[o].status = orders[o].timeline[Len(orders[o].timeline)]
      BY <1>1 DEF IInv, ConfirmedByPayment
    <2>2. <<"Placed">>[Len(<<"Placed">>)] = "Placed"
      OBVIOUS
    <2> QED BY <1>2, <2>1, <2>2
  <1>4. Append(orders[o].timeline, "Confirmed") = <<"Placed", "Confirmed">>
    BY <1>2, AppendOne, Zenon
  <1>5. confirmed = [orders[o] EXCEPT !.status = "Confirmed",
                                      !.timeline = <<"Placed", "Confirmed">>]
    BY <1>3, <1>4 DEF ApplyOrderEvent, OrderTarget
  <1> HIDE DEF confirmed
  <1>6. <<"Placed", "Confirmed">> \in Seq(OrderStatus)
    BY DEF OrderStatus
  <1>7. /\ confirmed \in Order /\ confirmed.total = orders[o].total
        /\ confirmed.status = "Confirmed"
        /\ confirmed.timeline = <<"Placed", "Confirmed">>
    BY <1>2, <1>5, <1>6 DEF Order, OrderStatus
  <1>8. /\ orders'[o] = [confirmed EXCEPT !.payment_reference = p]
        /\ DOMAIN orders' = DOMAIN orders
        /\ \A x \in DOMAIN orders : x # o => orders'[x] = orders[x]
    BY <1>1
  <1>9. /\ orders'[o] \in Order /\ orders'[o].total = confirmed.total
        /\ orders'[o].status = confirmed.status /\ orders'[o].payment_reference = p
        /\ orders'[o].timeline = confirmed.timeline
    BY <1>7, <1>8 DEF Order
  <1>10. p # NoPayment
    BY NamesAssumption DEF PaymentIds
  <1> QED BY <1>1, <1>7, <1>8, <1>9, <1>10 DEF o

\* Reconciling preserves the invariant.
LEMMA ReconcileInv ==
  ASSUME IInv, NEW p \in PaymentIds, Reconcile(p)
  PROVE  IInv'
  <1> DEFINE o == payments[p].order
  <1>1. /\ p \in DOMAIN payments /\ payments[p].order = o /\ o \in DOMAIN orders
        /\ p # NoPayment /\ Matches(payments[p], orders[o])
        /\ DOMAIN orders' = DOMAIN orders
        /\ \A x \in DOMAIN orders : x # o => orders'[x] = orders[x]
        /\ orders'[o] \in Order /\ orders'[o].total = orders[o].total
        /\ orders'[o].status = "Confirmed" /\ orders'[o].payment_reference = p
        /\ orders'[o].timeline = <<"Placed", "Confirmed">>
    BY ReconcileEffect
  <1>2. <<"Placed", "Confirmed">>[Len(<<"Placed", "Confirmed">>)] = "Confirmed"
    OBVIOUS
  <1>3. /\ UNCHANGED <<requests, links, payments>>
        /\ webhooks_verified' \in Nat
    BY DEF Reconcile, Counted, IInv, TypeOK
  <1> HIDE DEF o
  <1>4. TypeOK'
    BY <1>1, <1>3 DEF IInv, TypeOK
  <1>5. PaidInFull'
    BY <1>1, <1>3 DEF IInv, PaidInFull, Matches, Has
  <1>6. ConfirmedByPayment'
    <2>1. ASSUME NEW x \in DOMAIN orders', x # o
          PROVE  /\ orders'[x].timeline = IF orders'[x].payment_reference = NoPayment
                                          THEN <<"Placed">> ELSE <<"Placed", "Confirmed">>
                 /\ orders'[x].status = orders'[x].timeline[Len(orders'[x].timeline)]
      <3>1. x \in DOMAIN orders /\ orders'[x] = orders[x]
        BY <1>1, <2>1
      <3> QED BY <3>1 DEF IInv, ConfirmedByPayment
    <2>2. /\ orders'[o].timeline = IF orders'[o].payment_reference = NoPayment
                                   THEN <<"Placed">> ELSE <<"Placed", "Confirmed">>
          /\ orders'[o].status = orders'[o].timeline[Len(orders'[o].timeline)]
      BY <1>1, <1>2
    <2> QED BY <2>1, <2>2 DEF ConfirmedByPayment
  <1>7. LinksMatchOrders'
    BY <1>1, <1>3 DEF IInv, LinksMatchOrders, Has
  <1> QED BY <1>4, <1>5, <1>6, <1>7 DEF IInv

\* A delivery that is acknowledged without effect changes the counter only.
LEMMA QuietInv ==
  ASSUME IInv, UNCHANGED <<orders, requests, links, payments>>,
         webhooks_verified' \in Nat
  PROVE  IInv'
  BY DEF IInv, TypeOK, PaidInFull, ConfirmedByPayment, LinksMatchOrders

\* Every step preserves the invariant.
LEMMA InvNext == IInv /\ [Next]_vars => IInv'
  <1> SUFFICES ASSUME IInv, [Next]_vars PROVE IInv'
    OBVIOUS
  <1>1. ASSUME NEW p \in PaymentIds, AlreadyPaid(p) PROVE IInv'
    BY <1>1, QuietInv DEF AlreadyPaid, Counted, IInv, TypeOK
  <1>2. CASE IgnoreEvent
    BY <1>2, QuietInv DEF IgnoreEvent, Counted, IInv, TypeOK
  <1>3. CASE UNCHANGED vars
    BY <1>3, QuietInv DEF vars, IInv, TypeOK
  <1>4. ASSUME NEW p \in PaymentIds, RefuseDelivery(p) PROVE IInv'
    BY <1>4, <1>3 DEF RefuseDelivery
  <1> QED
    BY <1>1, <1>2, <1>3, <1>4, PlaceInv, ReadInv, MintInv, FailInv, PayInv, ReconcileInv
       DEF Next

\* The invariant holds always.
THEOREM Inductive == Spec => []IInv
  BY InvInit, InvNext, PTL DEF Spec

\* An order's payment is for this order and over exactly its total, whatever is
\* delivered, how often and in which order (webhook.rs:105-127).
THEOREM ExactPayment == Spec => []PaidInFull
  <1>1. IInv => PaidInFull
    BY DEF IInv
  <1> QED BY <1>1, Inductive, PTL

\* Status, timeline and payment of an order agree: confirmed once, and exactly
\* by a payment (webhook.rs:129-135).
THEOREM PaymentConfirms == Spec => []ConfirmedByPayment
  <1>1. IInv => ConfirmedByPayment
    BY DEF IInv
  <1> QED BY <1>1, Inductive, PTL

\* A paid order is never touched again, by no delivery (webhook.rs:109-114).
THEOREM PaidStays == Spec => PaidForGood
  <1> DEFINE Kept == \A o \in DOMAIN orders :
       /\ Has(orders', o) /\ orders'[o].total = orders[o].total
       /\ orders[o].payment_reference # NoPayment => orders'[o] = orders[o]
  <1>1. ASSUME IInv, NEW o \in OrderIds, NEW total \in Totals, PlaceOrder(o, total)
        PROVE  Kept
    BY <1>1 DEF Put, PlaceOrder, CanCreate, Has
  <1>2. ASSUME IInv, NEW p \in PaymentIds, Reconcile(p)
        PROVE  Kept
    BY <1>2, ReconcileEffect DEF Has
  <1>3. ASSUME UNCHANGED orders
        PROVE  Kept
    BY <1>3 DEF Has
  <1>4. IInv /\ [Next]_vars => [Kept]_vars
    <2> HIDE DEF Kept
    <2> QED
      BY <1>1, <1>2, <1>3 DEF Next, vars, ReadOrder, MintLink, LinkFails, PayLink,
         PayElsewhere, AlreadyPaid, IgnoreEvent, RefuseDelivery
  <1> QED BY <1>4, Inductive, PTL DEF Spec, PaidForGood
-----------------------------------------------------------------------------
(* UPI Reserve Pay                                                         *)

\* A difference and a sum that are i64s are computed exactly.
LEMMA WrapExact == \A n \in Units : Wrap(n) = n
  BY MaxUnitsAssumption DEF Units, MinUnits, Wrap

\* What a consent leaves to be drawn is the difference of limit and spend.
LEMMA RemainingExact ==
  ASSUME NEW consent \in Consent, 0 <= consent.spent.units,
         consent.spent.units <= consent.limit.units
  PROVE  /\ consent.limit.units \in Int /\ consent.spent.units \in Int
         /\ Remaining(consent) = consent.limit.units - consent.spent.units
  <1>1. consent.limit.units \in Units /\ consent.spent.units \in Units
    BY DEF Consent, Amount
  <1>2. consent.limit.units - consent.spent.units \in Units
    BY <1>1, MaxUnitsAssumption DEF Units, MinUnits
  <1> QED BY <1>1, <1>2, WrapExact DEF Remaining, WrapSub, Units

\* The limit and the spend of the consents in the ledger are such.
LEMMA ConsentFacts ==
  LedgerInv => \A c \in DOMAIN consents :
    /\ consents[c] \in Consent
    /\ 0 <= consents[c].spent.units /\ consents[c].spent.units <= consents[c].limit.units
  BY DEF LedgerInv, LedgerTypeOK, DrawnWithinLimit

\* An allowed debit adds up exactly and stays within the limit.
LEMMA DebitExact ==
  ASSUME LedgerInv, NEW c \in ConsentIds, NEW units \in Minors, NEW currency, NEW device,
         NEW confirm, MayDebit(c, units, currency, device, confirm)
  PROVE  /\ c \in DOMAIN consents /\ units > 0 /\ units \in Int
         /\ SpentWith(consents[c], units) = consents[c].spent.units + units
         /\ SpentWith(consents[c], units) \in Units
         /\ consents[c].spent.units + units <= consents[c].limit.units
  <1>1. c \in DOMAIN consents /\ units > 0 /\ units \in Int
        /\ units <= Remaining(consents[c])
    BY MinorsAssumption DEF MayDebit, Positive, Has, Units
  <1>2. /\ consents[c].limit.units \in Units /\ consents[c].spent.units \in Units
        /\ 0 <= consents[c].spent.units
    BY <1>1 DEF LedgerInv, LedgerTypeOK, DrawnWithinLimit, Consent, Amount
  <1>3. consents[c].spent.units + units <= consents[c].limit.units
    BY <1>1, <1>2, ConsentFacts, RemainingExact DEF Units
  <1>4. consents[c].spent.units + units \in Units
    BY <1>1, <1>2, <1>3, MaxUnitsAssumption DEF Units, MinUnits
  <1> QED BY <1>1, <1>3, <1>4, WrapExact DEF SpentWith, WrapAdd

\* An empty ledger has nothing drawn.
LEMMA LedgerInvInit == LedgerInit => LedgerInv
  BY DEF LedgerInit, EmptyStore, LedgerInv, LedgerTypeOK, DrawnWithinLimit

\* Every step preserves the invariant.
LEMMA LedgerInvNext == LedgerInv /\ [LedgerNext]_ledger => LedgerInv'
  <1> SUFFICES ASSUME LedgerInv, [LedgerNext]_ledger PROVE LedgerInv'
    OBVIOUS
  <1>1. ASSUME NEW c \in ConsentIds, NEW units \in Minors, NEW currency \in Currencies,
               NEW device \in Devices, CreateConsent(c, units, currency, device)
        PROVE  LedgerInv'
    <2> DEFINE consent == NewConsent([currency |-> currency, units |-> units], device)
    <2>1. consent \in Consent /\ units > 0 /\ consent.limit.units = units
          /\ consent.spent.units = 0 /\ units \in Int
      BY <1>1, MinorsAssumption, MaxUnitsAssumption
         DEF CreateConsent, Positive, NewConsent, Consent, ConsentStatus, Amount, Zero, Units,
             MinUnits
    <2>2. /\ c \notin DOMAIN consents /\ drawn[c] = 0
          /\ consents' = Put(consents, c, consent) /\ UNCHANGED <<reserve_debits, drawn>>
      BY <1>1 DEF CreateConsent, CanCreate, Has, LedgerInv
    <2> HIDE DEF consent
    <2>3. /\ DOMAIN consents' = DOMAIN consents \cup {c} /\ consents'[c] = consent
          /\ \A d \in DOMAIN consents : consents'[d] = consents[d]
      BY <2>2 DEF Put
    <2>4. LedgerTypeOK'
      BY <2>1, <2>2, <2>3 DEF LedgerInv, LedgerTypeOK
    <2>5. DrawnWithinLimit'
      BY <2>1, <2>2, <2>3 DEF LedgerInv, DrawnWithinLimit
    <2> QED BY <2>1, <2>2, <2>3, <2>4, <2>5 DEF LedgerInv
  <1>2. ASSUME NEW c \in ConsentIds, NEW units \in Minors, NEW currency \in Currencies,
               NEW device \in Devices, NEW confirm \in BOOLEAN,
               Debit(c, units, currency, device, confirm)
        PROVE  LedgerInv'
    <2>1. /\ c \in DOMAIN consents /\ units > 0 /\ units \in Int
          /\ SpentWith(consents[c], units) = consents[c].spent.units + units
          /\ SpentWith(consents[c], units) \in Units
          /\ consents[c].spent.units + units <= consents[c].limit.units
      BY <1>2, DebitExact DEF Debit
    <2>2. /\ consents' = [consents EXCEPT ![c].spent.units = SpentWith(consents[c], units)]
          /\ reserve_debits' = reserve_debits + 1
          /\ drawn' = [drawn EXCEPT ![c] = @ + units]
      BY <1>2 DEF Debit
    <2>3. \A d \in DOMAIN consents : consents[d] \in Consent
      BY DEF LedgerInv, LedgerTypeOK
    <2>4. /\ DOMAIN consents' = DOMAIN consents
          /\ \A d \in DOMAIN consents :
               /\ consents'[d].limit = consents[d].limit
               /\ consents'[d].spent.units =
                    IF d = c THEN consents[c].spent.units + units ELSE consents[d].spent.units
      BY <2>1, <2>2, <2>3 DEF Consent, Amount
    <2>5. LedgerTypeOK'
      <3>1. \A d \in DOMAIN consents' : consents'[d] \in Consent
        BY <2>1, <2>2, <2>3 DEF Consent, Amount
      <3> QED BY <2>1, <2>2, <2>4, <3>1 DEF LedgerInv, LedgerTypeOK
    <2>6. DrawnWithinLimit'
      BY <2>1, <2>2, <2>4 DEF LedgerInv, LedgerTypeOK, DrawnWithinLimit
    <2>7. \A d \in ConsentIds \ DOMAIN consents' : drawn'[d] = 0
      BY <2>1, <2>2, <2>4 DEF LedgerInv, LedgerTypeOK
    <2> QED BY <2>4, <2>5, <2>6, <2>7 DEF LedgerInv
  <1>3. CASE UNCHANGED ledger
    BY <1>3 DEF ledger, LedgerInv, LedgerTypeOK, DrawnWithinLimit
  <1> QED BY <1>1, <1>2, <1>3 DEF LedgerNext, RefuseDebit

\* The invariant holds in every reachable state.
THEOREM LedgerInductive == LedgerSpec => []LedgerInv
  <1> QED BY LedgerInvInit, LedgerInvNext, PTL DEF LedgerSpec

\* However a consent is drawn on, the debits stay within its limit and the
\* ledger has their exact sum: no i64 ever wraps.
THEOREM LimitKept == LedgerSpec => []DrawnWithinLimit
  <1>1. LedgerInv => DrawnWithinLimit
    BY DEF LedgerInv
  <1> QED BY <1>1, LedgerInductive, PTL

\* No call gives an agent more to draw.
THEOREM NoNewHeadroom == LedgerSpec => HeadroomNeverGrows
  <1> DEFINE Shrinks ==
        \A c \in DOMAIN consents :
          Has(consents', c) /\ Remaining(consents'[c]) <= Remaining(consents[c])
  <1>1. ASSUME LedgerInv, LedgerInv', [LedgerNext]_ledger PROVE [Shrinks]_ledger
    <2> SUFFICES ASSUME LedgerNext, NEW d \in DOMAIN consents
                 PROVE  Has(consents', d) /\ Remaining(consents'[d]) <= Remaining(consents[d])
      BY <1>1
    <2>0. Remaining(consents[d]) \in Int
      BY <1>1, ConsentFacts, RemainingExact
    <2>1. ASSUME NEW c \in ConsentIds, NEW units \in Minors, NEW currency \in Currencies,
                 NEW device \in Devices, CreateConsent(c, units, currency, device)
          PROVE  d \in DOMAIN consents' /\ consents'[d] = consents[d]
      BY <2>1 DEF CreateConsent, CanCreate, Put, Has
    <2>2. ASSUME NEW c \in ConsentIds, NEW units \in Minors, NEW currency \in Currencies,
                 NEW device \in Devices, NEW confirm \in BOOLEAN,
                 Debit(c, units, currency, device, confirm)
          PROVE  d \in DOMAIN consents' /\ Remaining(consents'[d]) <= Remaining(consents[d])
      <3>1. /\ c \in DOMAIN consents /\ units > 0 /\ units \in Int
            /\ SpentWith(consents[c], units) = consents[c].spent.units + units
        BY <1>1, <2>2, DebitExact DEF Debit
      <3>2. /\ d \in DOMAIN consents' /\ consents'[d].limit.units = consents[d].limit.units
            /\ consents'[d].spent.units =
                 IF d = c THEN consents[d].spent.units + units ELSE consents[d].spent.units
        <4>1. consents[d] \in Consent /\ consents[c] \in Consent
          BY <1>1, <3>1 DEF LedgerInv, LedgerTypeOK
        <4> QED BY <2>2, <3>1, <4>1 DEF Debit, Consent, Amount
      <3>3. /\ Remaining(consents[d]) = consents[d].limit.units - consents[d].spent.units
            /\ consents[d].limit.units \in Int /\ consents[d].spent.units \in Int
        BY <1>1, ConsentFacts, RemainingExact
      <3>4. Remaining(consents'[d]) = consents'[d].limit.units - consents'[d].spent.units
        <4>1. /\ consents'[d] \in Consent
              /\ 0 <= consents'[d].spent.units
              /\ consents'[d].spent.units <= consents'[d].limit.units
          BY <1>1, <3>2 DEF LedgerInv, LedgerTypeOK, DrawnWithinLimit
        <4> QED BY <4>1, RemainingExact
      <3> QED BY <3>1, <3>2, <3>3, <3>4
    <2>3. CASE UNCHANGED ledger
      BY <2>3, <2>0 DEF ledger, Has
    <2> QED BY <2>0, <2>1, <2>2, <2>3 DEF LedgerNext, RefuseDebit, Has
  <1> QED BY <1>1, LedgerInductive, PTL DEF LedgerSpec, HeadroomNeverGrows
=============================================================================
