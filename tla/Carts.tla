------------------------------- MODULE Carts -------------------------------
(***************************************************************************)
(* The cart endpoints (aiter-server/src/checkout/cart.rs) and              *)
(* create_checkout_session (checkout/session.rs), which snapshots a cart.  *)
(*                                                                         *)
(* The carts and the set of cancelled cart ids are behind two async        *)
(* mutexes.  update_cart holds the carts lock while it awaits the lock of  *)
(* the cancelled set; everybody else takes one lock at a time, so that a   *)
(* cart read and the check whether it is cancelled are two separate steps. *)
(*                                                                         *)
(* A cart is the map from products to quantities that module Cart shows    *)
(* the vector of lines to be.                                              *)
(***************************************************************************)
EXTENDS Money, Store, Sequences, FiniteSets, FiniteSetsExt

CONSTANTS
  ProductIds,    \* product ids a caller may name
  Price,         \* the served catalog: id -> unit price
  Bodies,        \* request bodies: sequences of [product_id, quantity]
  MaxId,         \* bound: how many ids gen_id hands out
  Requests       \* slots for requests in flight

ASSUME CatalogAssumption ==
  /\ DOMAIN Price \subseteq ProductIds
  /\ \A p \in DOMAIN Price : Price[p] \in Amount /\ Price[p].units >= 0
LineItem == [product_id : ProductIds, quantity : Nat]
ASSUME BodiesAssumption == Bodies \subseteq Seq(LineItem)
ASSUME MaxIdAssumption == MaxId \in Nat

VARIABLES
  carts,       \* store: id -> cart ("cart-<id>")
  cancelled,   \* the ids of the cancelled carts
  sessions,    \* store: id -> the snapshot a session was opened with ("cs-<id>")
  nextId,      \* the counter behind gen_id, one for all kinds of ids
  requests,    \* the requests being served: their stage and their locals
  live         \* history: every content a cart had while it was not cancelled

vars == <<carts, cancelled, sessions, nextId, requests, live>>

Ids   == 0..(MaxId - 1)
Items == [ProductIds -> Nat]
CartRecord == [currency : Currencies, items : Items]
Snapshot   == [cart_id : Ids, cart : CartRecord, total : Amount]

\* The lock().await points a request can be suspended at, with its locals.
Request ==
  \* create_cart
  [stage : {"insert"}, id : Ids, cart : CartRecord]
  \* update_cart: before the carts lock, and with it before the cancelled set
    \cup [stage : {"update", "check", "write"}, id : Ids, body : Bodies]
    \cup [stage : {"reread"}, id : Ids]
  \* cancel_cart: before the carts, before the cancelled set
    \cup [stage : {"cancel", "mark"}, id : Ids]
  \* get_cart: before the carts, before the cancelled set, with its answer
    \cup [stage : {"get"}, id : Ids]
    \cup [stage : {"look"}, id : Ids, cart : CartRecord]
    \cup [stage : {"told"}, id : Ids, cart : CartRecord, cancelled : BOOLEAN]
  \* create_checkout_session: before the carts, the cancelled set, the sessions
    \cup [stage : {"snapshot"}, id : Ids]
    \cup [stage : {"frozen"}, id : Ids, cart : CartRecord]
    \cup [stage : {"open"}, id : Ids, cart : CartRecord, new : Ids]

At(r, stage) == Has(requests, r) /\ requests[r].stage = stage

\* Mutant: update_cart gives the carts lock back after its checks.
CartsFreeToWrite == \A r \in Requests : ~At(r, "check")

\* update_cart keeps its guard on the carts to the end.
CartsFree == \A r \in Requests : \A stage \in {"check", "write", "reread"} : ~At(r, stage)

Answer(r)  == requests' = Without(requests, r)
Go(r, req) == requests' = Put(requests, r, req)

\* Mutant: the counter is read without being advanced.
PeekId == nextId < MaxId /\ UNCHANGED nextId

\* fetch_add on the counter, within the bound.
GenId == nextId < MaxId /\ nextId' = nextId + 1
-----------------------------------------------------------------------------
(* Building and pricing carts                                              *)

\* Mutant: the currency of the products is not compared with the cart's.
Cataloged(currency, body) == \A i \in DOMAIN body : body[i].product_id \in DOMAIN Price

\* validate_catalog_items
Valid(currency, body) ==
  \A i \in DOMAIN body :
    /\ body[i].product_id \in DOMAIN Price
    /\ Price[body[i].product_id].currency = currency

\* A cart built from a body by Cart::update, item after item: the last item
\* for a product decides.
Quantity(body, p) ==
  LET items == {i \in DOMAIN body : body[i].product_id = p}
  IN  IF items = {} THEN 0 ELSE body[Max(items)].quantity

Build(currency, body) ==
  [currency |-> currency, items |-> [p \in ProductIds |-> Quantity(body, p)]]

InCart(cart) == {p \in ProductIds : cart.items[p] > 0}

\* compute_totals, where module Cart shows it to be this sum.
Sum(cart)    == MapThenSumSet(LAMBDA p : Price[p].units * cart.items[p], InCart(cart))

Priced(cart) ==
  /\ \A p \in InCart(cart) :
       p \in DOMAIN Price /\ Price[p].currency = cart.currency
  /\ Sum(cart) \in Units
TotalOf(cart) == [currency |-> cart.currency, units |-> Sum(cart)]
-----------------------------------------------------------------------------
(* create_cart                                                             *)

CallCreateCart(r, currency, body) ==
  /\ ~Has(requests, r)
  /\ Valid(currency, body)
  /\ GenId
  /\ Go(r, [stage |-> "insert", id |-> nextId, cart |-> Build(currency, body)])
  /\ UNCHANGED <<carts, cancelled, sessions, live>>

InsertCart(r) ==
  /\ At(r, "insert")
  /\ CartsFree
  /\ LET req == requests[r]
     IN  /\ CanCreate(carts, req.id)
         /\ carts' = Put(carts, req.id, req.cart)
         /\ live' = live \cup {<<req.id, req.cart>>}
  /\ Answer(r)
  /\ UNCHANGED <<cancelled, sessions, nextId>>
-----------------------------------------------------------------------------
(* get_cart                                                                *)

CallGetCart(r, id) ==
  /\ ~Has(requests, r)
  /\ Go(r, [stage |-> "get", id |-> id])
  /\ UNCHANGED <<carts, cancelled, sessions, nextId, live>>

FetchCart(r) ==
  /\ At(r, "get")
  /\ CartsFree
  /\ LET id == requests[r].id
     IN  IF Has(carts, id)
         THEN Go(r, [stage |-> "look", id |-> id, cart |-> carts[id]])
         ELSE Answer(r)
  /\ UNCHANGED <<carts, cancelled, sessions, nextId, live>>

\* Mutant: a cart that was found is shown as one that is not cancelled.
LookNowhere(r) ==
  /\ At(r, "look")
  /\ LET req == requests[r]
     IN  Go(r, [stage |-> "told", id |-> req.id, cart |-> req.cart, cancelled |-> FALSE])
  /\ UNCHANGED <<carts, cancelled, sessions, nextId, live>>

\* The cart may have been rewritten since it was read.
LookCancelled(r) ==
  /\ At(r, "look")
  /\ LET req == requests[r]
     IN  Go(r, [stage |-> "told", id |-> req.id, cart |-> req.cart,
                cancelled |-> req.id \in cancelled])
  /\ UNCHANGED <<carts, cancelled, sessions, nextId, live>>

AnswerGet(r) ==
  /\ At(r, "told")
  /\ Answer(r)
  /\ UNCHANGED <<carts, cancelled, sessions, nextId, live>>
-----------------------------------------------------------------------------
(* update_cart                                                             *)

CallUpdateCart(r, id, body) ==
  /\ ~Has(requests, r)
  /\ Go(r, [stage |-> "update", id |-> id, body |-> body])
  /\ UNCHANGED <<carts, cancelled, sessions, nextId, live>>

\* The carts lock is taken, and kept unless there is no such cart.
LockCart(r) ==
  /\ At(r, "update")
  /\ CartsFree
  /\ IF Has(carts, requests[r].id)
     THEN Go(r, [requests[r] EXCEPT !.stage = "check"])
     ELSE Answer(r)
  /\ UNCHANGED <<carts, cancelled, sessions, nextId, live>>

\* 409 for a frozen cart, 400 for a body it cannot hold.
Refused(req) ==
  req.id \in cancelled \/ ~Valid(carts[req.id].currency, req.body)

RefuseUpdate(r) ==
  /\ At(r, "check")
  /\ Refused(requests[r])
  /\ Answer(r)
  /\ UNCHANGED <<carts, cancelled, sessions, nextId, live>>

\* The lock of the cancelled set is free again once it was looked at, so that
\* another thread may add to the set before the write.
PassCheck(r) ==
  /\ At(r, "check")
  /\ ~Refused(requests[r])
  /\ Go(r, [requests[r] EXCEPT !.stage = "write"])
  /\ UNCHANGED <<carts, cancelled, sessions, nextId, live>>

WriteCart(r) ==
  /\ At(r, "write")
  /\ LET id == requests[r].id
         cart == Build(carts[id].currency, requests[r].body)
     IN  /\ carts' = [carts EXCEPT ![id] = cart]
         /\ live' = IF id \in cancelled THEN live ELSE live \cup {<<id, cart>>}
         /\ Go(r, [stage |-> "reread", id |-> id])
  /\ UNCHANGED <<cancelled, sessions, nextId>>

\* The second look at the cancelled set only words the answer.
AnswerUpdate(r) ==
  /\ At(r, "reread")
  /\ Answer(r)
  /\ UNCHANGED <<carts, cancelled, sessions, nextId, live>>
-----------------------------------------------------------------------------
(* cancel_cart                                                             *)

CallCancelCart(r, id) ==
  /\ ~Has(requests, r)
  /\ Go(r, [stage |-> "cancel", id |-> id])
  /\ UNCHANGED <<carts, cancelled, sessions, nextId, live>>

\* The carts lock is released before the cancelled set is written.
FindCart(r) ==
  /\ At(r, "cancel")
  /\ CartsFree
  /\ IF Has(carts, requests[r].id)
     THEN Go(r, [stage |-> "mark", id |-> requests[r].id])
     ELSE Answer(r)
  /\ UNCHANGED <<carts, cancelled, sessions, nextId, live>>

MarkCancelled(r) ==
  /\ At(r, "mark")
  /\ cancelled' = cancelled \cup {requests[r].id}
  /\ Answer(r)
  /\ UNCHANGED <<carts, sessions, nextId, live>>
-----------------------------------------------------------------------------
(* create_checkout_session                                                 *)

CallCreateSession(r, id) ==
  /\ ~Has(requests, r)
  /\ Go(r, [stage |-> "snapshot", id |-> id])
  /\ UNCHANGED <<carts, cancelled, sessions, nextId, live>>

ReadCart(r) ==
  /\ At(r, "snapshot")
  /\ CartsFree
  /\ LET id == requests[r].id
     IN  IF Has(carts, id)
         THEN Go(r, [stage |-> "frozen", id |-> id, cart |-> carts[id]])
         ELSE Answer(r)
  /\ UNCHANGED <<carts, cancelled, sessions, nextId, live>>

\* 409 for a frozen cart, 400 for one that cannot be priced.
RefuseSession(r) ==
  /\ At(r, "frozen")
  /\ requests[r].id \in cancelled \/ ~Priced(requests[r].cart)
  /\ Answer(r)
  /\ UNCHANGED <<carts, cancelled, sessions, nextId, live>>

\* Mutant: the cancelled set is not looked at before a session is opened.
PriceAny(r) ==
  /\ At(r, "frozen")
  /\ Priced(requests[r].cart)
  /\ GenId
  /\ Go(r, [stage |-> "open", id |-> requests[r].id, cart |-> requests[r].cart,
            new |-> nextId])
  /\ UNCHANGED <<carts, cancelled, sessions, live>>

PriceSnapshot(r) ==
  /\ At(r, "frozen")
  /\ requests[r].id \notin cancelled /\ Priced(requests[r].cart)
  /\ GenId
  /\ Go(r, [stage |-> "open", id |-> requests[r].id, cart |-> requests[r].cart,
            new |-> nextId])
  /\ UNCHANGED <<carts, cancelled, sessions, live>>

OpenSession(r) ==
  /\ At(r, "open")
  /\ LET req == requests[r]
     IN  /\ CanCreate(sessions, req.new)
         /\ sessions' = Put(sessions, req.new,
                [cart_id |-> req.id, cart |-> req.cart, total |-> TotalOf(req.cart)])
  /\ Answer(r)
  /\ UNCHANGED <<carts, cancelled, nextId, live>>
-----------------------------------------------------------------------------
\* The client hangs up on a handler that waits for a lock.
HangUp(r) ==
  /\ Has(requests, r) /\ ~At(r, "write")
  /\ Answer(r)
  /\ UNCHANGED <<carts, cancelled, sessions, nextId, live>>

Init ==
  /\ carts = EmptyStore
  /\ cancelled = {}
  /\ sessions = EmptyStore
  /\ nextId = 0
  /\ requests = EmptyStore
  /\ live = {}

Call(r) ==
  \/ \E currency \in Currencies, body \in Bodies : CallCreateCart(r, currency, body)
  \/ \E id \in Ids :
       \/ \E body \in Bodies : CallUpdateCart(r, id, body)
       \/ CallGetCart(r, id)
       \/ CallCancelCart(r, id)
       \/ CallCreateSession(r, id)

\* One step of the handler serving r.
Serve(r) ==
  \/ InsertCart(r)
  \/ FetchCart(r) \/ LookCancelled(r) \/ AnswerGet(r)
  \/ LockCart(r) \/ RefuseUpdate(r) \/ PassCheck(r) \/ WriteCart(r) \/ AnswerUpdate(r)
  \/ FindCart(r) \/ MarkCancelled(r)
  \/ ReadCart(r) \/ RefuseSession(r) \/ PriceSnapshot(r) \/ OpenSession(r)

Next == \E r \in Requests : Call(r) \/ Serve(r) \/ HangUp(r)

Spec == Init /\ [][Next]_vars
-----------------------------------------------------------------------------
(* Properties                                                              *)

\* Every variable stays in its type.
TypeOK ==
  /\ DOMAIN carts \subseteq Ids
  /\ \A id \in DOMAIN carts : carts[id] \in CartRecord
  /\ cancelled \subseteq Ids
  /\ DOMAIN sessions \subseteq Ids
  /\ \A id \in DOMAIN sessions : sessions[id] \in Snapshot
  /\ nextId \in 0..MaxId
  /\ DOMAIN requests \subseteq Requests
  /\ \A r \in DOMAIN requests : requests[r] \in Request
  /\ live \subseteq Ids \X CartRecord

\* The id gen_id gave to r and r has not used yet.
HandedOut(r) ==
  IF At(r, "insert") THEN {requests[r].id}
  ELSE IF At(r, "open") THEN {requests[r].new} ELSE {}

\* An id that was handed out to a request is not used by anybody else, so that
\* `create` never finds its key taken.
IdsAreUnique ==
  /\ DOMAIN carts \cap DOMAIN sessions = {}
  /\ \A r \in Requests : HandedOut(r) \cap (DOMAIN carts \cup DOMAIN sessions) = {}
  /\ \A q, r \in Requests : q # r => HandedOut(q) \cap HandedOut(r) = {}

\* A cart only holds products that are served, in its own currency: whatever
\* the calls, no cart has `totals: null` for one of these reasons.
Served(cart) ==
  \A p \in InCart(cart) : p \in DOMAIN Price /\ Price[p].currency = cart.currency

CartsHoldServedProducts == \A id \in DOMAIN carts : Served(carts[id])

\* A session is a snapshot of what its cart held at a moment when it was not
\* cancelled, although the cart is read under one lock and the cancellation
\* is looked up later under another.
SnapshotsWereLive ==
  \A s \in DOMAIN sessions : <<sessions[s].cart_id, sessions[s].cart>> \in live

\* GET /carts/{id} reads the cart and the cancelled set one after the other, and
\* yet shows nothing that never was: a cart shown as open held, while it was
\* open, what is shown of it, and one shown as cancelled is cancelled.
AnswersWereTrue ==
  \A r \in Requests : At(r, "told") =>
    LET req == requests[r]
    IN  IF req.cancelled THEN req.id \in cancelled ELSE <<req.id, req.cart>> \in live

\* A cancellation is for good, and only carts that exist are cancelled.
CancelledForGood ==
  [][cancelled \subseteq cancelled' /\ cancelled' \subseteq DOMAIN carts']_vars

\* cart.rs:128: "A cancelled cart is frozen (#68): its items can no longer be
\* rewritten."
CancelledIsFrozen == [][\A id \in cancelled : carts'[id] = carts[id]]_vars
-----------------------------------------------------------------------------
(* The inductive invariant                                                 *)

\* Every id in use is below the counter.
IdsBelowCounter ==
  /\ \A id \in DOMAIN carts \cup DOMAIN sessions : id < nextId
  /\ \A r \in Requests : \A id \in HandedOut(r) : id < nextId

\* The carts lock has one holder at most.
HoldsCarts(r) == \E stage \in {"check", "write", "reread"} : At(r, stage)
CartsExclusion == \A q, r \in Requests : HoldsCarts(q) /\ HoldsCarts(r) => q = r

\* What a request found out about the carts before it waited, or let another
\* thread run, and relies on afterwards.
Knows(r) == LET req == requests[r] IN
  /\ req.stage = "insert" => Served(req.cart)
  /\ req.stage \in {"check", "write", "mark"} => Has(carts, req.id)
  /\ req.stage = "write" => Valid(carts[req.id].currency, req.body)
  /\ req.stage \in {"look", "frozen"} => req.id \in cancelled \/ <<req.id, req.cart>> \in live
  /\ req.stage = "told" =>
       IF req.cancelled THEN req.id \in cancelled ELSE <<req.id, req.cart>> \in live
  /\ req.stage = "open" => <<req.id, req.cart>> \in live /\ Priced(req.cart)

RequestsKnow == \A r \in DOMAIN requests : Knows(r)

\* What a cart holds while it is not cancelled is recorded.
LiveIsRecorded ==
  /\ cancelled \subseteq DOMAIN carts
  /\ \A id \in DOMAIN carts \ cancelled : <<id, carts[id]>> \in live

IInv ==
  /\ TypeOK
  /\ IdsAreUnique
  /\ IdsBelowCounter
  /\ CartsExclusion
  /\ RequestsKnow
  /\ CartsHoldServedProducts
  /\ LiveIsRecorded
  /\ SnapshotsWereLive
  /\ AnswersWereTrue
=============================================================================
