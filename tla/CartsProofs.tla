---------------------------- MODULE CartsProofs ----------------------------
(***************************************************************************)
(* Safety of the cart handlers for every value of the constants.           *)
(***************************************************************************)
EXTENDS Carts, NaturalsInduction, WellFoundedInduction, TLAPS

-----------------------------------------------------------------------------
(* Carts built from request bodies                                         *)

\* The positions of the items for a product have a last one.
LEMMA LastItem ==
  ASSUME NEW n \in Nat, NEW S, S \subseteq 1..n, S # {}
  PROVE  Max(S) \in S
  <1> DEFINE T == {n - i : i \in S}
  <1>1. T \subseteq Nat /\ T # {}
    <2>1. \A i \in S : n - i \in Nat
      OBVIOUS
    <2>2. PICK i \in S : TRUE
      OBVIOUS
    <2>3. n - i \in T
      BY <2>2
    <2> QED BY <2>1, <2>3
  <1>2. PICK least \in T : \A t \in T : ~(<<t, least>> \in OpToRel(<, Nat))
    BY <1>1, NatLessThanWellFounded, WFMin
  <1>3. PICK last \in S : least = n - last
    OBVIOUS
  <1>4. \A i \in S : last >= i
    <2> SUFFICES ASSUME NEW i \in S PROVE last >= i
      OBVIOUS
    <2>1. n - i \in T /\ n - i \in Nat /\ least \in Nat
      BY <1>1
    <2>2. ~(n - i < least)
      BY <2>1, <1>2 DEF OpToRel
    <2> QED BY <2>1, <2>2, <1>3
  <1> QED BY <1>4 DEF Max

\* Building a cart from a body gives a cart.
LEMMA BuildType ==
  ASSUME NEW currency \in Currencies, NEW body \in Bodies
  PROVE  Build(currency, body) \in CartRecord
  <1>1. body \in Seq(LineItem)
    BY BodiesAssumption
  <1>2. ASSUME NEW p \in ProductIds PROVE Quantity(body, p) \in Nat
    <2> DEFINE S == {i \in DOMAIN body : body[i].product_id = p}
    <2>1. CASE S = {}
      BY <2>1 DEF Quantity
    <2>2. CASE S # {}
      <3>1. Len(body) \in Nat /\ S \subseteq 1..Len(body)
        BY <1>1
      <3>2. Max(S) \in S
        BY <2>2, <3>1, LastItem
      <3>3. \A i \in DOMAIN body : body[i] \in LineItem
        BY <1>1
      <3>4. body[Max(S)].quantity \in Nat
        BY <3>2, <3>3 DEF LineItem
      <3> QED BY <2>2, <3>4 DEF Quantity
    <2> QED BY <2>1, <2>2
  <1> QED BY <1>2 DEF Build, CartRecord, Items

\* A cart built from a valid body holds only served products of its currency.
LEMMA BuildServed ==
  ASSUME NEW currency \in Currencies, NEW body \in Bodies, Valid(currency, body)
  PROVE  Served(Build(currency, body))
  <1> SUFFICES ASSUME NEW p \in ProductIds, Quantity(body, p) > 0
               PROVE  p \in DOMAIN Price /\ Price[p].currency = currency
    BY DEF Served, Build, InCart
  <1> DEFINE S == {i \in DOMAIN body : body[i].product_id = p}
  <1>1. S # {}
    BY DEF Quantity
  <1>2. PICK i \in DOMAIN body : body[i].product_id = p
    BY <1>1
  <1> QED BY <1>2 DEF Valid

\* The total of a cart that can be priced is an amount.
LEMMA TotalType ==
  ASSUME NEW cart \in CartRecord, Priced(cart)
  PROVE  TotalOf(cart) \in Amount
  BY DEF TotalOf, Priced, CartRecord, Amount
-----------------------------------------------------------------------------
(* Types                                                                   *)

\* The empty stores have the types.
LEMMA TypeInit == Init => TypeOK
  BY MaxIdAssumption DEF Init, TypeOK, EmptyStore

\* Giving a request new locals of the type keeps the table's type.
LEMMA GoType ==
  ASSUME TypeOK, NEW r \in Requests, NEW req \in Request, Go(r, req)
  PROVE  /\ DOMAIN requests' \subseteq Requests
         /\ \A q \in DOMAIN requests' : requests'[q] \in Request
  BY DEF TypeOK, Go, Put

\* So does answering a request.
LEMMA AnswerType ==
  ASSUME TypeOK, NEW r \in Requests, Answer(r)
  PROVE  /\ DOMAIN requests' \subseteq Requests
         /\ \A q \in DOMAIN requests' : requests'[q] \in Request
  BY DEF TypeOK, Answer, Without

\* Every step keeps the types, given what the requests know.
LEMMA TypeNext == IInv /\ [Next]_vars => TypeOK'
  <1> SUFFICES ASSUME IInv, [Next]_vars PROVE TypeOK'
    OBVIOUS
  <1> USE DEF At, Has
  <1>0. TypeOK
    BY DEF IInv
  <1>1. ASSUME NEW r \in Requests, NEW currency \in Currencies, NEW body \in Bodies,
               CallCreateCart(r, currency, body)
        PROVE  TypeOK'
    <2>1. [stage |-> "insert", id |-> nextId, cart |-> Build(currency, body)] \in Request
      BY <1>0, <1>1, BuildType, MaxIdAssumption DEF CallCreateCart, GenId, Request, TypeOK, Ids
    <2> QED BY <1>0, <1>1, <2>1, GoType, MaxIdAssumption DEF CallCreateCart, GenId, TypeOK
  <1>2. ASSUME NEW r \in Requests, InsertCart(r) PROVE TypeOK'
    <2>1. requests[r] \in Request /\ requests[r].stage = "insert"
      BY <1>0, <1>2 DEF InsertCart, TypeOK
    <2>2. requests[r].id \in Ids /\ requests[r].cart \in CartRecord
      BY <2>1 DEF Request
    <2> QED BY <1>0, <1>2, <2>2, AnswerType DEF InsertCart, TypeOK, Put
  <1>3. ASSUME NEW r \in Requests, NEW id \in Ids, NEW body \in Bodies,
               CallUpdateCart(r, id, body)
        PROVE  TypeOK'
    <2>1. [stage |-> "update", id |-> id, body |-> body] \in Request
      BY DEF Request
    <2> QED BY <1>0, <1>3, <2>1, GoType DEF CallUpdateCart, TypeOK
  <1>4. ASSUME NEW r \in Requests, LockCart(r) PROVE TypeOK'
    <2>1. requests[r] \in Request /\ requests[r].stage = "update"
      BY <1>0, <1>4 DEF LockCart, TypeOK
    <2>2. [requests[r] EXCEPT !.stage = "check"] \in Request
      BY <2>1 DEF Request
    <2> QED BY <1>0, <1>4, <2>2, GoType, AnswerType DEF LockCart, TypeOK
  <1>5. ASSUME NEW r \in Requests, PassCheck(r) PROVE TypeOK'
    <2>1. requests[r] \in Request /\ requests[r].stage = "check"
      BY <1>0, <1>5 DEF PassCheck, TypeOK
    <2>2. [requests[r] EXCEPT !.stage = "write"] \in Request
      BY <2>1 DEF Request
    <2> QED BY <1>0, <1>5, <2>2, GoType DEF PassCheck, TypeOK
  <1>6. ASSUME NEW r \in Requests, WriteCart(r) PROVE TypeOK'
    <2> DEFINE id == requests[r].id
               cart == Build(carts[id].currency, requests[r].body)
    <2>1. requests[r] \in Request /\ requests[r].stage = "write" /\ id \in DOMAIN carts
      BY <1>0, <1>6 DEF WriteCart, TypeOK, IInv, RequestsKnow, Knows
    <2>2. id \in Ids /\ requests[r].body \in Bodies /\ carts[id].currency \in Currencies
      BY <1>0, <2>1 DEF Request, TypeOK, CartRecord
    <2>3. cart \in CartRecord
      BY <2>2, BuildType
    <2>4. [stage |-> "reread", id |-> id] \in Request
      BY <2>2 DEF Request
    <2> QED BY <1>0, <1>6, <2>2, <2>3, <2>4, GoType DEF WriteCart, TypeOK
  <1>7. ASSUME NEW r \in Requests, NEW id \in Ids,
               CallGetCart(r, id) \/ CallCancelCart(r, id) \/ CallCreateSession(r, id)
        PROVE  TypeOK'
    <2>1. [stage |-> "get", id |-> id] \in Request
          /\ [stage |-> "cancel", id |-> id] \in Request
          /\ [stage |-> "snapshot", id |-> id] \in Request
      BY DEF Request
    <2> QED BY <1>0, <1>7, <2>1, GoType
           DEF CallGetCart, CallCancelCart, CallCreateSession, TypeOK
  <1>8. ASSUME NEW r \in Requests, FindCart(r) PROVE TypeOK'
    <2>1. requests[r] \in Request /\ requests[r].stage = "cancel"
      BY <1>0, <1>8 DEF FindCart, TypeOK
    <2>2. [stage |-> "mark", id |-> requests[r].id] \in Request
      BY <2>1 DEF Request
    <2> QED BY <1>0, <1>8, <2>2, GoType, AnswerType DEF FindCart, TypeOK
  <1>9. ASSUME NEW r \in Requests, MarkCancelled(r) PROVE TypeOK'
    <2>1. requests[r] \in Request /\ requests[r].stage = "mark"
      BY <1>0, <1>9 DEF MarkCancelled, TypeOK
    <2>2. requests[r].id \in Ids
      BY <2>1 DEF Request
    <2> QED BY <1>0, <1>9, <2>2, AnswerType DEF MarkCancelled, TypeOK
  <1>10. ASSUME NEW r \in Requests, ReadCart(r) PROVE TypeOK'
    <2> DEFINE id == requests[r].id
    <2>1. requests[r] \in Request /\ requests[r].stage = "snapshot"
      BY <1>0, <1>10 DEF ReadCart, TypeOK
    <2>2. id \in DOMAIN carts =>
            [stage |-> "frozen", id |-> id, cart |-> carts[id]] \in Request
      BY <1>0, <2>1 DEF Request, TypeOK
    <2> QED BY <1>0, <1>10, <2>2, GoType, AnswerType DEF ReadCart, TypeOK
  <1>11. ASSUME NEW r \in Requests, PriceSnapshot(r) PROVE TypeOK'
    <2>1. requests[r] \in Request /\ requests[r].stage = "frozen"
      BY <1>0, <1>11 DEF PriceSnapshot, TypeOK
    <2>2. [stage |-> "open", id |-> requests[r].id, cart |-> requests[r].cart,
           new |-> nextId] \in Request
      BY <1>0, <1>11, <2>1, MaxIdAssumption DEF Request, PriceSnapshot, GenId, TypeOK, Ids
    <2> QED BY <1>0, <1>11, <2>2, GoType, MaxIdAssumption DEF PriceSnapshot, GenId, TypeOK
  <1>12. ASSUME NEW r \in Requests, OpenSession(r) PROVE TypeOK'
    <2> DEFINE req == requests[r]
    <2>1. req \in Request /\ req.stage = "open" /\ Priced(req.cart)
      BY <1>0, <1>12 DEF OpenSession, TypeOK, IInv, RequestsKnow, Knows
    <2>2. req.id \in Ids /\ req.cart \in CartRecord /\ req.new \in Ids
      BY <2>1 DEF Request
    <2>3. [cart_id |-> req.id, cart |-> req.cart, total |-> TotalOf(req.cart)] \in Snapshot
      BY <2>1, <2>2, TotalType DEF Snapshot
    <2> QED BY <1>0, <1>12, <2>2, <2>3, AnswerType DEF OpenSession, TypeOK, Put
  <1>13. ASSUME NEW r \in Requests,
                \/ RefuseUpdate(r) \/ AnswerUpdate(r) \/ AnswerGet(r)
                \/ RefuseSession(r) \/ HangUp(r)
         PROVE  TypeOK'
    BY <1>0, <1>13, AnswerType
       DEF RefuseUpdate, AnswerUpdate, AnswerGet, RefuseSession, HangUp, TypeOK
  <1>14. ASSUME NEW r \in Requests, FetchCart(r) PROVE TypeOK'
    <2> DEFINE id == requests[r].id
    <2>1. requests[r] \in Request /\ requests[r].stage = "get"
      BY <1>0, <1>14 DEF FetchCart, TypeOK
    <2>2. id \in DOMAIN carts =>
            [stage |-> "look", id |-> id, cart |-> carts[id]] \in Request
      BY <1>0, <2>1 DEF Request, TypeOK
    <2> QED BY <1>0, <1>14, <2>2, GoType, AnswerType DEF FetchCart, TypeOK
  <1>15. ASSUME NEW r \in Requests, LookCancelled(r) PROVE TypeOK'
    <2> DEFINE req == requests[r]
               answer == [stage |-> "told", id |-> req.id, cart |-> req.cart,
                          cancelled |-> req.id \in cancelled]
    <2>1. req \in Request /\ req.stage = "look"
      BY <1>0, <1>15 DEF LookCancelled, TypeOK
    <2>2. answer \in Request
      BY <2>1 DEF Request
    <2> QED BY <1>0, <1>15, <2>2, GoType DEF LookCancelled, TypeOK
  <1>16. CASE UNCHANGED vars
    BY <1>0, <1>16 DEF vars, TypeOK
  <1> QED
    BY <1>1, <1>2, <1>3, <1>4, <1>5, <1>6, <1>7, <1>8, <1>9, <1>10, <1>11, <1>12, <1>13,
       <1>14, <1>15, <1>16
    DEF Next, Call, Serve
-----------------------------------------------------------------------------
(* The inductive invariant                                                 *)

\* Only carts and sessions in the type of their ids compare with the counter.
LEMMA IdsAreNumbers ==
  ASSUME TypeOK
  PROVE  /\ nextId \in Nat
         /\ \A id \in DOMAIN carts \cup DOMAIN sessions : id \in Nat
         /\ \A r \in Requests : \A id \in HandedOut(r) : id \in Nat
  BY MaxIdAssumption DEF TypeOK, Ids, HandedOut, At, Has, Request

\* Nothing is there before the first call.
LEMMA InvInit == Init => IInv
  <1> SUFFICES ASSUME Init PROVE IInv
    OBVIOUS
  <1>1. TypeOK
    BY TypeInit
  <1>2. \A r \in Requests : \A stage : ~At(r, stage)
    BY DEF Init, At, Has, EmptyStore
  <1>3. IdsAreUnique /\ IdsBelowCounter /\ CartsExclusion
    BY <1>2 DEF Init, EmptyStore, IdsAreUnique, IdsBelowCounter, CartsExclusion, HandedOut,
                HoldsCarts
  <1>4. RequestsKnow /\ CartsHoldServedProducts /\ LiveIsRecorded /\ SnapshotsWereLive
    BY DEF Init, EmptyStore, RequestsKnow, Knows, CartsHoldServedProducts, LiveIsRecorded,
           SnapshotsWereLive
  <1>5. AnswersWereTrue
    BY <1>2 DEF AnswersWereTrue
  <1> QED BY <1>1, <1>3, <1>4, <1>5 DEF IInv

\* The locals of q stay what they are.
Same(q) == Has(requests, q) => requests'[q] = requests[q]

\* A request that goes on: where it and the others are then.
LEMMA GoAt ==
  ASSUME NEW r \in Requests, NEW req, Go(r, req)
  PROVE  /\ Has(requests', r) /\ requests'[r] = req
         /\ \A q \in Requests : q # r =>
              (Has(requests', q) <=> Has(requests, q)) /\ Same(q)
         /\ HandedOut(r)' = IF req.stage = "insert" THEN {req.id}
                            ELSE IF req.stage = "open" THEN {req.new} ELSE {}
         /\ HoldsCarts(r)' <=> req.stage \in {"check", "write", "reread"}
         /\ \A q \in Requests : q # r =>
              HandedOut(q)' = HandedOut(q) /\ (HoldsCarts(q)' <=> HoldsCarts(q))
  <1>1. /\ Has(requests', r) /\ requests'[r] = req
        /\ \A q \in Requests : q # r =>
              (Has(requests', q) <=> Has(requests, q)) /\ Same(q)
    BY DEF Go, Put, Has, Same
  <1> QED BY <1>1 DEF At, HandedOut, HoldsCarts, Has, Same

\* A request that is answered or dropped: where the others are then.
LEMMA AnswerAt ==
  ASSUME NEW r \in Requests, Answer(r)
  PROVE  /\ ~Has(requests', r)
         /\ \A q \in Requests : q # r =>
              (Has(requests', q) <=> Has(requests, q)) /\ Same(q)
         /\ HandedOut(r)' = {} /\ ~HoldsCarts(r)'
         /\ \A q \in Requests : q # r =>
              HandedOut(q)' = HandedOut(q) /\ (HoldsCarts(q)' <=> HoldsCarts(q))
  <1>1. /\ ~Has(requests', r)
        /\ \A q \in Requests : q # r =>
              (Has(requests', q) <=> Has(requests, q)) /\ Same(q)
    BY DEF Answer, Without, Has, Same
  <1> QED BY <1>1 DEF At, HandedOut, HoldsCarts, Has, Same

\* Ids stay unique when a request gives back its id, and when it takes the
\* next one.
LEMMA IdsKept ==
  ASSUME IInv, NEW r \in Requests, UNCHANGED <<carts, sessions>>,
         \A q \in Requests : q # r => HandedOut(q)' = HandedOut(q),
         \/ HandedOut(r)' \subseteq HandedOut(r) /\ nextId' = nextId
         \/ HandedOut(r)' = {nextId} /\ nextId' = nextId + 1
  PROVE  IdsAreUnique' /\ IdsBelowCounter'
  <1>1. TypeOK
    BY DEF IInv
  <1> QED BY <1>1, IdsAreNumbers DEF IInv, IdsAreUnique, IdsBelowCounter

\* The lock of the carts keeps its holder when nobody takes it.
LEMMA ExclusionKept ==
  ASSUME IInv, NEW r \in Requests,
         \A q \in Requests : HoldsCarts(q)' => HoldsCarts(q)
  PROVE  CartsExclusion'
  BY DEF IInv, CartsExclusion

\* Steps that touch neither store nor the cancelled set leave alone what is
\* said of them, and what the other requests know.
LEMMA StoresKept ==
  ASSUME IInv, NEW r \in Requests, UNCHANGED <<carts, cancelled, sessions, live>>,
         DOMAIN requests \subseteq Requests, DOMAIN requests' \subseteq Requests,
         \A q \in Requests : q # r =>
           (Has(requests', q) <=> Has(requests, q)) /\ Same(q),
         Has(requests', r) => Knows(r)'
  PROVE  RequestsKnow' /\ CartsHoldServedProducts' /\ LiveIsRecorded' /\ SnapshotsWereLive'
  <1>1. RequestsKnow'
    BY DEF IInv, RequestsKnow, Knows, Has, Same, Served, Valid, Priced, InCart
  <1> QED BY <1>1 DEF IInv, CartsHoldServedProducts, LiveIsRecorded, SnapshotsWereLive

-----------------------------------------------------------------------------
(* The invariant through the calls of each endpoint                        *)

\* What is left to show of a step once its types are.
Rest ==
  /\ IdsAreUnique /\ IdsBelowCounter /\ CartsExclusion
  /\ RequestsKnow /\ CartsHoldServedProducts /\ LiveIsRecorded /\ SnapshotsWereLive

\* Requests that arrive know nothing yet, except that a new cart is valid.
LEMMA CallSafe ==
  ASSUME IInv, TypeOK', NEW r \in Requests, Call(r)
  PROVE  Rest'
  <1> USE DEF IInv
  <1>1. ASSUME NEW currency \in Currencies, NEW body \in Bodies,
               CallCreateCart(r, currency, body)
        PROVE  Rest'
    <2>1. Served(Build(currency, body))
      BY <1>1, BuildServed DEF CallCreateCart
    <2> DEFINE req == [stage |-> "insert", id |-> nextId, cart |-> Build(currency, body)]
    <2>2. Go(r, req) /\ ~Has(requests, r) /\ nextId' = nextId + 1
      BY <1>1 DEF CallCreateCart, GenId
    <2>3. HandedOut(r)' = {nextId}
      BY <2>2, GoAt
    <2>4. IdsAreUnique' /\ IdsBelowCounter'
      BY <1>1, <2>2, <2>3, GoAt, IdsKept DEF CallCreateCart
    <2>5. CartsExclusion'
      BY <2>2, GoAt, ExclusionKept
    <2>6. RequestsKnow' /\ CartsHoldServedProducts' /\ LiveIsRecorded' /\ SnapshotsWereLive'
      <3>1. requests'[r].stage = "insert" /\ Served(requests'[r].cart)
        BY <2>1, <2>2, GoAt
      <3>2. UNCHANGED <<carts, cancelled, sessions, live>>
        BY <1>1 DEF CallCreateCart
      <3> HIDE DEF req
      <3> QED BY <2>2, <3>1, <3>2, GoAt, StoresKept DEF Knows, TypeOK
    <2> QED BY <2>4, <2>5, <2>6 DEF Rest
  <1>2. ASSUME NEW req, Go(r, req), req.stage \in {"update", "get", "cancel", "snapshot"},
               UNCHANGED <<carts, cancelled, sessions, nextId, live>>
        PROVE  Rest'
    <2>1. IdsAreUnique' /\ IdsBelowCounter'
      BY <1>2, GoAt, IdsKept
    <2>2. CartsExclusion'
      BY <1>2, GoAt, ExclusionKept
    <2>3. RequestsKnow' /\ CartsHoldServedProducts' /\ LiveIsRecorded' /\ SnapshotsWereLive'
      BY <1>2, GoAt, StoresKept DEF Knows, TypeOK
    <2> QED BY <2>1, <2>2, <2>3 DEF Rest
  <1>3. ASSUME NEW id \in Ids, NEW body \in Bodies, CallUpdateCart(r, id, body) PROVE Rest'
    BY <1>2, <1>3 DEF CallUpdateCart
  <1>4. ASSUME NEW id \in Ids, CallCancelCart(r, id) PROVE Rest'
    BY <1>2, <1>4 DEF CallCancelCart
  <1>5. ASSUME NEW id \in Ids, CallCreateSession(r, id) PROVE Rest'
    BY <1>2, <1>5 DEF CallCreateSession
  <1>6. ASSUME NEW id \in Ids, CallGetCart(r, id) PROVE Rest'
    BY <1>2, <1>6 DEF CallGetCart
  <1> QED BY <1>1, <1>3, <1>4, <1>5, <1>6 DEF Call

\* A request that ends without touching a store.
LEMMA AnswerSafe ==
  ASSUME IInv, TypeOK', NEW r \in Requests, Answer(r),
         UNCHANGED <<carts, cancelled, sessions, nextId, live>>
  PROVE  Rest'
  <1> USE DEF IInv
  <1>1. IdsAreUnique' /\ IdsBelowCounter'
    BY AnswerAt, IdsKept
  <1>2. CartsExclusion'
    BY AnswerAt, ExclusionKept
  <1>3. RequestsKnow' /\ CartsHoldServedProducts' /\ LiveIsRecorded' /\ SnapshotsWereLive'
    BY AnswerAt, StoresKept DEF Knows, TypeOK
  <1> QED BY <1>1, <1>2, <1>3 DEF Rest

\* The new cart gets an id nobody else has.
LEMMA InsertCartSafe ==
  ASSUME IInv, TypeOK', NEW r \in Requests, InsertCart(r)
  PROVE  Rest'
  <1> USE DEF IInv
  <1> DEFINE req == requests[r]
  <1>1. /\ Answer(r) /\ CanCreate(carts, req.id)
        /\ carts' = Put(carts, req.id, req.cart) /\ live' = live \cup {<<req.id, req.cart>>}
        /\ UNCHANGED <<cancelled, sessions, nextId>>
    BY DEF InsertCart
  <1>2. r \in DOMAIN requests /\ req.stage = "insert" /\ HandedOut(r) = {req.id}
    BY DEF InsertCart, At, Has, HandedOut
  <1>3. IdsAreUnique' /\ IdsBelowCounter'
    BY <1>1, <1>2, AnswerAt DEF IdsAreUnique, IdsBelowCounter, Put
  <1>4. CartsExclusion'
    BY <1>1, AnswerAt, ExclusionKept
  <1>5. \A id \in DOMAIN carts : id # req.id /\ Has(carts', id) /\ carts'[id] = carts[id]
    BY <1>1 DEF CanCreate, Put, Has
  <1>6. RequestsKnow'
    <2> SUFFICES ASSUME NEW q \in DOMAIN requests'
                 PROVE  Knows(q)'
      BY DEF RequestsKnow
    <2>1. q \in DOMAIN requests /\ requests'[q] = requests[q]
      BY <1>1, AnswerAt DEF Has, Same, TypeOK
    <2> QED BY <1>1, <1>5, <2>1 DEF RequestsKnow, Knows, Has
  <1>7. CartsHoldServedProducts' /\ LiveIsRecorded' /\ SnapshotsWereLive'
    BY <1>1, <1>2, <1>5
       DEF CartsHoldServedProducts, LiveIsRecorded, SnapshotsWereLive, RequestsKnow, Knows, Put, Has
  <1> QED BY <1>3, <1>4, <1>6, <1>7 DEF Rest

\* The lock of the carts is taken when nobody has it.
LEMMA LockCartSafe ==
  ASSUME IInv, TypeOK', NEW r \in Requests, LockCart(r)
  PROVE  Rest'
  <1> USE DEF IInv
  <1>1. CASE ~Has(carts, requests[r].id)
    BY <1>1, AnswerSafe DEF LockCart
  <1>2. CASE Has(carts, requests[r].id)
    <2> DEFINE req == [requests[r] EXCEPT !.stage = "check"]
    <2>1. Go(r, req) /\ UNCHANGED <<carts, cancelled, sessions, nextId, live>>
      BY <1>2 DEF LockCart
    <2>2. req.stage = "check" /\ req.id = requests[r].id
      BY DEF LockCart, At, Has, TypeOK, Request
    <2>3. HandedOut(r)' = {}
      BY <2>1, <2>2, GoAt
    <2>4. IdsAreUnique' /\ IdsBelowCounter'
      BY <2>1, <2>3, GoAt, IdsKept
    <2>5. CartsExclusion'
      BY <2>1, GoAt DEF HoldsCarts, CartsExclusion, LockCart, CartsFree
    <2>6. RequestsKnow' /\ CartsHoldServedProducts' /\ LiveIsRecorded' /\ SnapshotsWereLive'
      BY <1>2, <2>1, <2>2, GoAt, StoresKept DEF Knows, TypeOK
    <2> QED BY <2>4, <2>5, <2>6 DEF Rest
  <1> QED BY <1>1, <1>2

\* The check looks at the cart the write is going to replace.
LEMMA PassCheckSafe ==
  ASSUME IInv, TypeOK', NEW r \in Requests, PassCheck(r)
  PROVE  Rest'
  <1> USE DEF IInv
  <1> DEFINE req == [requests[r] EXCEPT !.stage = "write"]
  <1>1. Go(r, req) /\ UNCHANGED <<carts, cancelled, sessions, nextId, live>>
    BY DEF PassCheck
  <1>2. r \in DOMAIN requests /\ requests[r] \in Request /\ requests[r].stage = "check"
    BY DEF PassCheck, At, Has, TypeOK
  <1>3. req.stage = "write" /\ req.id = requests[r].id /\ req.body = requests[r].body
    BY <1>2 DEF Request
  <1>4. HandedOut(r)' = {}
    BY <1>1, <1>3, GoAt
  <1>5. IdsAreUnique' /\ IdsBelowCounter'
    BY <1>1, <1>4, GoAt, IdsKept
  <1>6. CartsExclusion'
    BY <1>1, <1>3, GoAt, ExclusionKept DEF HoldsCarts, PassCheck
  <1>7. Has(carts, req.id) /\ Valid(carts[req.id].currency, req.body)
    BY <1>2, <1>3 DEF PassCheck, Refused, RequestsKnow, Knows
  <1>8. RequestsKnow' /\ CartsHoldServedProducts' /\ LiveIsRecorded' /\ SnapshotsWereLive'
    BY <1>1, <1>3, <1>7, GoAt, StoresKept DEF Knows, TypeOK
  <1> QED BY <1>5, <1>6, <1>8 DEF Rest

\* The write keeps the currency of the cart, so that what others checked of it
\* stays true.
LEMMA WriteCartSafe ==
  ASSUME IInv, TypeOK', NEW r \in Requests, WriteCart(r)
  PROVE  Rest'
  <1> USE DEF IInv
  <1> DEFINE id == requests[r].id
             cart == Build(carts[id].currency, requests[r].body)
             req == [stage |-> "reread", id |-> id]
  <1>1. /\ Go(r, req) /\ carts' = [carts EXCEPT ![id] = cart]
        /\ live' = IF id \in cancelled THEN live ELSE live \cup {<<id, cart>>}
        /\ UNCHANGED <<cancelled, sessions, nextId>>
    BY DEF WriteCart
  <1>2. r \in DOMAIN requests /\ requests[r] \in Request /\ requests[r].stage = "write"
    BY DEF WriteCart, At, Has, TypeOK
  <1>3. id \in DOMAIN carts /\ Valid(carts[id].currency, requests[r].body)
        /\ carts[id].currency \in Currencies /\ requests[r].body \in Bodies
    BY <1>2 DEF RequestsKnow, Knows, Has, TypeOK, CartRecord, Request
  <1>4. Served(cart) /\ cart.currency = carts[id].currency
    BY <1>3, BuildServed DEF Build
  <1>5. HandedOut(r)' = {}
    BY <1>1, GoAt
  <1>6. DOMAIN carts' = DOMAIN carts /\ \A i \in DOMAIN carts :
          carts'[i].currency = carts[i].currency
    BY <1>1, <1>4
  <1>7. IdsAreUnique' /\ IdsBelowCounter'
    BY <1>1, <1>5, <1>6, GoAt DEF IdsAreUnique, IdsBelowCounter
  <1>8. CartsExclusion'
    BY <1>1, GoAt, ExclusionKept DEF HoldsCarts, WriteCart
  <1>9. RequestsKnow'
    <2> SUFFICES ASSUME NEW q \in DOMAIN requests'
                 PROVE  Knows(q)'
      BY DEF RequestsKnow
    <2>1. CASE q = r
      BY <1>1, <2>1, GoAt DEF Knows
    <2>2. CASE q # r
      <3>1. q \in DOMAIN requests /\ requests'[q] = requests[q]
        BY <1>1, <2>2, GoAt DEF Has, Same, TypeOK
      <3> QED BY <1>1, <1>6, <3>1 DEF RequestsKnow, Knows, Has
    <2> QED BY <2>1, <2>2
  <1>10. CartsHoldServedProducts' /\ LiveIsRecorded' /\ SnapshotsWereLive'
    BY <1>1, <1>4, <1>6 DEF CartsHoldServedProducts, LiveIsRecorded, SnapshotsWereLive
  <1> QED BY <1>7, <1>8, <1>9, <1>10 DEF Rest

\* Only carts that exist are looked for to be cancelled.
LEMMA FindCartSafe ==
  ASSUME IInv, TypeOK', NEW r \in Requests, FindCart(r)
  PROVE  Rest'
  <1> USE DEF IInv
  <1>1. CASE ~Has(carts, requests[r].id)
    BY <1>1, AnswerSafe DEF FindCart
  <1>2. CASE Has(carts, requests[r].id)
    <2> DEFINE req == [stage |-> "mark", id |-> requests[r].id]
    <2>1. Go(r, req) /\ UNCHANGED <<carts, cancelled, sessions, nextId, live>>
      BY <1>2 DEF FindCart
    <2>2. IdsAreUnique' /\ IdsBelowCounter'
      BY <2>1, GoAt, IdsKept
    <2>3. CartsExclusion'
      BY <2>1, GoAt, ExclusionKept
    <2>4. RequestsKnow' /\ CartsHoldServedProducts' /\ LiveIsRecorded' /\ SnapshotsWereLive'
      <3>1. requests'[r].stage = "mark" /\ Has(carts, requests'[r].id)
        BY <1>2, <2>1, GoAt
      <3> HIDE DEF req
      <3> QED BY <2>1, <3>1, GoAt, StoresKept DEF Knows, TypeOK
    <2> QED BY <2>2, <2>3, <2>4 DEF Rest
  <1> QED BY <1>1, <1>2

\* A cancellation freezes nothing that a request still has to learn: what was
\* live when it was read has been live.
LEMMA MarkCancelledSafe ==
  ASSUME IInv, TypeOK', NEW r \in Requests, MarkCancelled(r)
  PROVE  Rest'
  <1> USE DEF IInv
  <1>1. /\ Answer(r) /\ cancelled' = cancelled \cup {requests[r].id}
        /\ UNCHANGED <<carts, sessions, nextId, live>>
    BY DEF MarkCancelled
  <1>2. r \in DOMAIN requests /\ Has(carts, requests[r].id)
    BY DEF MarkCancelled, At, Has, RequestsKnow, Knows
  <1>3. IdsAreUnique' /\ IdsBelowCounter'
    BY <1>1, AnswerAt, IdsKept
  <1>4. CartsExclusion'
    BY <1>1, AnswerAt, ExclusionKept
  <1>5. RequestsKnow'
    <2> SUFFICES ASSUME NEW q \in DOMAIN requests'
                 PROVE  Knows(q)'
      BY DEF RequestsKnow
    <2>1. q \in DOMAIN requests /\ requests'[q] = requests[q]
      BY <1>1, AnswerAt DEF Has, Same, TypeOK
    <2> QED BY <1>1, <2>1 DEF RequestsKnow, Knows, Has
  <1>6. CartsHoldServedProducts' /\ LiveIsRecorded' /\ SnapshotsWereLive'
    BY <1>1, <1>2 DEF CartsHoldServedProducts, LiveIsRecorded, SnapshotsWereLive, Has
  <1> QED BY <1>3, <1>4, <1>5, <1>6 DEF Rest

\* What a cart holds when it is read is recorded, or the cart is cancelled.
LEMMA ReadCartSafe ==
  ASSUME IInv, TypeOK', NEW r \in Requests, ReadCart(r)
  PROVE  Rest'
  <1> USE DEF IInv
  <1> DEFINE id == requests[r].id
  <1>1. CASE ~Has(carts, id)
    BY <1>1, AnswerSafe DEF ReadCart
  <1>2. CASE Has(carts, id)
    <2> DEFINE req == [stage |-> "frozen", id |-> id, cart |-> carts[id]]
    <2>1. Go(r, req) /\ UNCHANGED <<carts, cancelled, sessions, nextId, live>>
      BY <1>2 DEF ReadCart
    <2>2. IdsAreUnique' /\ IdsBelowCounter'
      BY <2>1, GoAt, IdsKept
    <2>3. CartsExclusion'
      BY <2>1, GoAt, ExclusionKept
    <2>4. id \in cancelled \/ <<id, carts[id]>> \in live
      BY <1>2 DEF LiveIsRecorded, Has
    <2>5. RequestsKnow' /\ CartsHoldServedProducts' /\ LiveIsRecorded' /\ SnapshotsWereLive'
      BY <2>1, <2>4, GoAt, StoresKept DEF Knows, TypeOK
    <2> QED BY <2>2, <2>3, <2>5 DEF Rest
  <1> QED BY <1>1, <1>2

\* So it is when it is read to be shown.
LEMMA FetchCartSafe ==
  ASSUME IInv, TypeOK', NEW r \in Requests, FetchCart(r)
  PROVE  Rest'
  <1> USE DEF IInv
  <1> DEFINE id == requests[r].id
  <1>1. CASE ~Has(carts, id)
    BY <1>1, AnswerSafe DEF FetchCart
  <1>2. CASE Has(carts, id)
    <2> DEFINE req == [stage |-> "look", id |-> id, cart |-> carts[id]]
    <2>1. Go(r, req) /\ UNCHANGED <<carts, cancelled, sessions, nextId, live>>
      BY <1>2 DEF FetchCart
    <2>2. IdsAreUnique' /\ IdsBelowCounter'
      BY <2>1, GoAt, IdsKept
    <2>3. CartsExclusion'
      BY <2>1, GoAt, ExclusionKept
    <2>4. id \in cancelled \/ <<id, carts[id]>> \in live
      BY <1>2 DEF LiveIsRecorded, Has
    <2>5. RequestsKnow' /\ CartsHoldServedProducts' /\ LiveIsRecorded' /\ SnapshotsWereLive'
      BY <2>1, <2>4, GoAt, StoresKept DEF Knows, TypeOK
    <2> QED BY <2>2, <2>3, <2>5 DEF Rest
  <1> QED BY <1>1, <1>2

\* A cart that is not cancelled when its answer is put together was not
\* cancelled when it was read.
LEMMA LookCancelledSafe ==
  ASSUME IInv, TypeOK', NEW r \in Requests, LookCancelled(r)
  PROVE  Rest'
  <1> USE DEF IInv
  <1> DEFINE flag == requests[r].id \in cancelled
             req == [stage |-> "told", id |-> requests[r].id, cart |-> requests[r].cart,
                     cancelled |-> flag]
  <1>1. Go(r, req) /\ UNCHANGED <<carts, cancelled, sessions, nextId, live>>
    BY DEF LookCancelled
  <1>2. IF req.cancelled THEN req.id \in cancelled ELSE <<req.id, req.cart>> \in live
    BY DEF LookCancelled, At, Has, RequestsKnow, Knows
  <1> HIDE DEF flag
  <1>3. IdsAreUnique' /\ IdsBelowCounter'
    BY <1>1, GoAt, IdsKept
  <1>4. CartsExclusion'
    BY <1>1, GoAt, ExclusionKept
  <1>5. RequestsKnow' /\ CartsHoldServedProducts' /\ LiveIsRecorded' /\ SnapshotsWereLive'
    BY <1>1, <1>2, GoAt, StoresKept DEF Knows, TypeOK
  <1> QED BY <1>3, <1>4, <1>5 DEF Rest

\* A cart that is not cancelled now was not cancelled when it was read.
LEMMA PriceSnapshotSafe ==
  ASSUME IInv, TypeOK', NEW r \in Requests, PriceSnapshot(r)
  PROVE  Rest'
  <1> USE DEF IInv
  <1> DEFINE req == [stage |-> "open", id |-> requests[r].id, cart |-> requests[r].cart,
                     new |-> nextId]
  <1>1. Go(r, req) /\ nextId' = nextId + 1 /\ UNCHANGED <<carts, cancelled, sessions, live>>
    BY DEF PriceSnapshot, GenId
  <1>2. <<req.id, req.cart>> \in live /\ Priced(req.cart)
    BY DEF PriceSnapshot, At, Has, RequestsKnow, Knows
  <1>3. IdsAreUnique' /\ IdsBelowCounter'
    BY <1>1, GoAt, IdsKept
  <1>4. CartsExclusion'
    BY <1>1, GoAt, ExclusionKept
  <1>5. RequestsKnow' /\ CartsHoldServedProducts' /\ LiveIsRecorded' /\ SnapshotsWereLive'
    BY <1>1, <1>2, GoAt, StoresKept DEF Knows, TypeOK
  <1> QED BY <1>3, <1>4, <1>5 DEF Rest

\* The session gets an id nobody else has, and a snapshot that was live.
LEMMA OpenSessionSafe ==
  ASSUME IInv, TypeOK', NEW r \in Requests, OpenSession(r)
  PROVE  Rest'
  <1> USE DEF IInv
  <1> DEFINE req == requests[r]
             snapshot == [cart_id |-> req.id, cart |-> req.cart, total |-> TotalOf(req.cart)]
  <1>1. /\ Answer(r) /\ CanCreate(sessions, req.new)
        /\ sessions' = Put(sessions, req.new, snapshot)
        /\ UNCHANGED <<carts, cancelled, nextId, live>>
    BY DEF OpenSession
  <1>2. r \in DOMAIN requests /\ req.stage = "open" /\ HandedOut(r) = {req.new}
    BY DEF OpenSession, At, Has, HandedOut
  <1>3. IdsAreUnique' /\ IdsBelowCounter'
    BY <1>1, <1>2, AnswerAt DEF IdsAreUnique, IdsBelowCounter, Put
  <1>4. CartsExclusion'
    BY <1>1, AnswerAt, ExclusionKept
  <1>5. RequestsKnow'
    <2> SUFFICES ASSUME NEW q \in DOMAIN requests'
                 PROVE  Knows(q)'
      BY DEF RequestsKnow
    <2>1. q \in DOMAIN requests /\ requests'[q] = requests[q]
      BY <1>1, AnswerAt DEF Has, Same, TypeOK
    <2> QED BY <1>1, <2>1 DEF RequestsKnow, Knows, Has
  <1>6. <<req.id, req.cart>> \in live
    BY <1>2 DEF RequestsKnow, Knows
  <1>7. CartsHoldServedProducts' /\ LiveIsRecorded' /\ SnapshotsWereLive'
    BY <1>1, <1>6 DEF CartsHoldServedProducts, LiveIsRecorded, SnapshotsWereLive, Put
  <1> QED BY <1>3, <1>4, <1>5, <1>7 DEF Rest

\* Every step preserves the inductive invariant.
LEMMA InvNext == IInv /\ [Next]_vars => IInv'
  <1> SUFFICES ASSUME IInv, [Next]_vars PROVE IInv'
    OBVIOUS
  <1>1. TypeOK'
    BY TypeNext
  <1>2. Rest'
    <2>1. ASSUME NEW r \in Requests, Call(r) PROVE Rest'
      BY <1>1, <2>1, CallSafe
    <2>2. ASSUME NEW r \in Requests, Serve(r) PROVE Rest'
      <3>1. RefuseUpdate(r) \/ AnswerUpdate(r) \/ RefuseSession(r) => Rest'
        BY <1>1, AnswerSafe DEF RefuseUpdate, AnswerUpdate, RefuseSession
      <3>2. AnswerGet(r) => Rest'
        BY <1>1, AnswerSafe DEF AnswerGet
      <3> QED
        BY <1>1, <2>2, <3>1, <3>2, FetchCartSafe, LookCancelledSafe, InsertCartSafe, LockCartSafe, PassCheckSafe, WriteCartSafe,
           FindCartSafe, MarkCancelledSafe, ReadCartSafe, PriceSnapshotSafe, OpenSessionSafe
        DEF Serve
    <2>3. ASSUME NEW r \in Requests, HangUp(r) PROVE Rest'
      BY <1>1, <2>3, AnswerSafe DEF HangUp
    <2>4. CASE UNCHANGED vars
      BY <2>4 DEF vars, IInv, Rest, IdsAreUnique, IdsBelowCounter, CartsExclusion, HandedOut,
                  HoldsCarts, At, RequestsKnow, Knows, CartsHoldServedProducts, LiveIsRecorded,
                  SnapshotsWereLive
    <2> QED BY <2>1, <2>2, <2>3, <2>4 DEF Next
  <1>3. AnswersWereTrue'
    BY <1>2 DEF Rest, RequestsKnow, Knows, AnswersWereTrue, At, Has
  <1> QED BY <1>1, <1>2, <1>3 DEF IInv, Rest
-----------------------------------------------------------------------------
(* The theorems                                                            *)

\* Whatever the requests and their interleaving, the inductive invariant holds.
THEOREM Inductive == Spec => []IInv
  <1> QED BY InvInit, InvNext, PTL DEF Spec

\* Every variable stays in its type.
THEOREM TypeCorrect == Spec => []TypeOK
  <1>1. IInv => TypeOK
    BY DEF IInv
  <1> QED BY <1>1, Inductive, PTL

\* An id of gen_id is used once: the `create` of a cart and that of a session
\* never find their key taken.
THEOREM UniqueIds == Spec => []IdsAreUnique
  <1>1. IInv => IdsAreUnique
    BY DEF IInv
  <1> QED BY <1>1, Inductive, PTL

\* No cart ever holds a product that is not served in its currency.
THEOREM OnlyServedProducts == Spec => []CartsHoldServedProducts
  <1>1. IInv => CartsHoldServedProducts
    BY DEF IInv
  <1> QED BY <1>1, Inductive, PTL

\* Every session is a snapshot of a cart at a moment it was not cancelled.
THEOREM LiveSnapshots == Spec => []SnapshotsWereLive
  <1>1. IInv => SnapshotsWereLive
    BY DEF IInv
  <1> QED BY <1>1, Inductive, PTL

\* GET /carts/{id} shows no state of a cart as open that the cart did not have
\* while it was open, and shows no open cart as cancelled.
THEOREM TrueAnswers == Spec => []AnswersWereTrue
  <1>1. IInv => AnswersWereTrue
    BY DEF IInv
  <1> QED BY <1>1, Inductive, PTL

\* Cancellations are for good, and of carts that exist.
THEOREM CancelledStays == Spec => CancelledForGood
  <1>1. IInv /\ [Next]_vars => cancelled \subseteq cancelled' /\ cancelled' \subseteq DOMAIN carts'
    <2> SUFFICES ASSUME IInv, [Next]_vars
                 PROVE  cancelled \subseteq cancelled' /\ cancelled' \subseteq DOMAIN carts'
      OBVIOUS
    <2>1. cancelled' \subseteq DOMAIN carts'
      BY InvNext DEF IInv, LiveIsRecorded
    <2>2. cancelled \subseteq cancelled'
      BY DEF Next, Call, Serve, vars, CallCreateCart, InsertCart, CallUpdateCart, LockCart,
             RefuseUpdate, PassCheck, WriteCart, AnswerUpdate, CallCancelCart, FindCart,
             MarkCancelled, CallGetCart, FetchCart, LookCancelled, AnswerGet, CallCreateSession, ReadCart, RefuseSession, PriceSnapshot,
             OpenSession, HangUp
    <2> QED BY <2>1, <2>2
  <1>2. IInv /\ [Next]_vars =>
          [cancelled \subseteq cancelled' /\ cancelled' \subseteq DOMAIN carts']_vars
    BY <1>1
  <1> QED BY <1>2, Inductive, PTL DEF Spec, CancelledForGood
=============================================================================
