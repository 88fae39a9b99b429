--------------------------- MODULE CheckoutProofs ---------------------------
(***************************************************************************)
(* Safety of the checkout handlers for every value of the constants, and   *)
(* their refinement of the atomic CheckoutSpec.  The refinement and the    *)
(* account of what was spent need caps so small that adding a total to one *)
(* stays in the range of an i64.  CartProofs brings the lemmas about sums. *)
(***************************************************************************)
EXTENDS Checkout, CartProofs

-----------------------------------------------------------------------------
(* The store operators                                                     *)

\* What a store holds after a write.
LEMMA PutFacts ==
  ASSUME NEW store, NEW k, NEW v
  PROVE  /\ DOMAIN Put(store, k, v) = DOMAIN store \cup {k}
         /\ Put(store, k, v)[k] = v
         /\ \A x \in DOMAIN store \ {k} : Put(store, k, v)[x] = store[x]
  BY DEF Put

\* What the table of requests holds after one of them is answered.
LEMMA WithoutFacts ==
  ASSUME NEW store, NEW k
  PROVE  /\ DOMAIN Without(store, k) = DOMAIN store \ {k}
         /\ \A x \in DOMAIN store \ {k} : Without(store, k)[x] = store[x]
  BY DEF Without

\* The wrapping sum is an i64.
LEMMA WrapAddType == \A m, n \in Units : WrapAdd(m, n) \in Units
  BY MaxUnitsAssumption DEF Units, MinUnits, WrapAdd, Wrap

\* A wrapping sum that stays in range is the sum.
LEMMA WrapAddExact ==
  \A m, n \in Units : m + n \in Units => WrapAdd(m, n) = m + n
  BY MaxUnitsAssumption DEF Units, MinUnits, WrapAdd, Wrap
-----------------------------------------------------------------------------
\* A session that can be paid ends up Paid, without an illegal transition.
LEMMA PaidFromPending ==
  /\ PaidFrom("Pending") = "Paid"
  /\ PaidFrom("Ready") = "Paid"
  /\ PaidFrom("Paid") = "Paid"
  BY DEF PaidFrom, ApplyEvent, CanCheckout, CheckoutTarget, CheckoutEdges

\* An event leads to a status.
LEMMA ApplyEventType ==
  \A st \in CheckoutStatus, e \in CheckoutEvent : ApplyEvent(st, e) \in CheckoutStatus
  BY DEF ApplyEvent, CheckoutTarget, CheckoutStatus, CheckoutEvent

-----------------------------------------------------------------------------
(* Types                                                                   *)

\* The table of requests keeps its type as requests come, go on and leave.
RequestsOK ==
  /\ DOMAIN requests \subseteq Requests
  /\ \A r \in DOMAIN requests : requests[r] \in Request

\* A request that moves to another stage keeps the type of the table.
LEMMA GoToType ==
  ASSUME RequestsOK, NEW r \in DOMAIN requests, NEW stage \in Stages, GoTo(r, stage)
  PROVE  RequestsOK'
  BY DEF RequestsOK, GoTo, Request

\* So does one that is answered.
LEMMA AnswerType ==
  ASSUME RequestsOK, NEW r, Answer(r)
  PROVE  RequestsOK'
  BY DEF RequestsOK, Answer, Without

\* So does one that waits for the agents with its copy of a session.
LEMMA AwaitAgentsType ==
  ASSUME RequestsOK, NEW r \in DOMAIN requests, NEW status \in CheckoutStatus,
         AwaitAgents(r, status)
  PROVE  RequestsOK'
  BY DEF RequestsOK, AwaitAgents, Request, Stages

\* Finalize when none of its steps fails.
Finalized(s) ==
  /\ ~Has(orders, s) /\ Has(sessions, s)
  /\ orders' = Put(orders, s, NewOrder(s))
  /\ sessions' = [sessions EXCEPT ![s].status = "Paid"]
  /\ completed' = completed + 1

\* On a session without an order that can be paid none does.
LEMMA FinalizeDone ==
  ASSUME TypeOK, NEW s, Completable(s), ~Has(orders, s), Finalize(s, sessions[s].status)
  PROVE  Finalized(s) /\ Finishes(s, sessions[s].status)
  <1>1. Has(sessions, s) /\ sessions[s].status \in {"Pending", "Ready", "Paid"}
    BY DEF TypeOK, Completable, Has, Session, CheckoutStatus, CheckoutTerminal
  <1>2. PaidFrom(sessions[s].status) = "Paid"
    BY <1>1, PaidFromPending
  <1> QED BY <1>1, <1>2 DEF Finalize, Finalized, Finishes, Creates, CanCreate, CanUpdate

\* ChargeAgent when nothing behind the charge fails.
Charged(r) ==
  LET a == requests[r].agent
      s == requests[r].session
  IN  /\ At(r, "agents")
      /\ MayCharge(a, sessions[s].total)
      /\ agents' = [agents EXCEPT ![a].spent.units = SpentAfter(a, sessions[s].total)]
      /\ charges' = Append(charges, ChargeOf(requests[r]))
      /\ Finalized(s) /\ Completable(s)
      /\ requests' = [requests EXCEPT ![r].stage = "audit", ![r].at = clock]
      /\ UNCHANGED <<audit, clock, registrations>>

\* Behind its charge a completion always creates the order, since what was
\* checked before the await is still so.
LEMMA ChargeAgentDone ==
  ASSUME IInv, NEW r \in Requests, ChargeAgent(r)
  PROVE  Charged(r)
  <1> DEFINE s == requests[r].session
  <1>1. /\ TypeOK /\ Completable(s) /\ ~Has(orders, s)
        /\ requests[r].found = sessions[s].status
    BY DEF ChargeAgent, At, Has, IInv, NoLateError
  <1>2. Finalize(s, sessions[s].status)
    BY <1>1 DEF ChargeAgent
  <1>3. Finalized(s) /\ Finishes(s, requests[r].found)
    BY <1>1, <1>2, FinalizeDone
  <1> QED BY <1>1, <1>3 DEF ChargeAgent, Charged

\* CompleteUncharged likewise.
LEMMA CompleteUnchargedDone ==
  ASSUME IInv, NEW r \in Requests, CompleteUncharged(r)
  PROVE  Finalized(requests[r].session) /\ Completable(requests[r].session)
  BY FinalizeDone DEF CompleteUncharged, IInv

\* The history after a charge.
LEMMA ChargesGrow ==
  ASSUME IInv, NEW r, Charged(r)
  PROVE  /\ DOMAIN charges' = DOMAIN charges \cup {Len(charges) + 1}
         /\ Len(charges) + 1 \notin DOMAIN charges
         /\ \A i \in DOMAIN charges : charges'[i] = charges[i]
         /\ charges'[Len(charges) + 1].agent = requests[r].agent
         /\ charges'[Len(charges) + 1].session = requests[r].session
         /\ charges'[Len(charges) + 1].registration = registrations[requests[r].agent]
  <1>1. charges \in Seq(Charge) /\ charges' = Append(charges, ChargeOf(requests[r]))
    BY DEF IInv, TypeOK, Charged
  <1>2. charges'[Len(charges) + 1] = ChargeOf(requests[r])
    BY <1>1
  <1> QED BY <1>1, <1>2 DEF ChargeOf

\* Writing the order, the session and the counter keeps their types.
LEMMA FinalizeType ==
  ASSUME TypeOK, NEW s \in SessionIds, Finalized(s)
  PROVE  /\ DOMAIN sessions' \subseteq SessionIds
         /\ \A x \in DOMAIN sessions' : sessions'[x] \in Session
         /\ DOMAIN orders' \subseteq SessionIds
         /\ \A x \in DOMAIN orders' : orders'[x] \in Order
         /\ completed' \in Nat
  <1>1. s \in DOMAIN sessions /\ sessions[s] \in Session
    BY DEF Finalized, Has, TypeOK
  <1>2. "Paid" \in CheckoutStatus
    BY DEF CheckoutStatus
  <1>3. NewOrder(s) \in Order
    BY <1>1 DEF NewOrder, Order, Session, OrderStatus
  <1>4. /\ DOMAIN sessions' = DOMAIN sessions
        /\ \A x \in DOMAIN sessions' : sessions'[x] \in Session
    BY <1>1, <1>2 DEF Finalized, TypeOK, Session
  <1>5. /\ DOMAIN orders' \subseteq SessionIds
        /\ \A x \in DOMAIN orders' : orders'[x] \in Order
    BY <1>3 DEF Finalized, Put, TypeOK
  <1>6. completed' \in Nat
    BY DEF Finalized, TypeOK
  <1> QED BY <1>4, <1>5, <1>6 DEF TypeOK

\* What register_agent stores is a record.
LEMMA FreshRecordType == \A cap \in Caps \cup {DemoCap} : FreshRecord(cap) \in Record
  BY AmountsAssumption, MaxUnitsAssumption
     DEF FreshRecord, Record, Zero, Amount, Units, MinUnits

\* A fresh AppState has the types.
LEMMA TypeInit == Init => TypeOK
  BY AgentsAssumption, FreshRecordType
     DEF Init, TypeOK, EmptyStore

\* Every step keeps the types, given what a request knows when it resumes.
LEMMA TypeNext == IInv /\ [Next]_vars => TypeOK'
  <1> SUFFICES ASSUME IInv, [Next]_vars PROVE TypeOK'
    OBVIOUS
  <1> USE DEF Has, At
  <1>a. TypeOK
    BY DEF IInv
  <1>0. RequestsOK
    BY <1>a DEF TypeOK, RequestsOK
  <1>1. ASSUME NEW a \in Agents, NEW cap \in Caps, Register(a, cap) PROVE TypeOK'
    BY <1>a, <1>1, FreshRecordType DEF Register, TypeOK, Put
  <1>2. ASSUME NEW s \in SessionIds, NEW total \in Totals, OpenSession(s, total)
        PROVE  TypeOK'
    <2>1. NewSession(total) \in Session
      BY <1>a, <1>2, BoundsAssumption DEF NewSession, Session, CheckoutStatus, TypeOK
    <2> QED BY <1>a, <1>2, <2>1 DEF OpenSession, TypeOK, Put
  <1>3. ASSUME NEW r \in Requests, NEW stage \in Stages, NEW s \in SessionIds,
               NEW a \in Agents \cup {Mcp}, Arrive(r, stage, s, a)
        PROVE  TypeOK'
    <2>1. [stage |-> stage, session |-> s, agent |-> a, found |-> "Pending", at |-> 0]
            \in Request
      BY DEF Request, CheckoutStatus
    <2> QED BY <1>a, <1>3, <2>1 DEF Arrive, TypeOK, Put
  <1>4. ASSUME NEW r \in Requests, LockOrders(r) PROVE TypeOK'
    <2>1. RequestsOK'
      BY <1>0, <1>4, GoToType DEF LockOrders, Stages
    <2> QED BY <1>a, <1>4, <2>1 DEF LockOrders, TypeOK, RequestsOK
  <1>5. ASSUME NEW r \in Requests, AnswerEarly(r) PROVE TypeOK'
    <2>1. RequestsOK'
      BY <1>0, <1>5, AnswerType DEF AnswerEarly
    <2> QED BY <1>a, <1>5, <2>1 DEF AnswerEarly, TypeOK, RequestsOK
  <1>6. ASSUME NEW r \in Requests, CompleteUncharged(r) PROVE TypeOK'
    <2>1. RequestsOK'
      BY <1>0, <1>6, AnswerType DEF CompleteUncharged
    <2>2. requests[r].session \in SessionIds /\ Finalized(requests[r].session)
      BY <1>0, <1>6, CompleteUnchargedDone DEF CompleteUncharged, RequestsOK, Request
    <2> QED BY <1>a, <1>6, <2>1, <2>2, FinalizeType DEF CompleteUncharged, TypeOK, RequestsOK
  <1>7. ASSUME NEW r \in Requests, LockSessions(r) PROVE TypeOK'
    <2>1. \A x \in DOMAIN sessions : sessions[x].status \in CheckoutStatus
      BY <1>a DEF TypeOK, Session
    <2>2. RequestsOK'
      BY <1>0, <1>7, <2>1, AwaitAgentsType DEF LockSessions, Completable
    <2> QED BY <1>a, <1>7, <2>2 DEF LockSessions, TypeOK, RequestsOK
  <1>8. ASSUME NEW r \in Requests, ChargeAgent(r) PROVE TypeOK'
    <2> DEFINE a == requests[r].agent
               s == requests[r].session
    <2>0. Charged(r)
      BY <1>8, ChargeAgentDone
    <2>1. requests[r] \in Request /\ s \in SessionIds /\ Finalized(s)
      BY <1>0, <2>0 DEF Charged, RequestsOK, Request
    <2>2. /\ a \in DOMAIN agents /\ a \in Agents /\ agents[a] \in Record
          /\ sessions[s].total \in Totals /\ Totals \subseteq Amount
      BY <1>a, <2>0, <2>1, AmountsAssumption DEF Charged, MayCharge, Finalized, TypeOK, Session
    <2>3. SpentAfter(a, sessions[s].total) \in Units
      BY <2>2, WrapAddType DEF SpentAfter, Record, Amount
    <2>4. /\ DOMAIN agents' = DOMAIN agents
          /\ \A b \in DOMAIN agents' : agents'[b] \in Record
      <3>1. agents' = [agents EXCEPT ![a].spent.units = SpentAfter(a, sessions[s].total)]
        BY <2>0 DEF Charged
      <3> QED BY <1>a, <3>1, <2>2, <2>3 DEF TypeOK, Record, Amount
    <2>5. charges' \in Seq(Charge)
      <3>1. ChargeOf(requests[r]) \in Charge
        BY <1>a, <2>1, <2>2 DEF ChargeOf, Charge, TypeOK
      <3> QED BY <1>a, <2>0, <3>1 DEF Charged, TypeOK
    <2>6. RequestsOK'
      BY <1>0, <1>a, <2>0, <2>1 DEF Charged, RequestsOK, Request, Stages, TypeOK
    <2> QED BY <1>a, <2>0, <2>1, <2>4, <2>5, <2>6, FinalizeType
            DEF Charged, TypeOK, RequestsOK
  <1>9. ASSUME NEW r \in Requests, RefuseCharge(r) PROVE TypeOK'
    <2>1. RequestsOK'
      BY <1>0, <1>9, AnswerType DEF RefuseCharge
    <2> QED BY <1>a, <1>9, <2>1 DEF RefuseCharge, TypeOK, RequestsOK
  <1>10. ASSUME NEW r \in Requests, PushReceipt(r) PROVE TypeOK'
    <2>1. RequestsOK'
      BY <1>0, <1>10, AnswerType DEF PushReceipt
    <2>2. ReceiptOf(requests[r]) \in Receipt
      <3>1. /\ requests[r] \in Request /\ requests[r].stage = "audit"
            /\ requests[r].agent \in Agents
            /\ Has(orders, requests[r].session)
        BY <1>0, <1>10 DEF PushReceipt, RequestsOK, IInv, OnBehalfOfAgent, ReceiptDue
      <3> QED BY <1>a, <3>1 DEF ReceiptOf, Receipt, Request, TypeOK, Order
    <2> QED BY <1>a, <1>10, <2>1, <2>2 DEF PushReceipt, TypeOK, RequestsOK
  <1>11. ASSUME NEW r \in Requests, CancelSession(r) PROVE TypeOK'
    <2>1. RequestsOK'
      BY <1>0, <1>11, AnswerType DEF CancelSession
    <2>2. /\ DOMAIN sessions' = DOMAIN sessions
          /\ \A x \in DOMAIN sessions' : sessions'[x] \in Session
      BY <1>a, <1>11, ApplyEventType DEF CancelSession, TypeOK, Session, CheckoutEvent
    <2> QED BY <1>a, <1>11, <2>1, <2>2 DEF CancelSession, TypeOK, RequestsOK
  <1>12. ASSUME NEW r \in Requests, HangUp(r) PROVE TypeOK'
    <2>1. RequestsOK'
      BY <1>0, <1>12, AnswerType DEF HangUp
    <2> QED BY <1>a, <1>12, <2>1 DEF HangUp, TypeOK, RequestsOK
  <1>13. CASE Tick
    BY <1>a, <1>13 DEF Tick, TypeOK
  <1>14. ASSUME NEW s \in SessionIds, ConfirmOrder(s) PROVE TypeOK'
    <2>1. DOMAIN orders' = DOMAIN orders /\ \A x \in DOMAIN orders' : orders'[x] \in Order
      BY <1>a, <1>14 DEF ConfirmOrder, TypeOK, Order, OrderTarget, OrderStatus
    <2> QED BY <1>a, <1>14, <2>1 DEF ConfirmOrder, TypeOK
  <1>15. CASE UNCHANGED vars
    BY <1>a, <1>15 DEF vars, TypeOK
  <1> QED
    BY <1>a, <1>1, <1>2, <1>3, <1>4, <1>5, <1>6, <1>7, <1>8, <1>9, <1>10, <1>11, <1>12,
       <1>13, <1>14, <1>15
    DEF Next, Serve, CallComplete, CallCancel, Stages
-----------------------------------------------------------------------------
(* The other parts of the invariant                                        *)

\* What IInv says of one request, spelled out.
LEMMA RequestFacts ==
  ASSUME IInv, NEW r \in Requests
  PROVE  /\ \A q \in Requests : HoldsOrders(q) /\ HoldsOrders(r) => q = r
         /\ At(r, "agents") \/ At(r, "audit") => requests[r].agent \in Agents
         /\ At(r, "audit") \/ At(r, "agents") => ~SessionsFree
  BY DEF IInv, Exclusion, OnBehalfOfAgent, SessionsFree, HoldsSessions, HoldsOrders, At, Has

\* Steps that only move, add or remove requests: nobody gets to a stage whose
\* claims do not hold.
RequestsInv == Exclusion /\ NoLateError /\ OnBehalfOfAgent /\ ReceiptDue

\* What is said of the stores alone survives a step that leaves them alone.
LEMMA DataUnchanged ==
  ASSUME IInv, UNCHANGED <<sessions, orders, agents, audit, charges>>
  PROVE  PaidIffOrdered' /\ ChargedOnce' /\ WithinCap' /\ ReceiptsHaveOrders'
           /\ ReceiptsMatchCharges' /\ NeverReady'
  BY DEF IInv, NeverReady, PaidIffOrdered, ChargedOnce, WithinCap, ReceiptsHaveOrders,
         ReceiptsMatchCharges, Has

\* A request that arrives claims nothing yet.
LEMMA ArriveInv ==
  ASSUME IInv, NEW r \in Requests, NEW stage \in {"orders", "cancel"},
         NEW s \in SessionIds, NEW a \in Agents \cup {Mcp}, Arrive(r, stage, s, a)
  PROVE  RequestsInv'
  BY DEF Arrive, RequestsInv, IInv, Exclusion, NoLateError, OnBehalfOfAgent,
         ReceiptDue, HoldsOrders, At, Has, Put, Completable, Finishes, Creates, CanCreate,
         CanUpdate

\* A request that is answered takes its claims with it.
LEMMA AnswerInv ==
  ASSUME IInv, NEW r \in Requests, Answer(r),
         UNCHANGED <<sessions, orders, audit, charges>>
  PROVE  RequestsInv'
  BY DEF Answer, RequestsInv, IInv, Exclusion, NoLateError, OnBehalfOfAgent,
         ReceiptDue, HoldsOrders, At, Has, Without, Completable, Finishes, Creates,
         CanCreate, CanUpdate

\* The orders lock is taken when it is free.
LEMMA LockOrdersInv ==
  ASSUME IInv, NEW r \in Requests, LockOrders(r)
  PROVE  RequestsInv'
  BY DEF LockOrders, GoTo, OrdersFree, RequestsInv, IInv, TypeOK, Request, Exclusion, NoLateError, OnBehalfOfAgent,
         ReceiptDue, HoldsOrders, At, Has, Completable, Finishes, Creates, CanCreate, CanUpdate

\* What a completion found in the two stores is what NoLateError asks for.
LEMMA LockSessionsInv ==
  ASSUME IInv, NEW r \in Requests, LockSessions(r)
  PROVE  RequestsInv'
  <1>1. Exclusion'
    BY DEF LockSessions, AwaitAgents, IInv, TypeOK, Request, Exclusion, HoldsOrders, At, Has
  <1>2. NoLateError'
    <2> DEFINE s == requests[r].session
    <2>1. /\ r \in DOMAIN requests /\ requests[r] \in Request
          /\ ~Has(orders, s) /\ Completable(s)
          /\ requests' = [requests EXCEPT ![r].stage = "agents", ![r].found = sessions[s].status]
          /\ UNCHANGED <<orders, sessions>>
      BY DEF LockSessions, AwaitAgents, IInv, TypeOK, At, Has
    <2>2. sessions[s].status \in {"Pending", "Ready", "Paid"} /\ Has(sessions, s)
      BY <2>1 DEF IInv, TypeOK, Completable, Has, Session, CheckoutStatus, CheckoutTerminal
    <2>3. Finishes(s, sessions[s].status)
      BY <2>1, <2>2, PaidFromPending DEF Finishes, Creates, CanCreate, CanUpdate
    <2>4. requests'[r].session = s /\ requests'[r].found = sessions[s].status
      BY <2>1 DEF Request
    <2>5. \A q \in DOMAIN requests' \ {r} : q \in DOMAIN requests /\ requests'[q] = requests[q]
      BY <2>1
    <2>6. \A x, st : /\ Finishes(x, st)' <=> Finishes(x, st)
                     /\ Completable(x)' <=> Completable(x)
                     /\ Has(orders', x) <=> Has(orders, x)
      BY <2>1 DEF Finishes, Creates, CanCreate, CanUpdate, Completable, Has
    <2> QED BY <2>1, <2>3, <2>4, <2>5, <2>6 DEF IInv, NoLateError
  <1>3. OnBehalfOfAgent'
    BY DEF LockSessions, AwaitAgents, IInv, TypeOK, Request, OnBehalfOfAgent, At, Has
  <1>4. ReceiptDue'
    BY DEF LockSessions, AwaitAgents, IInv, TypeOK, Request, ReceiptDue, At, Has
  <1> QED BY <1>1, <1>2, <1>3, <1>4 DEF RequestsInv

\* Nobody is at a stage behind the sessions lock while that lock is free.
LEMMA NobodyBehindSessions ==
  ASSUME IInv, SessionsFree, NEW r \in DOMAIN requests
  PROVE  requests[r].stage \notin {"agents", "audit"}
  BY DEF IInv, TypeOK, SessionsFree, HoldsSessions, HoldsOrders, At, Has

\* Everything IInv says apart from the types.
Safe ==
  /\ RequestsInv
  /\ PaidIffOrdered /\ ChargedOnce /\ WithinCap
  /\ ReceiptsHaveOrders /\ ReceiptsMatchCharges
  /\ NeverReady

\* A new registration starts below its cap.
LEMMA RegisterSafe ==
  ASSUME IInv, NEW a \in Agents, NEW cap \in Caps, Register(a, cap)
  PROVE  Safe'
  <1>1. WithinCap'
    BY AmountsAssumption DEF IInv, WithinCap, Register, Put, FreshRecord, Zero
  <1> QED BY <1>1 DEF Register, Safe, RequestsInv, IInv, NeverReady, PaidIffOrdered, ChargedOnce,
         ReceiptsHaveOrders, ReceiptsMatchCharges, Exclusion, NoLateError,
         OnBehalfOfAgent, ReceiptDue, HoldsOrders, At, Has, Completable, Finishes, Creates,
         CanCreate, CanUpdate

\* A webhook waits for the orders lock, and so finds nobody between the checks
\* and the charge; it changes no total, and which orders exist no more.
LEMMA ConfirmOrderSafe ==
  ASSUME IInv, NEW s \in SessionIds, ConfirmOrder(s)
  PROVE  Safe'
  <1>0. /\ DOMAIN orders' = DOMAIN orders
        /\ \A x \in DOMAIN orders : orders'[x].total = orders[x].total
        /\ UNCHANGED <<sessions, agents, audit, requests, charges>>
    BY DEF ConfirmOrder, IInv, TypeOK, Order
  <1>1. \A r \in DOMAIN requests : requests[r].stage \notin {"agents", "audit"}
    BY DEF ConfirmOrder, IInv, TypeOK, OrdersFree, HoldsOrders, At, Has
  <1>2. RequestsInv'
    BY <1>0, <1>1
    DEF RequestsInv, IInv, Exclusion, NoLateError, OnBehalfOfAgent, ReceiptDue, HoldsOrders, At, Has
  <1>3. PaidIffOrdered' /\ NeverReady' /\ WithinCap'
    BY <1>0 DEF IInv, PaidIffOrdered, NeverReady, WithinCap, Has
  <1>4. ChargedOnce' /\ ReceiptsHaveOrders'
    BY <1>0 DEF IInv, ChargedOnce, ReceiptsHaveOrders, Has
  <1>5. ReceiptsMatchCharges'
    BY <1>0 DEF IInv, ReceiptsMatchCharges, ReceiptsHaveOrders, Has
  <1> QED BY <1>2, <1>3, <1>4, <1>5 DEF Safe

\* A new session is Pending, and replaces none.
LEMMA OpenSessionSafe ==
  ASSUME IInv, NEW s \in SessionIds, NEW total \in Totals, OpenSession(s, total)
  PROVE  Safe'
  <1>1. RequestsInv'
    BY NobodyBehindSessions
    DEF OpenSession, RequestsInv, IInv, Exclusion, NoLateError, OnBehalfOfAgent,
        ReceiptDue, HoldsOrders, At, Has
  <1>2. PaidIffOrdered' /\ NeverReady'
    BY DEF OpenSession, NeverReady, IInv, PaidIffOrdered, CanCreate, Has, Put, NewSession
  <1>3. ChargedOnce' /\ WithinCap' /\ ReceiptsHaveOrders' /\ ReceiptsMatchCharges'
    BY DEF OpenSession, IInv, ChargedOnce, WithinCap, ReceiptsHaveOrders,
           ReceiptsMatchCharges, Has
  <1> QED BY <1>1, <1>2, <1>3 DEF Safe

\* A cancellation finds nobody between the checks and the charge, and leaves a
\* Paid session Paid.
LEMMA CancelSessionSafe ==
  ASSUME IInv, NEW r \in Requests, CancelSession(r)
  PROVE  Safe'
  <1>1. RequestsInv'
    BY NobodyBehindSessions
    DEF CancelSession, Answer, Without, RequestsInv, IInv, Exclusion, NoLateError,
        OnBehalfOfAgent, ReceiptDue, HoldsOrders, At, Has
  <1>2. PaidIffOrdered' /\ NeverReady'
    BY DEF CancelSession, NeverReady, IInv, TypeOK, Session, CheckoutStatus, PaidIffOrdered, Has,
           ApplyEvent, CanCheckout, CheckoutTarget, CheckoutEdges
  <1>3. ChargedOnce' /\ WithinCap' /\ ReceiptsHaveOrders' /\ ReceiptsMatchCharges'
    BY DEF CancelSession, IInv, ChargedOnce, WithinCap, ReceiptsHaveOrders,
           ReceiptsMatchCharges, Has
  <1> QED BY <1>1, <1>2, <1>3 DEF Safe

\* Finalize pays the session and creates its only order in one step.
LEMMA FinalizeSafe ==
  ASSUME IInv, NEW s \in SessionIds, Finalized(s)
  PROVE  /\ PaidIffOrdered' /\ NeverReady'
         /\ DOMAIN orders' = DOMAIN orders \cup {s}
         /\ \A x \in DOMAIN orders : orders'[x] = orders[x]
         /\ s \notin DOMAIN orders
  <1>1. sessions[s] \in Session
    BY DEF IInv, TypeOK, Finalized, Has
  <1> QED BY <1>1 DEF IInv, TypeOK, PaidIffOrdered, NeverReady, Finalized, Has, Put, NewOrder,
                      Session

\* A completion without an agent charges nobody.
LEMMA CompleteUnchargedSafe ==
  ASSUME IInv, NEW r \in Requests, CompleteUncharged(r)
  PROVE  Safe'
  <1>0. PICK s \in SessionIds : s = requests[r].session /\ Finalized(s)
    BY CompleteUnchargedDone DEF CompleteUncharged, At, Has, IInv, TypeOK, Request
  <1>1. RequestsInv'
    BY NobodyBehindSessions
    DEF CompleteUncharged, Answer, Without, RequestsInv, IInv, Exclusion, NoLateError,
        OnBehalfOfAgent, ReceiptDue, HoldsOrders, At, Has
  <1>2. /\ PaidIffOrdered' /\ NeverReady'
        /\ ReceiptsHaveOrders' /\ ReceiptsMatchCharges' /\ ChargedOnce'
    BY <1>0, FinalizeSafe
    DEF CompleteUncharged, IInv, ReceiptsHaveOrders, ReceiptsMatchCharges, ChargedOnce, Has
  <1>3. WithinCap'
    BY DEF CompleteUncharged, IInv, WithinCap
  <1> QED BY <1>1, <1>2, <1>3 DEF Safe

\* A charge is the first and only one of its session.
LEMMA ChargeAgentSafe ==
  ASSUME IInv, NEW r \in Requests, ChargeAgent(r)
  PROVE  Safe'
  <1> DEFINE s == requests[r].session
             a == requests[r].agent
             new == Len(charges) + 1
  <1>a. Charged(r)
    BY ChargeAgentDone
  <1>0. /\ s \in SessionIds /\ Finalized(s)
        /\ r \in DOMAIN requests /\ requests[r].stage = "agents"
        /\ a \in Agents /\ a \in DOMAIN agents
        /\ audit' = audit
    BY <1>a DEF Charged, MayCharge, At, Has, IInv, TypeOK, Request, OnBehalfOfAgent
  <1>b. /\ DOMAIN charges' = DOMAIN charges \cup {new} /\ new \notin DOMAIN charges
        /\ \A i \in DOMAIN charges : charges'[i] = charges[i]
        /\ charges'[new].agent = a /\ charges'[new].session = s
    BY <1>a, ChargesGrow
  <1>1. /\ DOMAIN requests' = DOMAIN requests
        /\ requests'[r].stage = "audit" /\ requests'[r].session = s /\ requests'[r].agent = a
        /\ \A q \in DOMAIN requests \ {r} : requests'[q] = requests[q]
    BY <1>a, <1>0 DEF Charged, IInv, TypeOK, Request
  <1>2. \A q \in DOMAIN requests \ {r} :
          requests[q].stage \notin {"sessions", "agents", "audit"}
    BY <1>0 DEF IInv, TypeOK, Exclusion, HoldsOrders, At, Has
  <1>3. /\ PaidIffOrdered' /\ NeverReady'
        /\ DOMAIN orders' = DOMAIN orders \cup {s}
        /\ \A x \in DOMAIN orders : orders'[x] = orders[x]
        /\ s \notin DOMAIN orders
    BY <1>0, FinalizeSafe
  <1>4. Exclusion' /\ NoLateError' /\ OnBehalfOfAgent'
    BY <1>0, <1>1, <1>2
    DEF IInv, Exclusion, NoLateError, OnBehalfOfAgent, HoldsOrders, At, Has
  <1>5. ReceiptDue'
    <2>1. \A q \in DOMAIN requests' : requests'[q].stage = "audit" => q = r
      BY <1>1, <1>2
    <2>2. s \in DOMAIN orders'
      BY <1>3
    <2>3. \E k \in DOMAIN charges' : charges'[k].agent = a /\ charges'[k].session = s
      BY <1>b
    <2>4. \A i \in DOMAIN audit' : audit'[i].order # s
      BY <1>0, <1>3 DEF IInv, ReceiptsHaveOrders, Has
    <2> QED BY <1>1, <2>1, <2>2, <2>3, <2>4 DEF ReceiptDue, Has
  <1>6. ChargedOnce'
    BY <1>b, <1>3 DEF IInv, ChargedOnce, Has
  <1>7. WithinCap'
    BY <1>a, <1>0 DEF Charged, MayCharge, IInv, TypeOK, Record, Amount, WithinCap
  <1>8. ReceiptsHaveOrders' /\ ReceiptsMatchCharges'
    BY <1>0, <1>b, <1>3 DEF IInv, ReceiptsHaveOrders, ReceiptsMatchCharges, Has
  <1> QED BY <1>3, <1>4, <1>5, <1>6, <1>7, <1>8 DEF Safe, RequestsInv

\* A receipt is the first and only one of its order.
LEMMA PushReceiptSafe ==
  ASSUME IInv, NEW r \in Requests, PushReceipt(r)
  PROVE  Safe'
  <1> DEFINE receipt == ReceiptOf(requests[r])
  <1>0. /\ r \in DOMAIN requests /\ requests[r].stage = "audit"
        /\ audit' = Append(audit, receipt)
        /\ UNCHANGED <<sessions, orders, agents, charges>>
        /\ audit \in Seq(Receipt)
    BY DEF PushReceipt, At, Has, IInv, TypeOK
  <1>1. /\ DOMAIN audit' = DOMAIN audit \cup {Len(audit) + 1}
        /\ Len(audit) + 1 \notin DOMAIN audit
        /\ \A i \in DOMAIN audit : audit'[i] = audit[i]
        /\ audit'[Len(audit) + 1] = receipt
    BY <1>0
  <1>2. /\ Has(orders, receipt.order)
        /\ receipt.amount = orders[receipt.order].total
        /\ \E k \in DOMAIN charges :
             charges[k].agent = receipt.agent /\ charges[k].session = receipt.order
        /\ \A i \in DOMAIN audit : audit[i].order # receipt.order
    BY <1>0 DEF IInv, ReceiptDue, ReceiptOf
  <1>3. \A q \in DOMAIN requests \ {r} :
          requests[q].stage \notin {"sessions", "agents", "audit"}
    BY <1>0 DEF IInv, TypeOK, Exclusion, HoldsOrders, At, Has
  <1>4. RequestsInv'
    BY <1>0, <1>3 DEF PushReceipt, Answer, Without, RequestsInv, IInv, Exclusion,
       NoLateError, OnBehalfOfAgent, ReceiptDue, HoldsOrders, At, Has, Completable,
       Finishes, Creates, CanCreate, CanUpdate
  <1>5. ReceiptsHaveOrders'
    BY <1>0, <1>1, <1>2 DEF IInv, ReceiptsHaveOrders, Has
  <1>6. ReceiptsMatchCharges'
    BY <1>0, <1>1, <1>2 DEF IInv, ReceiptsMatchCharges
  <1>7. PaidIffOrdered' /\ NeverReady' /\ ChargedOnce' /\ WithinCap'
    BY <1>0 DEF IInv, NeverReady, PaidIffOrdered, ChargedOnce, WithinCap, Has
  <1> QED BY <1>4, <1>5, <1>6, <1>7 DEF Safe
-----------------------------------------------------------------------------
(* The audit log in time, and the counter                                  *)

Timely == AuditChronological /\ ReceiptsTimely

\* Steps after which nobody else waits for the log, at a time not earlier.
LEMMA TimelyKept ==
  ASSUME IInv, UNCHANGED audit, clock <= clock', clock' \in Nat,
         \A r \in DOMAIN requests' : requests'[r].stage = "audit" =>
           r \in DOMAIN requests /\ requests[r] = requests'[r]
  PROVE  Timely'
  <1>1. AuditChronological'
    BY DEF IInv, AuditChronological
  <1>2. /\ clock \in Nat /\ audit \in Seq(Receipt)
        /\ \A r \in DOMAIN requests : requests[r].at \in Nat
    BY DEF IInv, TypeOK, Request
  <1>3. ASSUME NEW i \in DOMAIN audit PROVE audit[i].at \in Nat
    <2>1. audit[i] \in Receipt
      BY <1>2
    <2> QED BY <2>1 DEF Receipt
  <1>4. ReceiptsTimely'
    BY <1>2, <1>3 DEF IInv, ReceiptsTimely
  <1> QED BY <1>1, <1>4 DEF Timely

\* A charge is dated now, which is not before any receipt.
LEMMA ChargeAgentTimely ==
  ASSUME IInv, NEW r \in Requests, ChargeAgent(r)
  PROVE  Timely'
  <1>1. /\ r \in DOMAIN requests /\ requests[r].stage = "agents"
        /\ UNCHANGED <<audit, clock>> /\ clock \in Nat
        /\ requests' = [requests EXCEPT ![r].stage = "audit", ![r].at = clock]
    BY ChargeAgentDone DEF Charged, At, Has, IInv, TypeOK
  <1>2. \A q \in DOMAIN requests \ {r} : requests[q].stage # "audit"
    BY <1>1 DEF IInv, TypeOK, Exclusion, HoldsOrders, At, Has
  <1>3. requests[r] \in Request
    BY <1>1 DEF IInv, TypeOK
  <1>4. /\ requests'[r].at = clock
        /\ \A q \in DOMAIN requests' \ {r} : requests'[q].stage # "audit"
    BY <1>1, <1>2, <1>3 DEF Request
  <1> QED BY <1>1, <1>4 DEF Timely, IInv, AuditChronological, ReceiptsTimely

\* A receipt that is written was dated after those that are, and no other is
\* due.
LEMMA PushReceiptTimely ==
  ASSUME IInv, NEW r \in Requests, PushReceipt(r)
  PROVE  Timely'
  <1> DEFINE receipt == ReceiptOf(requests[r])
  <1>1. /\ r \in DOMAIN requests /\ requests[r].stage = "audit"
        /\ audit' = Append(audit, receipt) /\ audit \in Seq(Receipt)
        /\ clock' = clock /\ receipt.at = requests[r].at
        /\ requests' = Without(requests, r)
    BY DEF PushReceipt, Answer, ReceiptOf, At, Has, IInv, TypeOK
  <1>2. /\ DOMAIN audit' = DOMAIN audit \cup {Len(audit) + 1}
        /\ \A i \in DOMAIN audit : audit'[i] = audit[i] /\ i \in 1 .. Len(audit)
        /\ audit'[Len(audit) + 1] = receipt /\ Len(audit) \in Nat
    BY <1>1
  <1>3. /\ receipt.at <= clock
        /\ \A i \in DOMAIN audit : audit[i].at <= receipt.at /\ audit[i].at <= clock
    BY <1>1 DEF IInv, ReceiptsTimely
  <1>4. \A q \in DOMAIN requests' : requests'[q].stage # "audit"
    BY <1>1 DEF Without, IInv, TypeOK, Exclusion, HoldsOrders, At, Has
  <1>5. receipt.at \in Nat
    BY <1>1 DEF IInv, TypeOK, Request
  <1>6. AuditChronological'
    <2> SUFFICES ASSUME NEW i \in DOMAIN audit', NEW j \in DOMAIN audit', i < j
                 PROVE  audit'[i].at <= audit'[j].at
      BY DEF AuditChronological
    <2>1. i \in DOMAIN audit
      BY <1>2
    <2>2. CASE j \in DOMAIN audit
      BY <1>2, <2>1, <2>2 DEF IInv, AuditChronological
    <2>3. CASE j = Len(audit) + 1
      BY <1>2, <1>3, <2>1, <2>3
    <2> QED BY <1>2, <2>2, <2>3
  <1>7. ReceiptsTimely'
    BY <1>1, <1>2, <1>3, <1>4 DEF ReceiptsTimely
  <1> QED BY <1>6, <1>7 DEF Timely

\* Receipts stay in the order of their times.
LEMMA TimelyNext == IInv /\ [Next]_vars => Timely'
  <1> SUFFICES ASSUME IInv, [Next]_vars PROVE Timely'
    OBVIOUS
  <1>0. clock \in Nat /\ \A r \in DOMAIN requests : requests[r] \in Request
    BY DEF IInv, TypeOK
  <1>1. ASSUME NEW r \in Requests, ChargeAgent(r) PROVE Timely'
    BY <1>1, ChargeAgentTimely
  <1>2. ASSUME NEW r \in Requests, PushReceipt(r) PROVE Timely'
    BY <1>2, PushReceiptTimely
  <1>3. CASE Tick \/ UNCHANGED vars
    BY <1>0, <1>3, TimelyKept DEF Tick, vars
  <1>4. ASSUME NEW r \in Requests,
               AnswerEarly(r) \/ CompleteUncharged(r) \/ RefuseCharge(r)
                 \/ CancelSession(r) \/ HangUp(r)
        PROVE  Timely'
    <2>1. Answer(r) /\ UNCHANGED <<audit, clock>>
      BY <1>4 DEF AnswerEarly, CompleteUncharged, RefuseCharge, CancelSession, HangUp
    <2> QED BY <1>0, <2>1, TimelyKept DEF Answer, Without
  <1>5. ASSUME NEW r \in Requests, LockOrders(r) \/ LockSessions(r) PROVE Timely'
    <2>1. r \in DOMAIN requests /\ UNCHANGED <<audit, clock>>
      BY <1>5 DEF LockOrders, LockSessions, At, Has
    <2>2. /\ DOMAIN requests' = DOMAIN requests
          /\ requests'[r].stage # "audit"
          /\ \A q \in DOMAIN requests \ {r} : requests'[q] = requests[q]
      BY <1>0, <1>5, <2>1 DEF LockOrders, LockSessions, GoTo, AwaitAgents, Request
    <2> QED BY <1>0, <2>1, <2>2, TimelyKept
  <1>6. ASSUME NEW r \in Requests, NEW stage \in {"orders", "cancel"},
               NEW s \in SessionIds, NEW a \in Agents \cup {Mcp}, Arrive(r, stage, s, a)
        PROVE  Timely'
    BY <1>0, <1>6, TimelyKept DEF Arrive, Put, Has
  <1>7. ASSUME UNCHANGED <<audit, clock, requests>> PROVE Timely'
    BY <1>0, <1>7, TimelyKept
  <1> QED
    BY <1>1, <1>2, <1>3, <1>4, <1>5, <1>6, <1>7
    DEF Next, Serve, CallComplete, CallCancel, Register, OpenSession, ConfirmOrder

OrdersCounted == IsFiniteSet(DOMAIN orders) /\ CompletedCountsOrders

\* An order more, and one more completed checkout.
LEMMA FinalizeCounted ==
  ASSUME IInv, NEW s, Finalized(s)
  PROVE  OrdersCounted'
  <1>1. /\ DOMAIN orders' = DOMAIN orders \cup {s} /\ s \notin DOMAIN orders
        /\ completed' = completed + 1
    BY DEF Finalized, Has, Put
  <1>2. IsFiniteSet(DOMAIN orders) /\ completed = Cardinality(DOMAIN orders)
    BY DEF IInv, CompletedCountsOrders
  <1>3. /\ IsFiniteSet(DOMAIN orders \cup {s})
        /\ Cardinality(DOMAIN orders \cup {s}) = Cardinality(DOMAIN orders) + 1
    BY <1>1, <1>2, FS_AddElement
  <1> QED BY <1>1, <1>2, <1>3 DEF OrdersCounted, CompletedCountsOrders

\* The counter keeps up with the orders.
LEMMA CountedNext == IInv /\ [Next]_vars => OrdersCounted'
  <1> SUFFICES ASSUME IInv, [Next]_vars PROVE OrdersCounted'
    OBVIOUS
  <1>1. ASSUME DOMAIN orders' = DOMAIN orders, UNCHANGED completed PROVE OrdersCounted'
    BY <1>1 DEF IInv, OrdersCounted, CompletedCountsOrders
  <1>2. ASSUME NEW r \in Requests, CompleteUncharged(r) \/ ChargeAgent(r)
        PROVE  OrdersCounted'
    BY <1>2, FinalizeCounted, CompleteUnchargedDone, ChargeAgentDone DEF Charged
  <1> QED
    BY <1>1, <1>2
    DEF Next, Serve, Register, OpenSession, CallComplete, CallCancel, Arrive, LockOrders,
        AnswerEarly, LockSessions, RefuseCharge, PushReceipt, CancelSession, HangUp, Tick,
        ConfirmOrder, vars

\* Registrations only go up, and a charge bears the current one.
LEMMA ChargesPastNext == IInv /\ [Next]_vars => ChargesPast'
  <1> SUFFICES ASSUME IInv, [Next]_vars PROVE ChargesPast'
    OBVIOUS
  <1>0. /\ ChargesPast /\ charges \in Seq(Charge)
        /\ \A i \in DOMAIN charges : charges[i] \in Charge
        /\ registrations \in [Agents -> Nat]
    BY DEF IInv, TypeOK
  <1>1. ASSUME UNCHANGED <<charges, registrations>> PROVE ChargesPast'
    BY <1>0, <1>1 DEF ChargesPast
  <1>2. ASSUME NEW a \in Agents, NEW cap \in Caps, Register(a, cap) PROVE ChargesPast'
    BY <1>0, <1>2 DEF Register, ChargesPast, Charge
  <1>3. ASSUME NEW r \in Requests, ChargeAgent(r) PROVE ChargesPast'
    <2>1. /\ Charged(r) /\ registrations' = registrations
          /\ requests[r].agent \in Agents
      BY <1>3, ChargeAgentDone DEF Charged, MayCharge, At, Has, IInv, TypeOK, OnBehalfOfAgent
    <2>2. registrations[requests[r].agent] <= registrations[requests[r].agent]
      BY <1>0, <2>1
    <2> QED BY <1>0, <2>1, <2>2, ChargesGrow DEF ChargesPast
  <1> QED
    BY <1>1, <1>2, <1>3
    DEF Next, Serve, OpenSession, CallComplete, CallCancel, Arrive, LockOrders,
        AnswerEarly, CompleteUncharged, LockSessions, RefuseCharge, PushReceipt,
        CancelSession, HangUp, Tick, ConfirmOrder, vars
-----------------------------------------------------------------------------
\* IInv holds in every reachable state.
LEMMA InvInit == Init => IInv
  <1> SUFFICES ASSUME Init PROVE IInv
    OBVIOUS
  <1>1. TypeOK
    BY TypeInit
  <1>2. WithinCap
    BY AmountsAssumption DEF Init, WithinCap, FreshRecord, Zero
  <1>3. /\ Exclusion /\ PaidIffOrdered /\ NoLateError /\ OnBehalfOfAgent /\ ChargedOnce
        /\ ReceiptDue /\ ReceiptsHaveOrders /\ ReceiptsMatchCharges /\ NeverReady
    BY DEF Init, NeverReady, EmptyStore, Exclusion, HoldsOrders, At, Has, PaidIffOrdered, NoLateError,
           OnBehalfOfAgent, ChargedOnce, ReceiptDue, ReceiptsHaveOrders, ReceiptsMatchCharges
  <1>4. AuditChronological /\ ReceiptsTimely
    BY DEF Init, EmptyStore, AuditChronological, ReceiptsTimely
  <1>5. IsFiniteSet(DOMAIN orders) /\ CompletedCountsOrders
    BY FS_EmptySet DEF Init, EmptyStore, CompletedCountsOrders
  <1>6. ChargesPast
    BY DEF Init, ChargesPast
  <1> QED BY <1>1, <1>2, <1>3, <1>4, <1>5, <1>6 DEF IInv

\* Every step preserves the inductive invariant.
LEMMA InvNext == IInv /\ [Next]_vars => IInv'
  <1> SUFFICES ASSUME IInv, [Next]_vars PROVE IInv'
    OBVIOUS
  <1>1. TypeOK'
    BY TypeNext
  <1>2. Safe'
    <2>1. ASSUME NEW a \in Agents, NEW cap \in Caps, Register(a, cap) PROVE Safe'
      BY <2>1, RegisterSafe
    <2>2. ASSUME NEW s \in SessionIds, NEW total \in Totals, OpenSession(s, total)
          PROVE  Safe'
      BY <2>2, OpenSessionSafe
    <2>3. ASSUME NEW r \in Requests, NEW stage \in {"orders", "cancel"},
                 NEW s \in SessionIds, NEW a \in Agents \cup {Mcp}, Arrive(r, stage, s, a)
          PROVE  Safe'
      BY <2>3, ArriveInv, DataUnchanged DEF Arrive, Safe
    <2>4. ASSUME NEW r \in Requests, LockOrders(r) PROVE Safe'
      BY <2>4, LockOrdersInv, DataUnchanged DEF LockOrders, Safe
    <2>5. ASSUME NEW r \in Requests, AnswerEarly(r) PROVE Safe'
      BY <2>5, AnswerInv, DataUnchanged DEF AnswerEarly, Safe
    <2>6. ASSUME NEW r \in Requests, CompleteUncharged(r) PROVE Safe'
      BY <2>6, CompleteUnchargedSafe
    <2>7. ASSUME NEW r \in Requests, LockSessions(r) PROVE Safe'
      BY <2>7, LockSessionsInv, DataUnchanged DEF LockSessions, Safe
    <2>8. ASSUME NEW r \in Requests, ChargeAgent(r) PROVE Safe'
      BY <2>8, ChargeAgentSafe
    <2>9. ASSUME NEW r \in Requests, RefuseCharge(r) PROVE Safe'
      BY <2>9, AnswerInv, DataUnchanged DEF RefuseCharge, Safe
    <2>10. ASSUME NEW r \in Requests, PushReceipt(r) PROVE Safe'
      BY <2>10, PushReceiptSafe
    <2>11. ASSUME NEW r \in Requests, CancelSession(r) PROVE Safe'
      BY <2>11, CancelSessionSafe
    <2>12. ASSUME NEW r \in Requests, HangUp(r) PROVE Safe'
      BY <2>12, AnswerInv, DataUnchanged DEF HangUp, Safe
    <2>13. CASE Tick \/ UNCHANGED vars
      <3>1. UNCHANGED <<sessions, orders, agents, audit, charges, requests>>
        BY <2>13 DEF Tick, vars
      <3>2. RequestsInv'
        BY <3>1 DEF RequestsInv, IInv, Exclusion, NoLateError, OnBehalfOfAgent,
           ReceiptDue, HoldsOrders, At, Has, Completable, Finishes, Creates, CanCreate, CanUpdate
      <3> QED BY <3>1, <3>2, DataUnchanged DEF Safe
    <2>14. ASSUME NEW s \in SessionIds, ConfirmOrder(s) PROVE Safe'
      BY <2>14, ConfirmOrderSafe
    <2> QED
      BY <2>1, <2>2, <2>3, <2>4, <2>5, <2>6, <2>7, <2>8, <2>9, <2>10, <2>11, <2>12, <2>13, <2>14
      DEF Next, Serve, CallComplete, CallCancel
  <1>3. Timely' /\ OrdersCounted' /\ ChargesPast'
    BY TimelyNext, CountedNext, ChargesPastNext
  <1> QED BY <1>1, <1>2, <1>3 DEF IInv, Safe, RequestsInv, Timely, OrdersCounted

\* Whatever the requests, their interleaving and the hang-ups, the inductive
\* invariant of complete_checkout and cancel_checkout holds.
THEOREM Inductive == Spec => []IInv
  BY InvInit, InvNext, PTL DEF Spec

\* The stores hold what their types say.
THEOREM TypeCorrect == Spec => []TypeOK
  <1>1. IInv => TypeOK
    BY DEF IInv
  <1> QED BY <1>1, Inductive, PTL

\* A session is Paid exactly when its order exists.
THEOREM PaymentConsistent == Spec => []PaidIffOrdered
  <1>1. IInv => PaidIffOrdered
    BY DEF IInv
  <1> QED BY <1>1, Inductive, PTL

\* No session is charged twice, whoever completes it and how often, and none
\* is charged without having its order.
THEOREM SingleCharge == Spec => []ChargedOnce
  <1>1. IInv => ChargedOnce
    BY DEF IInv
  <1> QED BY <1>1, Inductive, PTL

\* The branches behind a successful charge cannot fail.
THEOREM ChecksSurviveAwait == Spec => []NoLateError
  <1>1. IInv => NoLateError
    BY DEF IInv
  <1> QED BY <1>1, Inductive, PTL

\* The recorded spend stays within the cap.
THEOREM SpendCapped == Spec => []WithinCap
  <1>1. IInv => WithinCap
    BY DEF IInv
  <1> QED BY <1>1, Inductive, PTL

\* No order is receipted twice, and receipts tell who was charged.
THEOREM ReceiptsTrue == Spec => []ReceiptsMatchCharges
  <1>1. IInv => ReceiptsMatchCharges
    BY DEF IInv
  <1> QED BY <1>1, Inductive, PTL

\* Receipts are in the order of their times, whatever the interleaving, on a
\* clock that does not step back.
THEOREM ReceiptsInOrder == Spec => []AuditChronological
  <1>1. IInv => AuditChronological
    BY DEF IInv
  <1> QED BY <1>1, Inductive, PTL

\* checkouts_completed is the number of orders.
THEOREM CounterRight == Spec => []CompletedCountsOrders
  <1>1. IInv => CompletedCountsOrders
    BY DEF IInv
  <1> QED BY <1>1, Inductive, PTL
-----------------------------------------------------------------------------
(* What no step may do                                                     *)

\* Finalize only adds an order, and only changes a session that is open.
LEMMA FinalizeKeepsClosed ==
  ASSUME IInv, NEW s, Finalized(s), Completable(s)
  PROVE  /\ \A x \in DOMAIN orders : x \in DOMAIN orders' /\ orders'[x] = orders[x]
         /\ \A x \in DOMAIN sessions : sessions[x].status \in CheckoutTerminal =>
              x \in DOMAIN sessions' /\ sessions'[x] = sessions[x]
  <1>1. sessions[s].status \notin CheckoutTerminal
    BY DEF IInv, PaidIffOrdered, Finalized, Completable, Has
  <1> QED BY <1>1 DEF Finalized, Put, Has

\* Orders stay, but for being confirmed when they are paid, and so do sessions
\* that are Paid, Cancelled or Failed.
THEOREM ClosedStayClosed == Spec => ClosedForGood
  <1> DEFINE Closed ==
        /\ \A s \in DOMAIN orders :
             /\ Has(orders', s)
             /\ orders'[s] \in {orders[s], [orders[s] EXCEPT !.status = "Confirmed"]}
        /\ \A s \in DOMAIN sessions :
             sessions[s].status \in CheckoutTerminal =>
               Has(sessions', s) /\ sessions'[s] = sessions[s]
  <1>1. ASSUME IInv, Next PROVE Closed
    <2> USE <1>1 DEF Has
    <2>1. ASSUME UNCHANGED <<sessions, orders>> PROVE Closed
      BY <2>1
    <2>2. ASSUME NEW s \in SessionIds, NEW total \in Totals, OpenSession(s, total)
          PROVE  Closed
      BY <2>2 DEF OpenSession, CanCreate, Put
    <2>3. ASSUME NEW r \in Requests, CompleteUncharged(r) PROVE Closed
      BY <2>3, CompleteUnchargedDone, FinalizeKeepsClosed
    <2>4. ASSUME NEW r \in Requests, ChargeAgent(r) PROVE Closed
      BY <2>4, ChargeAgentDone, FinalizeKeepsClosed DEF Charged
    <2>5. ASSUME NEW r \in Requests, CancelSession(r) PROVE Closed
      <3>1. \A s \in DOMAIN sessions : sessions[s].status \in CheckoutTerminal =>
              ApplyEvent(sessions[s].status, "MarkCancelled") = sessions[s].status
        BY DEF CheckoutTerminal, ApplyEvent, CanCheckout, CheckoutTarget, CheckoutEdges
      <3>2. \A s \in DOMAIN sessions : sessions[s] \in Session
        BY DEF IInv, TypeOK
      <3> QED BY <2>5, <3>1, <3>2 DEF CancelSession, Session
    <2>6. ASSUME NEW s \in SessionIds, ConfirmOrder(s) PROVE Closed
      BY <2>6 DEF ConfirmOrder, OrderTarget
    <2> QED
      BY <2>1, <2>2, <2>3, <2>4, <2>5, <2>6
      DEF Next, Serve, Register, CallComplete, CallCancel, Arrive, LockOrders, AnswerEarly,
          LockSessions, RefuseCharge, PushReceipt, HangUp, Tick
  <1>2. IInv /\ [Next]_vars => [Closed]_vars
    BY <1>1
  <1> QED BY <1>2, Inductive, PTL DEF Spec, ClosedForGood

\* The audit log is only appended to.
THEOREM AuditOnlyGrows == Spec => AuditAppendOnly
  <1> DEFINE Grown == /\ Len(audit') = Len(audit) + 1
                      /\ \A i \in DOMAIN audit : audit'[i] = audit[i]
  <1>1. ASSUME IInv, Next PROVE Grown \/ UNCHANGED audit
    <2>1. ASSUME NEW r \in Requests, PushReceipt(r) PROVE Grown
      BY <1>1, <2>1 DEF PushReceipt, IInv, TypeOK
    <2> QED
      BY <1>1, <2>1
      DEF Next, Serve, Register, OpenSession, CallComplete, CallCancel, Arrive, LockOrders,
          AnswerEarly, CompleteUncharged, LockSessions, ChargeAgent, RefuseCharge,
          CancelSession, HangUp, Tick, ConfirmOrder
  <1>2. IInv /\ [Next]_vars => [Grown]_audit
    BY <1>1 DEF vars
  <1> QED BY <1>2, Inductive, PTL DEF Spec, AuditAppendOnly
-----------------------------------------------------------------------------
(* Without overflow                                                        *)

\* The handlers run to their end.
NoHangUp == MayDrop = FALSE

\* Adding a total to a spend within the cap cannot wrap.
NoOverflow == \A cap \in Caps \cup {DemoCap}, t \in Totals : cap.units + t.units <= MaxUnits

\* The spend never turns negative, which a wrapping sum would make it.
NonNegative == \A a \in DOMAIN agents : agents[a].spent.units >= 0

\* A charge that is accepted adds the exact total.
LEMMA ChargeExact ==
  ASSUME IInv, NonNegative, NoOverflow, NEW a \in DOMAIN agents,
         NEW s \in DOMAIN sessions
  PROVE  /\ SpentAfter(a, sessions[s].total)
              = agents[a].spent.units + sessions[s].total.units
         /\ SpentAfter(a, sessions[s].total) >= 0
  <1>1. /\ agents[a] \in Record
        /\ agents[a].spent.units <= agents[a].limit.units
        /\ agents[a].spent.units >= 0
    BY DEF IInv, TypeOK, WithinCap, NonNegative
  <1>2. sessions[s].total \in Totals /\ sessions[s].total \in Amount
    BY AmountsAssumption DEF IInv, TypeOK, Session
  <1>3. /\ sessions[s].total.units \in Units /\ sessions[s].total.units >= 0
        /\ agents[a].spent.units \in Units /\ agents[a].limit.units \in Units
    BY <1>1, <1>2, AmountsAssumption DEF Record, Amount
  <1>4. agents[a].limit.units + sessions[s].total.units <= MaxUnits
    BY <1>1, <1>2 DEF NoOverflow, Record
  <1>5. agents[a].spent.units + sessions[s].total.units \in Units
    BY <1>1, <1>3, <1>4, MaxUnitsAssumption DEF Units, MinUnits
  <1> QED BY <1>1, <1>3, <1>5, WrapAddExact DEF SpentAfter, Units

\* Nothing is spent at first.
LEMMA NonNegativeInit == Init => NonNegative
  BY DEF Init, NonNegative, FreshRecord, Zero

\* Without overflow no charge makes a spend negative.
LEMMA NonNegativeNext ==
  ASSUME NoOverflow
  PROVE  IInv /\ NonNegative /\ [Next]_vars => NonNegative'
  <1> SUFFICES ASSUME IInv, NonNegative, [Next]_vars PROVE NonNegative'
    OBVIOUS
  <1>1. ASSUME UNCHANGED agents PROVE NonNegative'
    BY <1>1 DEF NonNegative
  <1>2. ASSUME NEW a \in Agents, NEW cap \in Caps, Register(a, cap) PROVE NonNegative'
    BY <1>2 DEF Register, Put, FreshRecord, Zero, NonNegative
  <1>3. ASSUME NEW r \in Requests, ChargeAgent(r) PROVE NonNegative'
    <2> DEFINE a == requests[r].agent
               s == requests[r].session
    <2>1. /\ a \in DOMAIN agents /\ s \in DOMAIN sessions
          /\ agents' = [agents EXCEPT ![a].spent.units = SpentAfter(a, sessions[s].total)]
          /\ agents[a] \in Record
      BY <1>3, ChargeAgentDone DEF Charged, Finalized, MayCharge, At, Has, IInv, TypeOK
    <2>2. SpentAfter(a, sessions[s].total) >= 0
      BY <2>1, ChargeExact
    <2> QED BY <2>1, <2>2 DEF NonNegative, Record, Amount
  <1> QED
    BY <1>1, <1>2, <1>3
    DEF Next, Serve, CallComplete, CallCancel, Arrive, OpenSession, LockOrders, AnswerEarly,
        CompleteUncharged, LockSessions, RefuseCharge, PushReceipt, CancelSession, HangUp,
        Tick, ConfirmOrder, vars
-----------------------------------------------------------------------------
(* What was spent                                                          *)

\* A charged session exists, and its total is an integer.
LEMMA ChargedTotal ==
  ASSUME IInv, NEW i \in DOMAIN charges
  PROVE  /\ charges[i].session \in DOMAIN sessions
         /\ ChargedUnits[i] = sessions[charges[i].session].total.units
         /\ ChargedUnits[i] \in Int
  <1>1. /\ charges[i].session \in DOMAIN sessions
        /\ sessions[charges[i].session] \in Session
    BY DEF IInv, TypeOK, ChargedOnce, PaidIffOrdered, Has
  <1>2. sessions[charges[i].session].total \in Amount
    BY <1>1, AmountsAssumption DEF Session
  <1> QED BY <1>1, <1>2 DEF Amount, Units, ChargedUnits

\* A step that keeps the charges made before it and the totals of their
\* sessions keeps every sum of them.
KeepsCharges ==
  \A i \in DOMAIN charges :
    /\ i \in DOMAIN charges' /\ charges'[i] = charges[i]
    /\ sessions'[charges[i].session].total = sessions[charges[i].session].total

\* The sums over such a step.
LEMMA SumKept ==
  ASSUME IInv, KeepsCharges, NEW S \in SUBSET DOMAIN charges
  PROVE  SumFunctionOnSet(ChargedUnits', S) = SumFunctionOnSet(ChargedUnits, S)
  <1>1. IsFiniteSet(S)
    <2>1. DOMAIN charges = 1 .. Len(charges) /\ Len(charges) \in Int
      BY DEF IInv, TypeOK
    <2> QED BY <2>1, FS_Interval, FS_Subset
  <1>2. \A i \in S : ChargedUnits'[i] = ChargedUnits[i]
    BY DEF ChargedUnits, KeepsCharges
  <1>3. \A i \in S : ChargedUnits'[i] \in Int
    BY <1>2, ChargedTotal
  <1> QED BY <1>1, <1>2, <1>3, SumSame

\* A step that charges nobody and registers nobody keeps the account.
LEMMA SpentKept ==
  ASSUME IInv, SpentIsCharged, UNCHANGED <<agents, charges, registrations>>,
         \A i \in DOMAIN charges :
           sessions'[charges[i].session].total = sessions[charges[i].session].total
  PROVE  SpentIsCharged'
  <1> SUFFICES ASSUME NEW a \in DOMAIN agents
               PROVE  agents[a].spent.units = SumFunctionOnSet(ChargedUnits', ChargesOf(a)')
    BY DEF SpentIsCharged
  <1>1. ChargesOf(a)' = ChargesOf(a) /\ ChargesOf(a) \in SUBSET DOMAIN charges /\ KeepsCharges
    BY DEF ChargesOf, KeepsCharges
  <1>2. SumFunctionOnSet(ChargedUnits', ChargesOf(a)) = SumFunctionOnSet(ChargedUnits, ChargesOf(a))
    BY <1>1, SumKept
  <1> QED BY <1>1, <1>2 DEF SpentIsCharged

\* A registration starts a new account, to which nothing is charged yet.
LEMMA RegisterSpent ==
  ASSUME IInv, SpentIsCharged, NEW a \in Agents, NEW cap \in Caps, Register(a, cap)
  PROVE  SpentIsCharged'
  <1> SUFFICES ASSUME NEW b \in DOMAIN agents'
               PROVE  agents'[b].spent.units = SumFunctionOnSet(ChargedUnits', ChargesOf(b)')
    BY DEF SpentIsCharged
  <1>1. /\ charges' = charges /\ sessions' = sessions
        /\ registrations' = [registrations EXCEPT ![a] = @ + 1]
        /\ registrations \in [Agents -> Nat]
        /\ \A i \in DOMAIN charges : charges[i] \in Charge
        /\ DOMAIN agents \subseteq Agents
        /\ \A i \in DOMAIN charges :
             charges[i].registration <= registrations[charges[i].agent]
        /\ KeepsCharges
    BY DEF Register, IInv, TypeOK, ChargesPast, KeepsCharges
  <1>2. CASE b = a
    <2>1. agents'[b].spent.units = 0
      BY <1>2 DEF Register, Put, FreshRecord, Zero
    <2>2. ChargesOf(b)' = {}
      BY <1>1, <1>2 DEF ChargesOf, Charge
    <2> QED BY <2>1, <2>2, SumUnfold, FS_EmptySet
  <1>3. CASE b # a
    <2>1. /\ b \in DOMAIN agents /\ agents'[b] = agents[b]
          /\ registrations'[b] = registrations[b]
      BY <1>1, <1>3 DEF Register, Put
    <2>2. ChargesOf(b)' = ChargesOf(b) /\ ChargesOf(b) \in SUBSET DOMAIN charges
      BY <1>1, <2>1 DEF ChargesOf
    <2>3. SumFunctionOnSet(ChargedUnits', ChargesOf(b)) = SumFunctionOnSet(ChargedUnits, ChargesOf(b))
      BY <1>1, <2>2, SumKept
    <2> QED BY <2>1, <2>2, <2>3 DEF SpentIsCharged
  <1> QED BY <1>2, <1>3

\* A charge adds the total of its session to the account of its agent, and to
\* no other.
LEMMA ChargeAgentSpent ==
  ASSUME IInv, NonNegative, NoOverflow, SpentIsCharged,
         NEW r \in Requests, ChargeAgent(r)
  PROVE  SpentIsCharged'
  <1> DEFINE a == requests[r].agent
             s == requests[r].session
  <1>a. Charged(r)
    BY ChargeAgentDone
  <1>b. PICK new : new = Len(charges) + 1
    OBVIOUS
  <1>1. /\ Finalized(s) /\ s \in DOMAIN sessions
        /\ a \in DOMAIN agents
        /\ registrations' = registrations
        /\ agents' = [agents EXCEPT ![a].spent.units = SpentAfter(a, sessions[s].total)]
        /\ \A b \in DOMAIN agents : agents[b] \in Record
        /\ \A x \in DOMAIN sessions : sessions[x] \in Session
    BY <1>a DEF Charged, Finalized, MayCharge, Has, IInv, TypeOK
  <1>2. \A x \in DOMAIN sessions : sessions'[x].total = sessions[x].total
    BY <1>1 DEF Finalized, Session
  <1>3. /\ DOMAIN charges' = DOMAIN charges \cup {new} /\ new \notin DOMAIN charges
        /\ \A i \in DOMAIN charges : charges'[i] = charges[i]
        /\ charges'[new].agent = a /\ charges'[new].session = s
        /\ charges'[new].registration = registrations[a]
    BY <1>a, <1>b, ChargesGrow
  <1>4. KeepsCharges
    BY <1>2, <1>3, ChargedTotal DEF KeepsCharges
  <1>5. ChargedUnits'[new] = sessions[s].total.units
    BY <1>1, <1>2, <1>3 DEF ChargedUnits
  <1>6. sessions[s].total.units \in Int
    BY <1>1, AmountsAssumption DEF Session, Amount, Units
  <1>7. \A i \in DOMAIN charges : ChargedUnits'[i] \in Int
    <2>1. \A i \in DOMAIN charges : ChargedUnits'[i] = ChargedUnits[i]
      BY <1>4 DEF ChargedUnits, KeepsCharges
    <2> QED BY <2>1, ChargedTotal
  <1> SUFFICES ASSUME NEW b \in DOMAIN agents'
               PROVE  agents'[b].spent.units = SumFunctionOnSet(ChargedUnits', ChargesOf(b)')
    BY DEF SpentIsCharged
  <1>8. b \in DOMAIN agents /\ ChargesOf(b) \in SUBSET DOMAIN charges
    BY <1>1 DEF ChargesOf
  <1>9. /\ agents[b].spent.units = SumFunctionOnSet(ChargedUnits, ChargesOf(b))
        /\ SumFunctionOnSet(ChargedUnits', ChargesOf(b)) = SumFunctionOnSet(ChargedUnits, ChargesOf(b))
    BY <1>1, <1>4, <1>8, SumKept DEF SpentIsCharged
  <1>10. CASE b = a
    <2>1. agents'[b].spent.units = agents[b].spent.units + sessions[s].total.units
      BY <1>1, <1>10, ChargeExact DEF Record, Amount
    <2>2. ChargesOf(b)' = ChargesOf(b) \cup {new} /\ new \notin ChargesOf(b)
      BY <1>1, <1>3, <1>10 DEF ChargesOf
    <2>3. IsFiniteSet(ChargesOf(b))
      <3>1. DOMAIN charges = 1 .. Len(charges) /\ Len(charges) \in Int
        BY DEF IInv, TypeOK
      <3> QED BY <1>8, <3>1, FS_Interval, FS_Subset
    <2>4. \A i \in ChargesOf(b) \cup {new} : ChargedUnits'[i] \in Int
      BY <1>5, <1>6, <1>7, <1>8
    <2>5. SumFunctionOnSet(ChargedUnits', ChargesOf(b) \cup {new})
            = ChargedUnits'[new] + SumFunctionOnSet(ChargedUnits', ChargesOf(b))
      BY <2>2, <2>3, <2>4, SumAdd
    <2>6. agents[b].spent.units \in Int
      BY <1>1, <1>8 DEF Record, Amount, Units
    <2> QED BY <1>5, <1>6, <1>9, <2>1, <2>2, <2>5, <2>6
  <1>11. CASE b # a
    <2>1. agents'[b] = agents[b]
      BY <1>1, <1>8, <1>11
    <2>2. ChargesOf(b)' = ChargesOf(b)
      BY <1>1, <1>3, <1>11 DEF ChargesOf
    <2> QED BY <1>9, <2>1, <2>2
  <1> QED BY <1>10, <1>11

\* No step makes an account disagree with the charges.
LEMMA SpentNext ==
  ASSUME NoOverflow
  PROVE  IInv /\ NonNegative /\ SpentIsCharged /\ [Next]_vars => SpentIsCharged'
  <1> SUFFICES ASSUME IInv, NonNegative, SpentIsCharged, [Next]_vars PROVE SpentIsCharged'
    OBVIOUS
  <1>0. /\ \A x \in DOMAIN sessions : sessions[x] \in Session
        /\ \A i \in DOMAIN charges : charges[i].session \in DOMAIN sessions
    BY ChargedTotal DEF IInv, TypeOK
  <1>1. ASSUME NEW a \in Agents, NEW cap \in Caps, Register(a, cap) PROVE SpentIsCharged'
    BY <1>1, RegisterSpent
  <1>2. ASSUME NEW s \in SessionIds, NEW total \in Totals, OpenSession(s, total)
        PROVE  SpentIsCharged'
    <2>1. \A i \in DOMAIN charges :
            sessions'[charges[i].session].total = sessions[charges[i].session].total
      BY <1>0, <1>2 DEF OpenSession, CanCreate, Has, Put
    <2> QED BY <1>2, <2>1, SpentKept DEF OpenSession
  <1>3. ASSUME NEW r \in Requests, ChargeAgent(r) PROVE SpentIsCharged'
    BY <1>3, ChargeAgentSpent
  <1>4. ASSUME NEW r \in Requests, CompleteUncharged(r) \/ CancelSession(r)
        PROVE  SpentIsCharged'
    <2>1. \A x \in DOMAIN sessions : sessions'[x].total = sessions[x].total
      <3>1. CASE CompleteUncharged(r)
        <4>1. PICK s : sessions' = [sessions EXCEPT ![s].status = "Paid"]
          BY <3>1, CompleteUnchargedDone DEF Finalized
        <4> QED BY <1>0, <4>1 DEF Session
      <3>2. CASE CancelSession(r)
        <4>1. PICK st, s : sessions' = sessions \/ sessions' = [sessions EXCEPT ![s].status = st]
          BY <3>2 DEF CancelSession
        <4> QED BY <1>0, <4>1 DEF Session
      <3> QED BY <1>4, <3>1, <3>2
    <2>2. UNCHANGED <<agents, charges, registrations>>
      BY <1>4 DEF CompleteUncharged, CancelSession
    <2> QED BY <1>0, <2>1, <2>2, SpentKept
  <1>5. ASSUME UNCHANGED <<agents, charges, registrations, sessions>> PROVE SpentIsCharged'
    BY <1>5, SpentKept
  <1> QED
    BY <1>1, <1>2, <1>3, <1>4, <1>5
    DEF Next, Serve, CallComplete, CallCancel, Arrive, LockOrders, AnswerEarly,
        LockSessions, RefuseCharge, PushReceipt, HangUp, Tick, ConfirmOrder, vars

\* Whatever the interleaving and the hang-ups, an agent's spend is the sum of
\* what was charged to it since it was registered: no concurrent charge is
\* lost.
THEOREM SpendAccounted ==
  ASSUME NoOverflow
  PROVE  Spec => []SpentIsCharged
  <1>1. Init => SpentIsCharged
    <2> SUFFICES ASSUME Init, NEW a \in DOMAIN agents
                 PROVE  agents[a].spent.units = SumFunctionOnSet(ChargedUnits, ChargesOf(a))
      BY DEF SpentIsCharged
    <2>1. agents[a].spent.units = 0 /\ ChargesOf(a) = {}
      BY DEF Init, FreshRecord, Zero, ChargesOf
    <2> QED BY <2>1, SumUnfold, FS_EmptySet
  <1>2. Spec => [](IInv /\ NonNegative)
    BY InvInit, InvNext, NonNegativeInit, NonNegativeNext, PTL DEF Spec
  <1>3. IInv /\ NonNegative /\ SpentIsCharged /\ [Next]_vars => SpentIsCharged'
    BY SpentNext
  <1> QED BY <1>1, <1>2, <1>3, PTL DEF Spec
-----------------------------------------------------------------------------
(* The receipts written or due                                             *)

\* A step that leaves the log alone, the totals, and the requests waiting for
\* it, leaves Receipted alone.
LEMMA ReceiptedKept ==
  ASSUME UNCHANGED audit,
         \A r \in DOMAIN requests : requests[r].stage = "audit" =>
           /\ r \in DOMAIN requests' /\ requests'[r] = requests[r]
           /\ sessions'[requests[r].session].total = sessions[requests[r].session].total,
         \A r \in DOMAIN requests' : requests'[r].stage = "audit" =>
           r \in DOMAIN requests /\ requests[r] = requests'[r]
  PROVE  Receipted' = Receipted
  BY DEF Receipted
-----------------------------------------------------------------------------
(* Steps map to steps                                                      *)

\* A fresh AppState is a fresh atomic checkout.
LEMMA InitMaps == Init => Promise!SInit
  <1> SUFFICES ASSUME Init PROVE Promise!SInit
    OBVIOUS
  <1>1. Receipted = {}
    BY DEF Init, EmptyStore, Receipted
  <1> QED BY <1>1 DEF Init, EmptyStore, FreshRecord, Zero, Promise!SInit,
             Promise!EmptyStore, Promise!FreshAccount

\* A step that only concerns requests not waiting for the audit log stutters.
LEMMA RequestStepMaps ==
  ASSUME UNCHANGED <<sessions, agents, audit>>,
         \A r \in DOMAIN requests : requests[r].stage = "audit" =>
           r \in DOMAIN requests' /\ requests'[r] = requests[r],
         \A r \in DOMAIN requests' : requests'[r].stage = "audit" =>
           r \in DOMAIN requests /\ requests[r] = requests'[r]
  PROVE  UNCHANGED Promise!avars
  <1>1. Receipted' = Receipted
    BY ReceiptedKept
  <1> QED BY <1>1 DEF Promise!avars

\* A registration is one.
LEMMA RegisterMaps ==
  ASSUME NEW a \in Agents, NEW cap \in Caps, Register(a, cap)
  PROVE  Promise!SRegister(a, cap)
  <1>1. Receipted' = Receipted
    BY ReceiptedKept DEF Register
  <1> QED BY <1>1 DEF Register, Put, FreshRecord, Zero, Promise!SRegister, Promise!Put,
                      Promise!FreshAccount

\* A new session is one.
LEMMA OpenSessionMaps ==
  ASSUME IInv, NEW s \in SessionIds, NEW total \in Totals, OpenSession(s, total)
  PROVE  Promise!SOpen(s, total)
  <1>1. \A r \in DOMAIN requests : requests[r].stage # "audit"
    BY NobodyBehindSessions DEF OpenSession
  <1>2. Receipted' = Receipted
    BY <1>1, ReceiptedKept DEF OpenSession
  <1> QED BY <1>2 DEF OpenSession, CanCreate, Has, Put, NewSession, Promise!SOpen,
                      Promise!Put, Promise!Has

\* Finalize pays the session in the atomic checkout.
LEMMA FinalizeMaps ==
  ASSUME IInv, NEW s \in SessionIds, Finalized(s), Completable(s)
  PROVE  /\ Promise!SPay(s)
         /\ DOMAIN sessions' = DOMAIN sessions /\ s \in DOMAIN sessions
         /\ \A x \in DOMAIN sessions : sessions'[x].total = sessions[x].total
  <1>1. /\ s \in DOMAIN sessions
        /\ sessions[s].status = "Pending"
        /\ \A x \in DOMAIN sessions : sessions[x] \in Session
    BY DEF IInv, TypeOK, NeverReady, PaidIffOrdered, Completable, Finalized, Has,
           CheckoutTerminal
  <1>2. sessions' = [sessions EXCEPT ![s].status = "Paid"]
    BY DEF Finalized
  <1>3. /\ DOMAIN sessions' = DOMAIN sessions
        /\ \A x \in DOMAIN sessions : sessions'[x].total = sessions[x].total
        /\ \A x \in DOMAIN sessions :
             sessions'[x].status = IF x = s THEN "Paid" ELSE sessions[x].status
    BY <1>1, <1>2 DEF Session
  <1> QED BY <1>1, <1>3 DEF Promise!SPay, Promise!Has

\* An MCP completion is an unsigned payment.
LEMMA CompleteUnchargedMaps ==
  ASSUME IInv, NEW r \in Requests, CompleteUncharged(r),
         NEW s \in SessionIds, s = requests[r].session
  PROVE  Promise!SPayUnsigned(s)
  <1>1. Finalized(s) /\ Completable(s)
    BY CompleteUnchargedDone
  <1>2. \A q \in DOMAIN requests : requests[q].stage # "audit"
    BY NobodyBehindSessions DEF CompleteUncharged
  <1>3. Receipted' = Receipted
    BY <1>2, ReceiptedKept DEF CompleteUncharged, Answer, Without
  <1>4. UNCHANGED agents
    BY DEF CompleteUncharged
  <1> QED BY <1>1, <1>3, <1>4, FinalizeMaps DEF Promise!SPay, Promise!SPayUnsigned

\* A charge is the whole signed payment.
LEMMA ChargeAgentMaps ==
  ASSUME IInv, NonNegative, NoOverflow, NEW r \in Requests, ChargeAgent(r),
         NEW s \in SessionIds, s = requests[r].session,
         NEW a \in Agents, a = requests[r].agent
  PROVE  Promise!SPaySigned(s, a)
  <1> DEFINE receipt == [agent |-> a, order |-> s, amount |-> sessions[s].total]
  <1>1. /\ Finalized(s) /\ Completable(s)
        /\ r \in DOMAIN requests /\ requests[r].stage = "agents"
        /\ a \in DOMAIN agents /\ audit' = audit
        /\ MayCharge(a, sessions[s].total)
        /\ agents' = [agents EXCEPT ![a].spent.units = SpentAfter(a, sessions[s].total)]
        /\ requests' = [requests EXCEPT ![r].stage = "audit", ![r].at = clock]
        /\ requests[r] \in Request
        /\ \A b \in DOMAIN agents : agents[b] \in Record
    BY ChargeAgentDone DEF Charged, MayCharge, At, Has, IInv, TypeOK, Request
  <1>2. /\ Promise!SPay(s)
        /\ s \in DOMAIN sessions
        /\ \A x \in DOMAIN sessions : sessions'[x].total = sessions[x].total
    BY <1>1, FinalizeMaps DEF Promise!SPay
  <1>3. SpentAfter(a, sessions[s].total) = agents[a].spent.units + sessions[s].total.units
    BY <1>1, <1>2, ChargeExact
  <1>4. \A q \in DOMAIN requests : requests[q].stage # "audit"
    BY <1>1 DEF IInv, TypeOK, Exclusion, HoldsOrders, At, Has
  <1>5. /\ DOMAIN requests' = DOMAIN requests
        /\ requests'[r].stage = "audit" /\ requests'[r].session = s
        /\ requests'[r].agent = a
        /\ \A q \in DOMAIN requests \ {r} : requests'[q] = requests[q]
    BY <1>1 DEF Request
  <1>6. Receipted' = Receipted \cup {receipt}
    BY <1>1, <1>2, <1>4, <1>5 DEF Receipted
  <1>7. [b \in DOMAIN agents' |->
           [limit |-> agents'[b].limit, spent |-> agents'[b].spent.units]]
        = [[b \in DOMAIN agents |->
             [limit |-> agents[b].limit, spent |-> agents[b].spent.units]]
           EXCEPT ![a].spent = agents[a].spent.units + sessions[s].total.units]
    BY <1>1, <1>3 DEF Record, Amount
  <1> QED BY <1>1, <1>2, <1>3, <1>6, <1>7 DEF MayCharge, Promise!SPay, Promise!SPaySigned, Promise!Has

\* Writing the receipt that was due changes nothing a caller can tell.
LEMMA PushReceiptMaps ==
  ASSUME IInv, NEW r \in Requests, PushReceipt(r)
  PROVE  UNCHANGED Promise!avars
  <1> DEFINE s == requests[r].session
             receipt == [agent |-> requests[r].agent, order |-> s,
                         amount |-> sessions[s].total]
  <1>1. /\ r \in DOMAIN requests /\ requests[r].stage = "audit"
        /\ UNCHANGED <<sessions, agents>>
        /\ audit \in Seq(Receipt) /\ audit' = Append(audit, ReceiptOf(requests[r]))
        /\ requests' = Without(requests, r)
    BY DEF PushReceipt, Answer, At, Has, IInv, TypeOK
  <1>2. orders[s].total = sessions[s].total
    BY <1>1 DEF IInv, ReceiptDue, PaidIffOrdered, Has
  <1>3. /\ DOMAIN audit' = DOMAIN audit \cup {Len(audit) + 1}
        /\ Len(audit) + 1 \notin DOMAIN audit
        /\ \A i \in DOMAIN audit : audit'[i] = audit[i]
        /\ audit'[Len(audit) + 1] = ReceiptOf(requests[r])
    BY <1>1
  <1>4. /\ DOMAIN requests' = DOMAIN requests \ {r}
        /\ \A q \in DOMAIN requests' : requests'[q] = requests[q]
    BY <1>1 DEF Without
  <1>5. /\ ReceiptOf(requests[r]).agent = receipt.agent
        /\ ReceiptOf(requests[r]).order = receipt.order
        /\ ReceiptOf(requests[r]).amount = receipt.amount
    BY <1>2 DEF ReceiptOf
  <1>6. Receipted' = Receipted
    BY <1>1, <1>3, <1>4, <1>5 DEF Receipted
  <1> QED BY <1>1, <1>6 DEF Promise!avars

\* A cancellation is one, or changes nothing.
LEMMA CancelSessionMaps ==
  ASSUME IInv, NEW r \in Requests, CancelSession(r),
         NEW s \in SessionIds, s = requests[r].session
  PROVE  Promise!SCancel(s) \/ UNCHANGED Promise!avars
  <1>1. /\ \A x \in DOMAIN sessions : sessions[x] \in Session
        /\ \A q \in DOMAIN requests : requests[q].stage # "audit"
    BY NobodyBehindSessions DEF CancelSession, IInv, TypeOK
  <1>a. UNCHANGED agents
    BY DEF CancelSession
  <1>2. Receipted' = Receipted
    BY <1>1, ReceiptedKept DEF CancelSession, Answer, Without
  <1>3. CASE Has(sessions, s) /\ sessions[s].status = "Pending"
    <2>1. /\ DOMAIN sessions' = DOMAIN sessions
          /\ \A x \in DOMAIN sessions :
               /\ sessions'[x].total = sessions[x].total
               /\ sessions'[x].status = IF x = s THEN "Cancelled" ELSE sessions[x].status
      BY <1>1, <1>3 DEF CancelSession, Session, ApplyEvent, CanCheckout, CheckoutTarget,
                        CheckoutEdges, Has
    <2> QED BY <1>a, <1>2, <1>3, <2>1 DEF Promise!SCancel, Promise!Has, Has
  <1>4. CASE ~(Has(sessions, s) /\ sessions[s].status = "Pending")
    <2>1. /\ DOMAIN sessions' = DOMAIN sessions
          /\ \A x \in DOMAIN sessions : sessions'[x] = sessions[x]
      BY <1>1, <1>4 DEF CancelSession, Session, ApplyEvent, CanCheckout, CheckoutTarget,
                        CheckoutEdges, Has, IInv, NeverReady
    <2> QED BY <1>a, <1>2, <2>1 DEF Promise!avars
  <1> QED BY <1>3, <1>4

\* Every step of the handlers is a step of the atomic checkout or none.
LEMMA NextMaps ==
  ASSUME NoHangUp, NoOverflow
  PROVE  IInv /\ NonNegative /\ [Next]_vars => [Promise!SNext]_(Promise!avars)
  <1> SUFFICES ASSUME IInv, NonNegative, [Next]_vars
               PROVE  Promise!SNext \/ UNCHANGED Promise!avars
    BY DEF Promise!avars
  <1>1. ASSUME NEW a \in Agents, NEW cap \in Caps, Register(a, cap)
        PROVE  Promise!SNext
    BY <1>1, RegisterMaps DEF Promise!SNext
  <1>2. ASSUME NEW s \in SessionIds, NEW total \in Totals, OpenSession(s, total)
        PROVE  Promise!SNext
    BY <1>2, OpenSessionMaps DEF Promise!SNext
  <1>3. ASSUME NEW r \in Requests, NEW stage \in {"orders", "cancel"},
               NEW s \in SessionIds, NEW a \in Agents \cup {Mcp}, Arrive(r, stage, s, a)
        PROVE  UNCHANGED Promise!avars
    BY <1>3, RequestStepMaps DEF Arrive, Put, Has
  <1>4. ASSUME NEW r \in Requests, LockOrders(r) \/ LockSessions(r)
        PROVE  UNCHANGED Promise!avars
    BY <1>4, RequestStepMaps
    DEF LockOrders, LockSessions, GoTo, AwaitAgents, At, Has, IInv, TypeOK, Request
  <1>5. ASSUME NEW r \in Requests, AnswerEarly(r) \/ RefuseCharge(r)
        PROVE  UNCHANGED Promise!avars
    BY <1>5, RequestStepMaps DEF AnswerEarly, RefuseCharge, Answer, Without, At, Has
  <1>6. ASSUME NEW r \in Requests, CompleteUncharged(r) PROVE Promise!SNext
    <2>1. PICK s \in SessionIds : s = requests[r].session
      BY <1>6 DEF CompleteUncharged, At, Has, IInv, TypeOK, Request
    <2> QED BY <1>6, <2>1, CompleteUnchargedMaps DEF Promise!SNext
  <1>7. ASSUME NEW r \in Requests, ChargeAgent(r) PROVE Promise!SNext
    <2>1. PICK s \in SessionIds, a \in Agents :
            s = requests[r].session /\ a = requests[r].agent
      BY <1>7 DEF ChargeAgent, At, Has, IInv, TypeOK, Request, OnBehalfOfAgent
    <2> QED BY <1>7, <2>1, ChargeAgentMaps DEF Promise!SNext
  <1>8. ASSUME NEW r \in Requests, PushReceipt(r) PROVE UNCHANGED Promise!avars
    BY <1>8, PushReceiptMaps
  <1>9. ASSUME NEW r \in Requests, CancelSession(r)
        PROVE  Promise!SNext \/ UNCHANGED Promise!avars
    <2>1. PICK s \in SessionIds : s = requests[r].session
      BY <1>9 DEF CancelSession, At, Has, IInv, TypeOK, Request
    <2> QED BY <1>9, <2>1, CancelSessionMaps DEF Promise!SNext
  <1>10. CASE Tick \/ UNCHANGED vars
    BY <1>10, RequestStepMaps DEF Tick, vars
  <1>11. ASSUME NEW s \in SessionIds, ConfirmOrder(s) PROVE UNCHANGED Promise!avars
    BY <1>11, RequestStepMaps DEF ConfirmOrder
  <1>12. ASSUME NEW r \in Requests, HangUp(r) PROVE FALSE
    BY <1>12 DEF HangUp, NoHangUp
  <1> QED
    BY <1>1, <1>2, <1>3, <1>4, <1>5, <1>6, <1>7, <1>8, <1>9, <1>10, <1>12, <1>11
    DEF Next, Serve, CallComplete, CallCancel

\* While a charged completion runs to its end, its receipt is due or written.
LEMMA ReceiptNext ==
  ASSUME NoHangUp
  PROVE  IInv /\ EveryChargeHasReceipt /\ [Next]_vars => EveryChargeHasReceipt'
  <1> SUFFICES ASSUME IInv, EveryChargeHasReceipt, [Next]_vars
               PROVE  EveryChargeHasReceipt'
    OBVIOUS
  <1>0. /\ \A r \in DOMAIN requests : requests[r] \in Request
        /\ audit \in Seq(Receipt) /\ DOMAIN requests \subseteq Requests
    BY DEF IInv, TypeOK
  <1>1. ASSUME UNCHANGED <<charges, audit>>,
               \A r \in DOMAIN requests : requests[r].stage = "audit" =>
                 r \in DOMAIN requests' /\ requests'[r] = requests[r]
        PROVE  EveryChargeHasReceipt'
    BY <1>1 DEF EveryChargeHasReceipt, At, Has
  <1>2. ASSUME NEW r \in Requests, ChargeAgent(r) PROVE EveryChargeHasReceipt'
    <2> DEFINE new == Len(charges) + 1
    <2>0. Charged(r)
      BY <1>2, ChargeAgentDone
    <2>1. /\ r \in DOMAIN requests /\ requests[r].stage = "agents"
          /\ UNCHANGED audit
          /\ requests' = [requests EXCEPT ![r].stage = "audit", ![r].at = clock]
      BY <2>0 DEF Charged, At, Has
    <2>2. /\ DOMAIN requests' = DOMAIN requests
          /\ requests'[r].stage = "audit" /\ requests'[r].session = requests[r].session
          /\ \A q \in DOMAIN requests \ {r} : requests'[q] = requests[q]
      BY <1>0, <2>1 DEF Request
    <2>3. \A k \in DOMAIN charges :
            \/ \E i \in DOMAIN audit : audit[i].order = charges[k].session
            \/ \E q \in Requests : q \in DOMAIN requests' /\ requests'[q].stage = "audit"
                                   /\ requests'[q].session = charges[k].session
      BY <2>1, <2>2 DEF EveryChargeHasReceipt, At, Has
    <2>4. /\ DOMAIN charges' = DOMAIN charges \cup {new}
          /\ \A k \in DOMAIN charges : charges'[k] = charges[k]
          /\ charges'[new].session = requests'[r].session
      BY <2>0, <2>2, ChargesGrow
    <2> HIDE DEF new
    <2> QED BY <2>1, <2>2, <2>3, <2>4 DEF EveryChargeHasReceipt, At, Has
  <1>3. ASSUME NEW r \in Requests, PushReceipt(r) PROVE EveryChargeHasReceipt'
    <2>1. /\ r \in DOMAIN requests /\ charges' = charges
          /\ audit' = Append(audit, ReceiptOf(requests[r]))
          /\ requests' = Without(requests, r)
      BY <1>3 DEF PushReceipt, Answer, At, Has
    <2>2. /\ DOMAIN audit' = DOMAIN audit \cup {Len(audit) + 1}
          /\ \A i \in DOMAIN audit : audit'[i] = audit[i]
          /\ audit'[Len(audit) + 1].order = requests[r].session
      BY <1>0, <2>1 DEF ReceiptOf
    <2>3. \A q \in DOMAIN requests \ {r} : q \in DOMAIN requests' /\ requests'[q] = requests[q]
      BY <2>1, WithoutFacts
    <2> QED BY <2>1, <2>2, <2>3 DEF EveryChargeHasReceipt, At, Has
  <1>4. ASSUME NEW r \in Requests,
               AnswerEarly(r) \/ CompleteUncharged(r) \/ RefuseCharge(r) \/ CancelSession(r)
        PROVE  EveryChargeHasReceipt'
    <2>1. /\ requests[r].stage # "audit" /\ requests' = Without(requests, r)
          /\ UNCHANGED <<charges, audit>>
      BY <1>4 DEF AnswerEarly, CompleteUncharged, RefuseCharge, CancelSession, Answer, At, Has
    <2>2. \A q \in DOMAIN requests : requests[q].stage = "audit" =>
            q \in DOMAIN requests' /\ requests'[q] = requests[q]
      BY <2>1 DEF Without
    <2> QED BY <1>1, <2>1, <2>2
  <1>5. ASSUME NEW r \in Requests, LockOrders(r) \/ LockSessions(r)
        PROVE  EveryChargeHasReceipt'
    <2>1. requests[r].stage # "audit" /\ UNCHANGED <<charges, audit>>
      BY <1>5 DEF LockOrders, LockSessions, At, Has
    <2>2. /\ DOMAIN requests' = DOMAIN requests
          /\ \A q \in DOMAIN requests \ {r} : requests'[q] = requests[q]
      BY <1>5 DEF LockOrders, LockSessions, GoTo, AwaitAgents
    <2> QED BY <1>1, <2>1, <2>2
  <1>6. ASSUME NEW r \in Requests, NEW stage \in {"orders", "cancel"},
               NEW s \in SessionIds, NEW a \in Agents \cup {Mcp}, Arrive(r, stage, s, a)
        PROVE  EveryChargeHasReceipt'
    BY <1>1, <1>6 DEF Arrive, Put, Has
  <1>7. ASSUME UNCHANGED <<charges, audit, requests>> PROVE EveryChargeHasReceipt'
    BY <1>1, <1>7
  <1>8. ASSUME NEW r \in Requests, HangUp(r) PROVE FALSE
    BY <1>8 DEF HangUp, NoHangUp
  <1> QED
    BY <1>2, <1>3, <1>4, <1>5, <1>6, <1>7, <1>8
    DEF Next, Serve, CallComplete, CallCancel, Register, OpenSession, Tick, ConfirmOrder, vars

\* As long as no client hangs up, every charge is receipted by the time its
\* completion is answered.
THEOREM AllReceipted ==
  ASSUME NoHangUp
  PROVE  Spec => []EveryChargeHasReceipt
  <1>1. Init => EveryChargeHasReceipt
    BY DEF Init, EveryChargeHasReceipt
  <1> QED BY <1>1, InvInit, InvNext, ReceiptNext, PTL DEF Spec

\* The handlers, interleaved at every await, implement the atomic checkout.
THEOREM Implements ==
  ASSUME NoHangUp, NoOverflow
  PROVE  Spec => KeepsPromise
  <1>1. Spec => [](IInv /\ NonNegative)
    BY InvInit, InvNext, NonNegativeInit, NonNegativeNext, PTL DEF Spec
  <1>2. IInv /\ NonNegative /\ [Next]_vars => [Promise!SNext]_(Promise!avars)
    BY NextMaps
  <1> QED BY <1>1, <1>2, InitMaps, PTL DEF Spec, KeepsPromise, Promise!SSpec
=============================================================================
