--------------------------- MODULE ClientsProofs ---------------------------
(***************************************************************************)
(* What the clients of a server may believe, for any number of terminals,  *)
(* runs, restarts, messages and pages.                                     *)
(***************************************************************************)
EXTENDS Clients, FiniteSetTheorems, SequenceTheorems, TLAPS
-----------------------------------------------------------------------------
(* The server                                                              *)

\* Nothing is forgotten or replaced.
ShopGrows ==
  /\ \A c \in DOMAIN carts : c \in DOMAIN carts' /\ carts'[c] = carts[c]
  /\ \A s \in DOMAIN sessions : s \in DOMAIN sessions' /\ sessions'[s] = sessions[s]
  /\ \A s \in DOMAIN orders : s \in DOMAIN orders' /\ orders'[s] = orders[s]

\* The next id was not handed out.
LEMMA NextIdIsNew ==
  ShopConsistent => nextId \notin DOMAIN carts /\ nextId \notin DOMAIN sessions
                      /\ nextId \notin DOMAIN orders
  BY DEF ShopConsistent, Has

\* A step without effect on the shop keeps it as it is.
LEMMA ShopKept ==
  ASSUME ShopConsistent, UNCHANGED shop
  PROVE  ShopConsistent' /\ ShopGrows
  BY DEF shop, ShopConsistent, ShopGrows, Has

\* A new cart.
LEMMA CreateCartEffect ==
  ASSUME ShopConsistent, NEW p, CreateCart(p)
  PROVE  /\ ShopConsistent' /\ ShopGrows
         /\ nextId \in DOMAIN carts' /\ carts'[nextId] = p
         /\ orders' = orders
  <1>1. /\ nextId' = nextId + 1 /\ carts' = Put(carts, nextId, p)
        /\ UNCHANGED <<sessions, orders>>
        /\ nextId \notin DOMAIN carts
    BY NextIdIsNew DEF CreateCart
  <1>2. /\ DOMAIN carts' = DOMAIN carts \cup {nextId}
        /\ carts'[nextId] = p
        /\ \A c \in DOMAIN carts : carts'[c] = carts[c]
    BY <1>1 DEF Put
  <1> QED BY <1>1, <1>2 DEF ShopConsistent, ShopGrows, Has

\* A new session.
LEMMA CreateSessionEffect ==
  ASSUME ShopConsistent, NEW cart, CreateSession(cart)
  PROVE  /\ ShopConsistent' /\ ShopGrows
         /\ nextId \in DOMAIN sessions' /\ sessions'[nextId] = SessionOf(cart)
         /\ orders' = orders
  <1>1. /\ nextId' = nextId + 1 /\ sessions' = Put(sessions, nextId, SessionOf(cart))
        /\ UNCHANGED <<carts, orders>>
        /\ nextId \notin DOMAIN sessions /\ nextId \notin DOMAIN orders
    BY NextIdIsNew DEF CreateSession
  <1>2. /\ DOMAIN sessions' = DOMAIN sessions \cup {nextId}
        /\ sessions'[nextId] = SessionOf(cart)
        /\ \A s \in DOMAIN sessions : sessions'[s] = sessions[s]
    BY <1>1 DEF Put
  <1> QED BY <1>1, <1>2 DEF ShopConsistent, ShopGrows, Has

\* A completion: the order that is there, or a new one.
LEMMA CompleteEffect ==
  ASSUME ShopConsistent, NEW s, NEW by, Complete(s, by)
  PROVE  /\ ShopConsistent' /\ ShopGrows
         /\ s \in DOMAIN orders'
         /\ orders' = orders
              \/ /\ s \notin DOMAIN orders /\ DOMAIN orders' = DOMAIN orders \cup {s}
                 /\ orders'[s].by = by
  <1>1. s \in DOMAIN sessions /\ UNCHANGED <<nextId, carts, sessions>>
    BY DEF Complete, MayComplete, Has
  <1>2. CASE s \in DOMAIN orders
    BY <1>1, <1>2 DEF Complete, Has, ShopConsistent, ShopGrows
  <1>3. CASE s \notin DOMAIN orders
    <2> DEFINE order == [product |-> sessions[s].product, by |-> by]
    <2>1. orders' = Put(orders, s, order)
      BY <1>3 DEF Complete, Has
    <2>2. /\ DOMAIN orders' = DOMAIN orders \cup {s}
          /\ orders'[s] = order
          /\ \A o \in DOMAIN orders : orders'[o] = orders[o]
      BY <1>3, <2>1 DEF Put
    <2> QED BY <1>1, <1>3, <2>2 DEF ShopConsistent, ShopGrows, Has
  <1> QED BY <1>2, <1>3

\* A checkout over MCP: a new session and its order.
LEMMA CheckOutEffect ==
  ASSUME ShopConsistent, NEW cart, NEW by, CheckOut(cart, by)
  PROVE  /\ ShopConsistent' /\ ShopGrows
         /\ nextId \notin DOMAIN orders /\ DOMAIN orders' = DOMAIN orders \cup {nextId}
         /\ orders'[nextId].by = by
  <1> DEFINE order == [product |-> carts[cart], by |-> by]
  <1>1. /\ nextId' = nextId + 1 /\ carts' = carts
        /\ sessions' = Put(sessions, nextId, SessionOf(cart))
        /\ orders' = Put(orders, nextId, order)
        /\ nextId \notin DOMAIN sessions /\ nextId \notin DOMAIN orders
    BY NextIdIsNew DEF CheckOut
  <1>2. /\ DOMAIN sessions' = DOMAIN sessions \cup {nextId}
        /\ sessions'[nextId] = SessionOf(cart)
        /\ \A s \in DOMAIN sessions : sessions'[s] = sessions[s]
    BY <1>1 DEF Put
  <1>3. /\ DOMAIN orders' = DOMAIN orders \cup {nextId}
        /\ orders'[nextId] = order
        /\ \A s \in DOMAIN orders : orders'[s] = orders[s]
    BY <1>1 DEF Put
  <1>4. order.product = SessionOf(cart).product
    BY DEF SessionOf
  <1> QED BY <1>1, <1>2, <1>3, <1>4 DEF ShopConsistent, ShopGrows, Has

-----------------------------------------------------------------------------
(* A run of aiter-cli                                                      *)

OneOrderPerBuyer == \A s, t \in DOMAIN orders : orders[s].by = orders[t].by => s = t

\* What IInv says of a server that aiter-cli talks to.
CliOK == ShopConsistent /\ RunsNumbered /\ RunsInformed /\ OrdersOfRuns /\ OneOrderPerBuyer

\* A run that is not touched still knows what is so, as long as the shop grows.
LEMMA StillInformed ==
  ASSUME ShopGrows, RunsInformed, restarts' = restarts,
         NEW u \in Terminals, runs'[u] = runs[u], Begun(u)', runs'[u].since = restarts
  PROVE  Informed(runs[u])'
  BY DEF ShopGrows, RunsInformed, Begun, Informed, Has

\* One run goes on, under its number.
LEMMA RunGoesOn ==
  ASSUME RunsNumbered, UNCHANGED <<started, restarts>>,
         NEW t \in Terminals, Begun(t), NEW next, runs' = [runs EXCEPT ![t] = next],
         DOMAIN next = RunFields, next.no = runs[t].no, next.since = runs[t].since,
         next.stage \in DOMAIN NextStage \cup Ended
  PROVE  RunsNumbered'
  BY DEF RunsNumbered, Begun

\* A run that is answered.
LEMMA AnswerEffect ==
  ASSUME RunsNumbered, UNCHANGED <<started, restarts>>,
         NEW t \in Terminals, Begun(t), NEW answer, Answer(t, answer)
  PROVE  /\ RunsNumbered'
         /\ \A u \in Terminals \ {t} : runs'[u] = runs[u]
         /\ runs'[t].answer = answer
         /\ runs'[t].stage = runs[t].stage /\ runs'[t].no = runs[t].no
         /\ runs'[t].since = runs[t].since /\ runs'[t].wanted = runs[t].wanted
         /\ runs'[t].product = runs[t].product /\ runs'[t].cart = runs[t].cart
         /\ runs'[t].session = runs[t].session /\ runs'[t].order = runs[t].order
  <1> DEFINE next == [runs[t] EXCEPT !.answer = answer]
  <1>1. /\ DOMAIN runs = Terminals /\ DOMAIN runs[t] = RunFields
        /\ runs[t].stage \in DOMAIN NextStage \cup Ended
    BY DEF RunsNumbered
  <1>2. runs' = [runs EXCEPT ![t] = next]
    BY DEF Answer
  <1>3. /\ DOMAIN next = RunFields /\ next.answer = answer
        /\ next.stage = runs[t].stage /\ next.no = runs[t].no
        /\ next.since = runs[t].since /\ next.wanted = runs[t].wanted
        /\ next.product = runs[t].product /\ next.cart = runs[t].cart
        /\ next.session = runs[t].session /\ next.order = runs[t].order
    BY <1>1 DEF RunFields
  <1> HIDE DEF next
  <1>4. RunsNumbered'
    BY <1>1, <1>2, <1>3, RunGoesOn
  <1> QED BY <1>1, <1>2, <1>3, <1>4

\* The orders there are stay those of their runs.
LEMMA OrdersKept ==
  ASSUME OrdersOfRuns, UNCHANGED <<orders, started>>,
         \A u \in Terminals : runs'[u].stage # "idle" =>
           /\ Begun(u) /\ runs'[u].no = runs[u].no
           /\ \/ runs'[u].stage = runs[u].stage /\ runs'[u].session = runs[u].session
              \/ runs'[u].stage \in {"link", "done", "failed"}
              \/ runs[u].stage \notin {"complete", "link", "done", "failed"}
  PROVE  OrdersOfRuns'
  BY DEF OrdersOfRuns, Begun

\* An answer that says nothing, or what is so, while the shop grows by no order.
LEMMA AnswerKeeps ==
  ASSUME CliOK, ShopConsistent', ShopGrows, UNCHANGED <<started, restarts, orders>>,
         NEW t \in Terminals, Begun(t), NEW answer, Answer(t, answer),
         answer \notin {Waiting, Failure} /\ runs[t].since = restarts =>
           /\ runs[t].stage = "cart" =>
                answer \in DOMAIN carts' /\ carts'[answer] = runs[t].product
           /\ runs[t].stage = "session" =>
                /\ answer \in DOMAIN sessions'
                /\ sessions'[answer] = [cart |-> runs[t].cart, product |-> runs[t].product]
           /\ runs[t].stage # "complete"
  PROVE  CliOK'
  <1>1. /\ RunsNumbered'
        /\ \A u \in Terminals \ {t} : runs'[u] = runs[u]
        /\ runs'[t].answer = answer
        /\ runs'[t].stage = runs[t].stage /\ runs'[t].no = runs[t].no
        /\ runs'[t].since = runs[t].since /\ runs'[t].wanted = runs[t].wanted
        /\ runs'[t].product = runs[t].product /\ runs'[t].cart = runs[t].cart
        /\ runs'[t].session = runs[t].session /\ runs'[t].order = runs[t].order
    BY AnswerEffect DEF CliOK
  <1>2. RunsInformed'
    <2> SUFFICES ASSUME NEW u \in Terminals, Begun(u)', runs'[u].since = restarts
                 PROVE  Informed(runs[u])'
      BY DEF RunsInformed
    <2>1. CASE u # t
      BY <1>1, <2>1, StillInformed DEF CliOK
    <2>2. CASE u = t
      <3>1. Informed(runs[t])
        BY <1>1, <2>2 DEF CliOK, RunsInformed
      <3> QED BY <1>1, <2>2, <3>1 DEF Informed, ShopGrows, Has
    <2> QED BY <2>1, <2>2
  <1>3. OrdersOfRuns'
    BY <1>1, OrdersKept DEF CliOK, Begun
  <1> QED BY <1>1, <1>2, <1>3 DEF CliOK, OneOrderPerBuyer

\* The server handles a request that orders nothing, or refuses one.
LEMMA ServeKeeps ==
  ASSUME CliOK, NEW t \in Terminals,
         ServeCatalog(t) \/ ServeCart(t) \/ ServeSession(t) \/ ServeLink(t)
           \/ ServeError(t) \/ Fail(t)
  PROVE  CliOK'
  <1> USE DEF CliOK
  <1>1. CASE ServeCatalog(t) \/ ServeLink(t) \/ ServeError(t) \/ Fail(t)
    <2>1. UNCHANGED shop /\ UNCHANGED <<started, restarts>> /\ Begun(t)
      BY <1>1 DEF ServeCatalog, ServeLink, ServeError, Fail, Asks, Ended, Begun
    <2>2. PICK answer :
            /\ Answer(t, answer)
            /\ runs[t].stage \in {"catalog", "link"} \/ answer = Failure
      BY <1>1 DEF ServeCatalog, ServeLink, ServeError, Fail, Asks
    <2> QED BY <2>1, <2>2, ShopKept, AnswerKeeps DEF shop
  <1>2. CASE ServeCart(t)
    <2>1. /\ CreateCart(runs[t].product) /\ Answer(t, nextId)
          /\ UNCHANGED <<started, restarts>> /\ Begun(t) /\ runs[t].stage = "cart"
      BY <1>2 DEF ServeCart, Asks, Begun
    <2>2. /\ ShopConsistent' /\ ShopGrows
          /\ nextId \in DOMAIN carts' /\ carts'[nextId] = runs[t].product
          /\ orders' = orders
      BY <2>1, CreateCartEffect
    <2> QED BY <2>1, <2>2, AnswerKeeps
  <1>3. CASE ServeSession(t)
    <2>1. /\ CreateSession(runs[t].cart) /\ Answer(t, nextId)
          /\ UNCHANGED <<started, restarts>> /\ Begun(t) /\ runs[t].stage = "session"
      BY <1>3 DEF ServeSession, Asks, Begun
    <2>2. /\ ShopConsistent' /\ ShopGrows
          /\ nextId \in DOMAIN sessions' /\ sessions'[nextId] = SessionOf(runs[t].cart)
          /\ orders' = orders
      BY <2>1, CreateSessionEffect
    <2>3. runs[t].since = restarts => carts[runs[t].cart] = runs[t].product
      BY <2>1 DEF RunsInformed, Informed
    <2> QED BY <2>1, <2>2, <2>3, AnswerKeeps DEF SessionOf
  <1> QED BY <1>1, <1>2, <1>3

\* A completion makes at most one order, which is that of the run.
LEMMA ServeCompleteKeeps ==
  ASSUME CliOK, NEW t \in Terminals, ServeComplete(t)
  PROVE  CliOK'
  <1> DEFINE s == runs[t].session
             n == runs[t].no
  <1> USE DEF CliOK
  <1>1. /\ Complete(s, n) /\ Answer(t, s)
        /\ UNCHANGED <<started, restarts>> /\ Begun(t) /\ runs[t].stage = "complete"
    BY DEF ServeComplete, Asks, Begun
  <1>2. /\ ShopConsistent' /\ ShopGrows /\ s \in DOMAIN orders'
        /\ orders' = orders
             \/ /\ s \notin DOMAIN orders /\ DOMAIN orders' = DOMAIN orders \cup {s}
                /\ orders'[s].by = n
    BY <1>1, CompleteEffect
  <1>3. /\ RunsNumbered'
        /\ \A u \in Terminals \ {t} : runs'[u] = runs[u]
        /\ runs'[t].answer = s
        /\ runs'[t].stage = runs[t].stage /\ runs'[t].no = runs[t].no
        /\ runs'[t].since = runs[t].since /\ runs'[t].wanted = runs[t].wanted
        /\ runs'[t].product = runs[t].product /\ runs'[t].cart = runs[t].cart
        /\ runs'[t].session = runs[t].session /\ runs'[t].order = runs[t].order
    BY <1>1, AnswerEffect
  <1>4. RunsInformed'
    <2> SUFFICES ASSUME NEW u \in Terminals, Begun(u)', runs'[u].since = restarts
                 PROVE  Informed(runs[u])'
      BY <1>1 DEF RunsInformed
    <2>1. CASE u # t
      BY <1>1, <1>2, <1>3, <2>1, StillInformed
    <2>2. CASE u = t
      <3>1. Informed(runs[t])
        BY <1>1, <1>3, <2>2 DEF RunsInformed
      <3> QED BY <1>1, <1>2, <1>3, <2>2, <3>1 DEF Informed, ShopGrows, Has
    <2> QED BY <2>1, <2>2
  <1>5. CASE orders' = orders
    <2>1. OrdersOfRuns'
      BY <1>1, <1>3, <1>5, OrdersKept DEF Begun
    <2> QED BY <1>2, <1>3, <1>4, <1>5, <2>1 DEF OneOrderPerBuyer
  <1>6. CASE orders' # orders
    <2>1. /\ s \notin DOMAIN orders /\ DOMAIN orders' = DOMAIN orders \cup {s}
          /\ orders'[s].by = n
          /\ \A o \in DOMAIN orders : orders'[o] = orders[o]
      BY <1>2, <1>6 DEF ShopGrows
    <2>2. n \in 1..started /\ started' = started
      BY <1>1 DEF RunsNumbered
    <2>3. \A o \in DOMAIN orders : orders[o].by # n
      BY <1>1, <2>1 DEF OrdersOfRuns
    <2>4. \A u \in Terminals \ {t} : Begun(u) => runs[u].no # n
      BY <1>1 DEF RunsNumbered
    <2>5. OrdersOfRuns'
      BY <1>1, <1>3, <2>1, <2>2, <2>4 DEF OrdersOfRuns, Begun
    <2>6. OneOrderPerBuyer'
      BY <2>1, <2>3 DEF OneOrderPerBuyer
    <2> QED BY <1>2, <1>3, <1>4, <2>5, <2>6
  <1> QED BY <1>5, <1>6

\* The stages of a run, and what is learned at each.
LEMMA StageTable ==
  /\ DOMAIN NextStage = {"catalog", "cart", "session", "complete", "link"}
  /\ NextStage["catalog"] = "cart" /\ NextStage["cart"] = "session"
  /\ NextStage["session"] = "complete" /\ NextStage["complete"] = "link"
  /\ NextStage["link"] = "done"
  /\ Learned["catalog"] = "product" /\ Learned["cart"] = "cart"
  /\ Learned["session"] = "session" /\ Learned["complete"] = "order"
  /\ Learned["link"] = "link"
  BY DEF NextStage, Learned

LearnsAs(next, run, field, v) ==
  next = [run EXCEPT ![field] = v, !.stage = NextStage[run.stage], !.answer = Waiting]

\* A run that learned something and goes on.
LEMMA LearnEffect ==
  ASSUME NEW run, DOMAIN run = RunFields, NEW v,
         NEW field \in {"product", "cart", "session", "order", "link"},
         NEW next, LearnsAs(next, run, field, v)
  PROVE  /\ DOMAIN next = RunFields
         /\ next[field] = v /\ next.stage = NextStage[run.stage] /\ next.answer = Waiting
         /\ next.no = run.no /\ next.since = run.since /\ next.wanted = run.wanted
         /\ field # "product" => next.product = run.product
         /\ field # "cart" => next.cart = run.cart
         /\ field # "session" => next.session = run.session
         /\ field # "order" => next.order = run.order
  BY DEF RunFields, LearnsAs

\* What a run makes of an answer: it fails, or knows what it was told.
LEMMA ReceiveKeeps ==
  ASSUME CliOK, NEW t \in Terminals, Receive(t)
  PROVE  CliOK'
  <1> USE DEF CliOK
  <1>1. /\ Begun(t) /\ runs[t].answer # Waiting
        /\ runs[t].stage \in DOMAIN NextStage
        /\ UNCHANGED <<started, restarts, shop>>
        /\ DOMAIN runs = Terminals /\ DOMAIN runs[t] = RunFields
    BY DEF Receive, Answered, Ended, Begun, RunsNumbered
  <1>2. ShopConsistent' /\ ShopGrows
    BY <1>1, ShopKept
  <1>3. PICK next :
          /\ runs' = [runs EXCEPT ![t] = next]
          /\ DOMAIN next = RunFields /\ next.no = runs[t].no /\ next.since = runs[t].since
          /\ \/ next.stage = "failed"
             \/ /\ ~Refuses(runs[t]) /\ next.stage = NextStage[runs[t].stage]
                /\ LearnsAs(next, runs[t], Learned[runs[t].stage], Learns(runs[t]))
    <2>1. CASE Refuses(runs[t])
      <3> DEFINE next == [runs[t] EXCEPT !.stage = "failed"]
      <3>1. runs' = [runs EXCEPT ![t] = next]
        BY <2>1 DEF Receive, Fails
      <3>2. DOMAIN next = RunFields /\ next.no = runs[t].no /\ next.since = runs[t].since
              /\ next.stage = "failed"
        BY <1>1 DEF RunFields
      <3> QED BY <3>1, <3>2
    <2>2. CASE ~Refuses(runs[t])
      <3> DEFINE next == [runs[t] EXCEPT ![Learned[runs[t].stage]] = Learns(runs[t]),
                                         !.stage = NextStage[runs[t].stage],
                                         !.answer = Waiting]
      <3>1. runs' = [runs EXCEPT ![t] = next]
        BY <2>2 DEF Receive
      <3>2. LearnsAs(next, runs[t], Learned[runs[t].stage], Learns(runs[t]))
        BY DEF LearnsAs
      <3>3. Learned[runs[t].stage] \in {"product", "cart", "session", "order", "link"}
        BY <1>1, StageTable
      <3> HIDE DEF next
      <3>4. DOMAIN next = RunFields /\ next.no = runs[t].no /\ next.since = runs[t].since
              /\ next.stage = NextStage[runs[t].stage]
        BY <1>1, <3>2, <3>3, LearnEffect
      <3> QED BY <2>2, <3>1, <3>2, <3>4
    <2> QED BY <2>1, <2>2
  <1>4. /\ next.stage \in {"failed", "cart", "session", "complete", "link", "done"}
        /\ runs[t].stage \in {"complete", "link"} => next.stage \in {"failed", "link", "done"}
    <2>1. next.stage = "failed" \/ next.stage = NextStage[runs[t].stage]
      BY <1>3
    <2> QED BY <1>1, <2>1, StageTable
  <1>5. RunsNumbered'
    <2>1. next.stage \in DOMAIN NextStage \cup Ended
      BY <1>4, StageTable DEF Ended
    <2> QED BY <1>1, <1>3, <2>1, RunGoesOn
  <1>6. runs'[t] = next /\ \A u \in Terminals \ {t} : runs'[u] = runs[u]
    BY <1>1, <1>3
  <1>7. RunsInformed'
    <2> SUFFICES ASSUME NEW u \in Terminals, Begun(u)', runs'[u].since = restarts
                 PROVE  Informed(runs[u])'
      BY <1>1 DEF RunsInformed
    <2>1. CASE u # t
      BY <1>1, <1>2, <1>6, <2>1, StillInformed
    <2>2. CASE u = t /\ next.stage = "failed"
      BY <1>6, <2>2 DEF Informed
    <2>3. CASE u = t /\ next.stage # "failed"
      <3>1. Informed(runs[t])
        BY <1>1, <1>3, <1>6, <2>3 DEF RunsInformed
      <3>2. Informed(next)
        <4>0. /\ next.stage = NextStage[runs[t].stage]
              /\ LearnsAs(next, runs[t], Learned[runs[t].stage], Learns(runs[t]))
              /\ ~Refuses(runs[t])
          BY <1>3, <2>3
        <4>1. CASE runs[t].stage = "catalog"
          <5>1. /\ next.product = Learns(runs[t]) /\ next.wanted = runs[t].wanted
                /\ next.stage = "cart" /\ next.answer = Waiting
            BY <1>1, <4>0, <4>1, StageTable, LearnEffect
          <5>2. next.wanted \in {None, next.product}
            <6>1. Choice(runs[t]) # {}
              BY <4>0, <4>1 DEF Refuses
            <6>2. Learns(runs[t]) \in Choice(runs[t])
              BY <4>1, <6>1 DEF Learns
            <6> QED BY <5>1, <6>2 DEF Choice
          <5> QED BY <5>1, <5>2 DEF Informed
        <4>2. CASE runs[t].stage = "cart"
          <5>1. /\ next.cart = runs[t].answer /\ next.stage = "session" /\ next.answer = Waiting
                /\ next.wanted = runs[t].wanted /\ next.product = runs[t].product
                /\ next.session = runs[t].session /\ next.order = runs[t].order
            <6>1. Learns(runs[t]) = runs[t].answer
              BY <4>2 DEF Learns
            <6> QED BY <1>1, <4>0, <4>2, <6>1, StageTable, LearnEffect
          <5>2. runs[t].answer \notin {Waiting, Failure}
            BY <1>1, <4>0 DEF Refuses
          <5> QED BY <3>1, <4>2, <5>1, <5>2 DEF Informed
        <4>3. CASE runs[t].stage = "session"
          <5>1. /\ next.session = runs[t].answer /\ next.stage = "complete" /\ next.answer = Waiting
                /\ next.wanted = runs[t].wanted /\ next.product = runs[t].product
                /\ next.cart = runs[t].cart /\ next.order = runs[t].order
            <6>1. Learns(runs[t]) = runs[t].answer
              BY <4>3 DEF Learns
            <6> QED BY <1>1, <4>0, <4>3, <6>1, StageTable, LearnEffect
          <5>2. runs[t].answer \notin {Waiting, Failure}
            BY <1>1, <4>0 DEF Refuses
          <5> QED BY <3>1, <4>3, <5>1, <5>2 DEF Informed
        <4>4. CASE runs[t].stage = "complete"
          <5>1. /\ next.order = runs[t].answer /\ next.stage = "link" /\ next.answer = Waiting
                /\ next.wanted = runs[t].wanted /\ next.product = runs[t].product
                /\ next.cart = runs[t].cart /\ next.session = runs[t].session
            <6>1. Learns(runs[t]) = runs[t].answer
              BY <4>4 DEF Learns
            <6> QED BY <1>1, <4>0, <4>4, <6>1, StageTable, LearnEffect
          <5>2. runs[t].answer \notin {Waiting, Failure}
            BY <1>1, <4>0 DEF Refuses
          <5> QED BY <3>1, <4>4, <5>1, <5>2 DEF Informed
        <4>5. CASE runs[t].stage = "link"
          <5>1. /\ next.stage = "done" /\ next.answer = Waiting
                /\ next.wanted = runs[t].wanted /\ next.product = runs[t].product
                /\ next.cart = runs[t].cart /\ next.session = runs[t].session /\ next.order = runs[t].order
            <6>1. Learns(runs[t]) = runs[t].answer
              BY <4>5 DEF Learns
            <6> QED BY <1>1, <4>0, <4>5, <6>1, StageTable, LearnEffect
          <5>2. runs[t].answer \notin {Waiting, Failure}
            BY <1>1, <4>0 DEF Refuses
          <5> QED BY <3>1, <4>5, <5>1, <5>2 DEF Informed
        <4> QED BY <1>1, <4>1, <4>2, <4>3, <4>4, <4>5, StageTable
      <3>3. UNCHANGED <<carts, sessions, orders>>
        BY <1>1 DEF shop
      <3> QED BY <1>6, <2>3, <3>2, <3>3 DEF Informed
    <2> QED BY <2>1, <2>2, <2>3
  <1>8. OrdersOfRuns'
    <2>1. runs'[t].stage \in {"failed", "link", "done"}
            \/ runs[t].stage \notin {"complete", "link", "done", "failed"}
      BY <1>1, <1>4, <1>6, StageTable
    <2>2. \A u \in Terminals : runs'[u].stage # "idle" =>
            /\ Begun(u) /\ runs'[u].no = runs[u].no
            /\ \/ runs'[u].stage = runs[u].stage /\ runs'[u].session = runs[u].session
               \/ runs'[u].stage \in {"link", "done", "failed"}
               \/ runs[u].stage \notin {"complete", "link", "done", "failed"}
      BY <1>1, <1>3, <1>6, <2>1 DEF Begun
    <2> QED BY <1>1, <2>2, OrdersKept DEF shop
  <1>9. OneOrderPerBuyer'
    BY <1>1 DEF shop, OneOrderPerBuyer
  <1> QED BY <1>2, <1>5, <1>7, <1>8, <1>9

\* A run that starts knows nothing, and has a number of its own.
LEMMA StartKeeps ==
  ASSUME CliOK, NEW t \in Terminals, NEW wanted, Start(t, wanted)
  PROVE  CliOK'
  <1> USE DEF CliOK
  <1>1. /\ runs' = [runs EXCEPT ![t] = Fresh(wanted)]
        /\ started' = started + 1 /\ restarts' = restarts /\ UNCHANGED shop
        /\ DOMAIN runs = Terminals /\ started \in Nat /\ restarts \in Nat
    BY DEF Start, RunsNumbered
  <1>2. ShopConsistent' /\ ShopGrows /\ orders' = orders
    BY <1>1, ShopKept DEF shop
  <1>3. /\ DOMAIN runs' = Terminals /\ runs'[t] = Fresh(wanted)
        /\ \A u \in Terminals \ {t} : runs'[u] = runs[u]
    BY <1>1
  <1>4. /\ DOMAIN Fresh(wanted) = RunFields /\ Fresh(wanted).stage = "catalog"
        /\ Fresh(wanted).answer = Waiting /\ Fresh(wanted).no = started + 1
        /\ Fresh(wanted).since = restarts
    BY DEF Fresh, RunFields
  <1> HIDE DEF CliOK
  <1>5. \A u \in Terminals : Begun(u) => runs[u].no \in 1..started
    BY DEF CliOK, RunsNumbered
  <1>6. RunsNumbered'
    <2>1. \A u \in Terminals : Begun(u)' =>
            /\ DOMAIN runs'[u] = RunFields
            /\ runs'[u].stage \in DOMAIN NextStage \cup Ended
            /\ runs'[u].no \in 1..started + 1 /\ runs'[u].since \in 0..restarts
      <3> TAKE u \in Terminals
      <3>1. CASE u = t
        BY <1>1, <1>3, <1>4, <3>1, StageTable
      <3>2. CASE u # t
        BY <1>1, <1>3, <3>2 DEF CliOK, RunsNumbered, Begun
      <3> QED BY <3>1, <3>2
    <2>2. \A u, v \in Terminals :
            Begun(u)' /\ Begun(v)' /\ runs'[u].no = runs'[v].no => u = v
      BY <1>1, <1>3, <1>4, <1>5 DEF CliOK, RunsNumbered, Begun
    <2> QED BY <1>1, <1>3, <2>1, <2>2 DEF RunsNumbered
  <1>7. RunsInformed'
    <2> SUFFICES ASSUME NEW u \in Terminals, Begun(u)', runs'[u].since = restarts
                 PROVE  Informed(runs[u])'
      BY <1>1 DEF RunsInformed
    <2>1. CASE u # t
      BY <1>1, <1>2, <1>3, <2>1, StillInformed DEF CliOK
    <2>2. CASE u = t
      BY <1>3, <1>4, <2>2 DEF Informed
    <2> QED BY <2>1, <2>2
  <1>8. OrdersOfRuns'
    <2>1. \A s \in DOMAIN orders : orders[s].by \in 1..started
      BY DEF CliOK, OrdersOfRuns
    <2> QED BY <1>1, <1>2, <1>3, <1>4, <2>1 DEF CliOK, OrdersOfRuns, Begun
  <1>9. OneOrderPerBuyer'
    BY <1>2 DEF CliOK, OneOrderPerBuyer
  <1> QED BY <1>2, <1>6, <1>7, <1>8, <1>9 DEF CliOK

\* After a restart there is no cart, session or order, and no run began since.
LEMMA RestartKeeps ==
  ASSUME CliOK, Restart
  PROVE  CliOK'
  <1>1. /\ restarts' = restarts + 1 /\ started' = started /\ nextId' = 0
        /\ DOMAIN carts' = {} /\ DOMAIN sessions' = {} /\ DOMAIN orders' = {}
        /\ started \in Nat /\ restarts \in Nat
    BY DEF Restart, FreshShop, EmptyStore, CliOK, RunsNumbered
  <1>2. ShopConsistent' /\ OrdersOfRuns' /\ OneOrderPerBuyer'
    BY <1>1 DEF ShopConsistent, OrdersOfRuns, OneOrderPerBuyer
  <1>3. /\ DOMAIN runs' = Terminals
        /\ \A t \in Terminals :
             /\ Begun(t)' => Begun(t)
             /\ Begun(t) => /\ DOMAIN runs'[t] = RunFields
                            /\ runs'[t].stage = runs[t].stage /\ runs'[t].no = runs[t].no
                            /\ runs'[t].since = runs[t].since
    BY DEF Restart, CliOK, RunsNumbered, Begun, Ended, RunFields
  <1>4. RunsNumbered'
    BY <1>1, <1>3 DEF CliOK, RunsNumbered
  <1>5. RunsInformed'
    BY <1>1, <1>3 DEF CliOK, RunsNumbered, RunsInformed
  <1> QED BY <1>2, <1>4, <1>5 DEF CliOK

\* The server and the runs keep what is said of them.
LEMMA CliNext ==
  ASSUME CliOK, (\E t \in Terminals : CliStep(t)) \/ UserStep
  PROVE  CliOK'
  <1>1. ASSUME NEW t \in Terminals, CliStep(t) PROVE CliOK'
    BY <1>1, ServeKeeps, ServeCompleteKeeps, ReceiveKeeps DEF CliStep, Serve
  <1>2. ASSUME UserStep PROVE CliOK'
    BY <1>2, ServeKeeps, StartKeeps, RestartKeeps DEF UserStep
  <1> QED BY <1>1, <1>2
-----------------------------------------------------------------------------
(* The loop over stdin                                                     *)

IsSequence(s) == \E S : s \in Seq(S)

\* The calls whose answer says that something was bought.
Bought ==
  {answers[i].id : i \in {j \in DOMAIN answers :
     answers[j].tool = "complete_checkout" /\ answers[j].result # ErrorAnswer}}

Buyers == {orders[s].by : s \in DOMAIN orders}

\* What IInv says of a server that reads stdin.
McpOK ==
  /\ ShopConsistent /\ OrdersOfLines /\ OneOrderPerBuyer
  /\ Buyers = Bought /\ IsSequence(answers)

\* A line that is taken from stdin is the one after those that were handled.
LEMMA LineTaken ==
  ASSUME OrdersOfLines, stdin # <<>>, stdin' = Tail(stdin), sent' = sent
  PROVE  /\ stdin' \in Seq(LineType) /\ sent' \in Seq(LineType)
         /\ Len(stdin') <= Len(sent')
         /\ \A i \in DOMAIN stdin' : stdin'[i].id \in {None, Handled' + i}
         /\ Handled \in Nat /\ Handled' = Handled + 1
         /\ Head(stdin).id \in {None, Handled + 1}
  <1>1. /\ stdin \in Seq(LineType) /\ sent \in Seq(LineType) /\ Len(stdin) <= Len(sent)
        /\ \A i \in DOMAIN stdin : stdin[i].id \in {None, Handled + i}
    BY DEF OrdersOfLines
  <1>2. /\ stdin' \in Seq(LineType) /\ Len(stdin) \in Nat \ {0} /\ Len(sent) \in Nat
        /\ Len(stdin') = Len(stdin) - 1
        /\ DOMAIN stdin = 1..Len(stdin) /\ DOMAIN stdin' = 1..Len(stdin')
        /\ \A i \in DOMAIN stdin' : stdin'[i] = stdin[i + 1]
        /\ Head(stdin) = stdin[1]
    BY <1>1
  <1>3. Handled \in Nat /\ Handled' = Handled + 1
    BY <1>1, <1>2 DEF Handled
  <1>4. \A i \in DOMAIN stdin' : i + 1 \in DOMAIN stdin /\ Handled + (i + 1) = Handled' + i
    BY <1>2, <1>3
  <1>5. \A i \in DOMAIN stdin' : stdin'[i].id \in {None, Handled' + i}
    BY <1>1, <1>2, <1>4
  <1>6. Head(stdin).id \in {None, Handled + 1}
    BY <1>1, <1>2
  <1> QED BY <1>1, <1>2, <1>3, <1>5, <1>6

\* An answer more.
LEMMA ReplyEffect ==
  ASSUME IsSequence(answers), NEW answer, answers' = Append(answers, answer)
  PROVE  /\ IsSequence(answers')
         /\ Bought' = IF answer.tool = "complete_checkout" /\ answer.result # ErrorAnswer
                      THEN Bought \cup {answer.id} ELSE Bought
  <1>1. PICK S : answers \in Seq(S)
    BY DEF IsSequence
  <1>2. answers \in Seq(S \cup {answer})
    BY <1>1, SeqMonotonic
  <1>3. /\ answers' \in Seq(S \cup {answer})
        /\ DOMAIN answers' = DOMAIN answers \cup {Len(answers) + 1}
        /\ Len(answers) + 1 \notin DOMAIN answers
        /\ \A i \in DOMAIN answers : answers'[i] = answers[i]
        /\ answers'[Len(answers) + 1] = answer
    BY <1>2
  <1>4. IsSequence(answers')
    BY <1>3 DEF IsSequence
  <1> QED BY <1>3, <1>4 DEF Bought

\* As long as there are no new orders and no new answers, nothing is bought.
LEMMA NothingBought ==
  ASSUME UNCHANGED <<orders, answers>>
  PROVE  /\ Buyers' = Buyers /\ Bought' = Bought
         /\ OneOrderPerBuyer => OneOrderPerBuyer'
         /\ IsSequence(answers) => IsSequence(answers')
  <1>1. Buyers' = Buyers
    BY DEF Buyers
  <1>2. Bought' = Bought
    BY DEF Bought
  <1>3. OneOrderPerBuyer => OneOrderPerBuyer'
    BY DEF OneOrderPerBuyer
  <1>4. IsSequence(answers) => IsSequence(answers')
    BY DEF IsSequence
  <1> QED BY <1>1, <1>2, <1>3, <1>4

\* A line is answered that buys nothing.
LEMMA AnswerBuysNothing ==
  ASSUME McpOK, ShopConsistent', orders' = orders, stdin # <<>>,
         NEW line, line = Head(stdin), NEW result, Reply(line, result),
         line.tool # "complete_checkout" \/ result = ErrorAnswer
  PROVE  McpOK'
  <1>1. stdin' = Tail(stdin) /\ sent' = sent
    BY DEF Reply
  <1>2. OrdersOfLines'
    <2>1. \A s \in DOMAIN orders : orders[s].by \in 1..Handled + 1
      BY <1>1, LineTaken DEF McpOK, OrdersOfLines
    <2> QED BY <1>1, <2>1, LineTaken DEF McpOK, OrdersOfLines
  <1>3. Bought' = Bought /\ IsSequence(answers')
    <2> DEFINE answer == [id |-> line.id, tool |-> line.tool, result |-> result]
    <2>1. answers' = Append(answers, answer)
      BY DEF Reply
    <2>2. ~(answer.tool = "complete_checkout" /\ answer.result # ErrorAnswer)
      OBVIOUS
    <2> HIDE DEF answer
    <2> QED BY <2>1, <2>2, ReplyEffect DEF McpOK
  <1> QED BY <1>2, <1>3 DEF McpOK, OneOrderPerBuyer, Buyers

\* A checkout over MCP orders once, for a call nothing was ordered for.
LEMMA CheckOutToolKeeps ==
  ASSUME McpOK, stdin # <<>>, NEW line, line = Head(stdin), CheckOutTool(line)
  PROVE  McpOK'
  <1>1. /\ CheckOut(line.arg, line.id) /\ Reply(line, nextId)
        /\ line.tool = "complete_checkout" /\ line.id # None
        /\ stdin' = Tail(stdin) /\ sent' = sent
    BY DEF CheckOutTool, Wanted, Reply
  <1>2. /\ ShopConsistent' /\ ShopGrows
        /\ nextId \notin DOMAIN orders /\ DOMAIN orders' = DOMAIN orders \cup {nextId}
        /\ orders'[nextId].by = line.id
    BY <1>1, CheckOutEffect DEF McpOK
  <1>3. \A s \in DOMAIN orders : orders'[s] = orders[s]
    BY <1>2 DEF ShopGrows
  <1>4. /\ line.id = Handled + 1 /\ Handled \in Nat
        /\ \A s \in DOMAIN orders : orders[s].by \in 1..Handled
    BY <1>1, LineTaken DEF McpOK, OrdersOfLines
  <1>5. OrdersOfLines'
    <2>1. \A s \in DOMAIN orders' : orders'[s].by \in 1..Handled + 1
      BY <1>2, <1>3, <1>4
    <2> QED BY <1>1, <2>1, LineTaken DEF McpOK, OrdersOfLines
  <1>6. OneOrderPerBuyer'
    BY <1>2, <1>3, <1>4 DEF McpOK, OneOrderPerBuyer
  <1>7. Bought' = Bought \cup {line.id} /\ IsSequence(answers')
    <2> DEFINE answer == [id |-> line.id, tool |-> line.tool, result |-> nextId]
    <2>1. answers' = Append(answers, answer)
      BY <1>1 DEF Reply
    <2>2. nextId # ErrorAnswer
      BY McpAssumption DEF McpOK, ShopConsistent
    <2>3. answer.tool = "complete_checkout" /\ answer.result # ErrorAnswer /\ answer.id = line.id
      BY <1>1, <2>2
    <2> HIDE DEF answer
    <2> QED BY <2>1, <2>3, ReplyEffect DEF McpOK
  <1>8. Buyers' = Buyers \cup {line.id}
    BY <1>2, <1>3 DEF Buyers
  <1> QED BY <1>2, <1>5, <1>6, <1>7, <1>8 DEF McpOK

\* Every line that is handled keeps orders and answers together, and the shop
\* forgets nothing.
LEMMA HandleKeeps ==
  ASSUME McpOK, HandleLine
  PROVE  McpOK' /\ ShopGrows
  <1> DEFINE line == Head(stdin)
  <1>0. stdin # <<>> /\ ShopConsistent
    BY DEF HandleLine, McpOK
  <1> HIDE DEF line
  <1>1. CASE Skip(line)
    <2>1. /\ stdin' = Tail(stdin) /\ UNCHANGED <<answers, sent, serving, shop>>
      BY <1>1 DEF Skip
    <2>2. OrdersOfLines'
      <3>1. \A s \in DOMAIN orders : orders[s].by \in 1..Handled + 1
        BY <1>0, <2>1, LineTaken DEF McpOK, OrdersOfLines
      <3> QED BY <1>0, <2>1, <3>1, LineTaken DEF McpOK, OrdersOfLines, shop
    <2>3. ShopConsistent' /\ ShopGrows
      BY <1>0, <2>1, ShopKept
    <2>4. orders' = orders /\ answers' = answers
      BY <2>1 DEF shop
    <2> QED BY <2>2, <2>3, <2>4, NothingBought DEF McpOK
  <1>2. CASE StopReading(line)
    <2>1. UNCHANGED <<stdin, answers, sent, shop>>
      BY <1>2 DEF StopReading
    <2>2. ShopConsistent' /\ ShopGrows
      BY <1>0, <2>1, ShopKept
    <2>3. orders' = orders /\ answers' = answers
      BY <2>1 DEF shop
    <2>4. OrdersOfLines'
      BY <2>1, <2>3 DEF McpOK, OrdersOfLines, Handled
    <2> QED BY <2>2, <2>3, <2>4, NothingBought DEF McpOK
  <1>3. CASE ReadTool(line) \/ Refuse(line)
    <2>1. PICK result :
            /\ Reply(line, result) /\ UNCHANGED shop
            /\ line.tool # "complete_checkout" \/ result = ErrorAnswer
      BY <1>3 DEF ReadTool, Refuse
    <2>2. ShopConsistent' /\ ShopGrows /\ orders' = orders
      BY <1>0, <2>1, ShopKept DEF shop
    <2> QED BY <1>0, <2>1, <2>2, AnswerBuysNothing DEF line
  <1>4. CASE CartTool(line)
    <2>1. /\ Reply(line, nextId) /\ CreateCart(line.arg) /\ line.tool # "complete_checkout"
      BY <1>4 DEF CartTool
    <2>2. ShopConsistent' /\ ShopGrows /\ orders' = orders
      BY <1>0, <2>1, CreateCartEffect
    <2> QED BY <1>0, <2>1, <2>2, AnswerBuysNothing DEF line
  <1>5. CASE CheckOutTool(line)
    <2>1. McpOK'
      BY <1>0, <1>5, CheckOutToolKeeps DEF line
    <2>2. ShopGrows
      BY <1>0, <1>5, CheckOutEffect DEF CheckOutTool
    <2> QED BY <2>1, <2>2
  <1> QED BY <1>1, <1>2, <1>3, <1>4, <1>5 DEF HandleLine, line

\* A line that is sent comes after all others.
LEMMA SendKeeps ==
  ASSUME McpOK, Send
  PROVE  McpOK' /\ ShopGrows
  <1>1. PICK line \in Lines(Len(sent) + 1) :
          /\ stdin' = Append(stdin, line) /\ sent' = Append(sent, line)
          /\ UNCHANGED <<answers, serving, shop>>
    BY DEF Send
  <1>2. /\ stdin \in Seq(LineType) /\ sent \in Seq(LineType)
        /\ Len(stdin) <= Len(sent) /\ Len(sent) \in Nat /\ Len(stdin) \in Nat
        /\ \A i \in DOMAIN stdin : stdin[i].id \in {None, Handled + i}
    BY DEF McpOK, OrdersOfLines
  <1>3. line \in LineType /\ line.id \in {None, Len(sent) + 1}
    <2>1. CASE \E tool \in Tools : \E id \in {Len(sent) + 1, None} :
                 \E arg \in ArgsOf(tool) : line = Line("call", id, tool, arg)
      <3>1. PICK tool \in Tools : \E id \in {Len(sent) + 1, None}, arg \in ArgsOf(tool) :
              line = Line("call", id, tool, arg)
        BY <2>1
      <3>2. PICK id \in {Len(sent) + 1, None}, arg \in ArgsOf(tool) :
              line = Line("call", id, tool, arg)
        BY <3>1
      <3>3. arg \in Asked \cup Nat \cup {None}
        <4>1. ArgsOf(tool) \subseteq Asked \cup Nat \cup {None}
          BY McpAssumption DEF ArgsOf
        <4> QED BY <4>1
      <3> QED BY <1>2, <3>2, <3>3 DEF Line, LineType
    <2>2. CASE line \in {Line("garbage", None, "other", None), Line("bytes", None, "other", None)}
      BY <2>2 DEF Line, LineType, Tools
    <2> QED BY <1>1, <2>1, <2>2 DEF Lines
  <1>4. /\ stdin' \in Seq(LineType) /\ sent' \in Seq(LineType)
        /\ Len(stdin') = Len(stdin) + 1 /\ Len(sent') = Len(sent) + 1
        /\ DOMAIN stdin' = DOMAIN stdin \cup {Len(stdin) + 1}
        /\ \A i \in DOMAIN stdin : stdin'[i] = stdin[i]
        /\ stdin'[Len(stdin) + 1] = line
    BY <1>1, <1>2, <1>3
  <1>5. Handled' = Handled /\ Handled + (Len(stdin) + 1) = Len(sent) + 1
    BY <1>2, <1>4 DEF Handled
  <1>6. \A i \in DOMAIN stdin' : stdin'[i].id \in {None, Handled' + i}
    BY <1>2, <1>3, <1>4, <1>5
  <1>7. OrdersOfLines'
    BY <1>1, <1>2, <1>4, <1>5, <1>6 DEF McpOK, OrdersOfLines, shop
  <1>8. ShopConsistent' /\ ShopGrows
    BY <1>1, ShopKept DEF McpOK
  <1>9. orders' = orders /\ answers' = answers
    BY <1>1 DEF shop
  <1> QED BY <1>7, <1>8, <1>9, NothingBought DEF McpOK
-----------------------------------------------------------------------------
(* The catalog and the walk                                                *)

Rank(p, query) == IF query.search = None THEN 0 ELSE SearchRank(p, query.search)

\* The products are finitely many, and their ids tell them apart.
LEMMA ProductsAre ==
  /\ DOMAIN Products = 1..Len(Products) /\ Len(Products) \in Nat
  /\ IsFiniteSet(Range(Products))
  /\ \A p \in Range(Products) : p.id \in Nat
  /\ \A p, q \in Range(Products) : p.id = q.id => p = q
  <1>1. DOMAIN Products = 1..Len(Products) /\ Len(Products) \in Nat
    BY ProductsAssumption
  <1>2. Products \in Surjection(1..Len(Products), Range(Products))
    BY <1>1, ProductsAssumption DEF Surjection, Range
  <1>3. IsFiniteSet(Range(Products))
    BY <1>1, <1>2, FS_Surjection, FS_Interval
  <1>4. \A p \in Range(Products) : p.id \in Nat
    BY ProductsAssumption
  <1>5. ASSUME NEW i \in DOMAIN Products, NEW j \in DOMAIN Products,
               Products[i].id = Products[j].id
        PROVE  Products[i] = Products[j]
    <2>1. Products[i].id \in Nat /\ Products[j].id \in Nat
      BY <1>4 DEF Range
    <2>2. ~(i < j) /\ ~(j < i)
      BY <1>5, <2>1, ProductsAssumption
    <2> QED BY <1>1, <2>2
  <1>6. \A p, q \in Range(Products) : p.id = q.id => p = q
    BY <1>5 DEF Range
  <1> QED BY <1>1, <1>3, <1>4, <1>6

\* The feed has an order: of two products, exactly one is before the other.
LEMMA FeedOrder ==
  ASSUME NEW query, NEW p \in Range(Products), NEW q \in Range(Products)
  PROVE  /\ ~Before(p, p, query)
         /\ Before(p, q, query) => ~Before(q, p, query)
         /\ p # q => Before(p, q, query) \/ Before(q, p, query)
         /\ \A r \in Range(Products) :
              Before(p, q, query) /\ Before(q, r, query) => Before(p, r, query)
  <1>1. \A r \in Range(Products) : Rank(r, query) \in Int
    BY ProductsAssumption DEF Rank, SearchRank
  <1>2. \A r, s \in Range(Products) :
          Before(r, s, query) <=>
            \/ Rank(r, query) > Rank(s, query)
            \/ Rank(r, query) = Rank(s, query) /\ r.id < s.id
    BY DEF Before, Rank
  <1>3. \A r \in Range(Products) : r.id \in Nat
    BY ProductsAre
  <1>4. p.id = q.id => p = q
    BY ProductsAre
  <1> QED BY <1>1, <1>2, <1>3, <1>4

\* What the feed shows before p.
Ahead(p, query) == {q \in Hits(query) : Before(q, p, query)}

LEMMA AheadIs ==
  ASSUME NEW query, NEW p \in Hits(query)
  PROVE  /\ IsFiniteSet(Hits(query)) /\ Cardinality(Hits(query)) \in Nat
         /\ IsFiniteSet(Ahead(p, query)) /\ Cardinality(Ahead(p, query)) \in Nat
         /\ Place(p, query) = Cardinality(Ahead(p, query)) + 1
         /\ p \in Range(Products) /\ p \notin Ahead(p, query)
         /\ Ahead(p, query) \cup {p} \subseteq Hits(query)
         /\ Cardinality(Ahead(p, query) \cup {p}) = Place(p, query)
  <1>1. Hits(query) \subseteq Range(Products)
    BY DEF Hits
  <1>2. IsFiniteSet(Hits(query))
    BY <1>1, ProductsAre, FS_Subset
  <1>3. Ahead(p, query) \subseteq Hits(query)
    BY DEF Ahead
  <1>4. IsFiniteSet(Ahead(p, query))
    BY <1>2, <1>3, FS_Subset
  <1>5. p \in Range(Products) /\ p \notin Ahead(p, query)
    BY <1>1, FeedOrder DEF Ahead
  <1>6. Place(p, query) = Cardinality(Ahead(p, query)) + 1
    BY DEF Place, Ahead
  <1>7. Cardinality(Ahead(p, query) \cup {p}) = Cardinality(Ahead(p, query)) + 1
    BY <1>4, <1>5, FS_AddElement
  <1> QED BY <1>2, <1>3, <1>4, <1>5, <1>6, <1>7, FS_CardinalityType

\* Places are numbered from one to the number of hits.
LEMMA PlaceType ==
  ASSUME NEW query, NEW p \in Hits(query)
  PROVE  Place(p, query) \in 1..Cardinality(Hits(query))
  <1>1. Cardinality(Ahead(p, query) \cup {p}) <= Cardinality(Hits(query))
    BY AheadIs, FS_Subset
  <1> QED BY <1>1, AheadIs

\* Whoever is before has a smaller place.
LEMMA PlaceGrows ==
  ASSUME NEW query, NEW p \in Hits(query), NEW q \in Hits(query), Before(p, q, query)
  PROVE  Place(p, query) < Place(q, query)
  <1>1. Ahead(p, query) \cup {p} \subseteq Ahead(q, query)
    <2>1. \A r \in Ahead(p, query) : r \in Hits(query) /\ Before(r, q, query)
      BY FeedOrder, AheadIs DEF Ahead, Hits
    <2> QED BY <2>1 DEF Ahead
  <1>2. Cardinality(Ahead(p, query) \cup {p}) <= Cardinality(Ahead(q, query))
    BY <1>1, AheadIs, FS_Subset
  <1>3. Cardinality(Ahead(p, query) \cup {p}) = Place(p, query)
    BY AheadIs
  <1>4. Place(q, query) = Cardinality(Ahead(q, query)) + 1 /\ Cardinality(Ahead(q, query)) \in Nat
    BY AheadIs
  <1>5. Place(p, query) <= Cardinality(Ahead(q, query)) /\ Place(p, query) \in Nat
    <2>1. Place(p, query) = Cardinality(Ahead(p, query)) + 1 /\ Cardinality(Ahead(p, query)) \in Nat
      BY AheadIs
    <2> QED BY <1>2, <1>3, <2>1
  <1> QED BY <1>4, <1>5

\* No place is empty: otherwise there were fewer places than hits.
LEMMA PlaceTaken ==
  ASSUME NEW query, NEW n \in 1..Cardinality(Hits(query))
  PROVE  \E p \in Hits(query) : Place(p, query) = n
  <1> DEFINE hits  == Hits(query)
             size  == Cardinality(hits)
             place == [p \in hits |-> Place(p, query)]
             rest  == (1..size) \ {n}
  <1>1. SUFFICES ASSUME \A p \in hits : Place(p, query) # n
                 PROVE  FALSE
    OBVIOUS
  <1>2. hits \subseteq Range(Products) /\ IsFiniteSet(hits) /\ size \in Nat
    BY ProductsAre, FS_Subset, FS_CardinalityType DEF Hits
  <1>3. place \in [hits -> rest]
    BY <1>1, PlaceType
  <1>4. IsFiniteSet(rest) /\ Cardinality(rest) < Cardinality(hits)
    <2>1. IsFiniteSet(1..size) /\ Cardinality(1..size) = size
      BY <1>2, FS_Interval
    <2>2. n \in 1..size
      OBVIOUS
    <2>3. IsFiniteSet(rest) /\ Cardinality(rest) = size - 1
      <3> HIDE DEF size
      <3> QED BY <2>1, <2>2, FS_RemoveElement
    <2> QED BY <1>2, <2>3
  <1>5. \E p, q \in hits : p # q /\ place[p] = place[q]
    <2> HIDE DEF place, rest, hits
    <2> QED BY <1>2, <1>3, <1>4, FS_PigeonHole
  <1>6. PICK p \in hits, q \in hits : p # q /\ Place(p, query) = Place(q, query)
    BY <1>5
  <1>7. Before(p, q, query) \/ Before(q, p, query)
    BY <1>2, <1>6, FeedOrder
  <1>8. Place(p, query) \in Int /\ Place(q, query) \in Int
    BY <1>2, PlaceType
  <1> QED BY <1>6, <1>7, <1>8, PlaceGrows

\* What is found: every hit, once, in the order of the feed.
LEMMA FoundIs ==
  ASSUME NEW query
  PROVE  /\ Found(query) \in Seq(Range(Products))
         /\ {Found(query)[n] : n \in DOMAIN Found(query)} = Hits(query)
         /\ \A m, n \in DOMAIN Found(query) :
              m < n => Before(Found(query)[m], Found(query)[n], query)
  <1> DEFINE size  == Cardinality(Hits(query))
             found == Found(query)
  <1>1. Hits(query) \subseteq Range(Products) /\ size \in Nat
    BY ProductsAre, FS_Subset, FS_CardinalityType DEF Hits
  <1>2. ASSUME NEW n \in 1..size
        PROVE  found[n] \in Hits(query) /\ Place(found[n], query) = n
    <2>1. found[n] = CHOOSE p \in Hits(query) : Place(p, query) = n
      BY DEF Found
    <2> QED BY <2>1, PlaceTaken
  <1>3. DOMAIN found = 1..size /\ found \in [1..size -> Range(Products)]
    BY <1>1, <1>2 DEF Found
  <1>4. found \in Seq(Range(Products))
    BY <1>1, <1>3
  <1>5. ASSUME NEW m \in 1..size, NEW n \in 1..size, m # n, ~Before(found[n], found[m], query)
        PROVE  Before(found[m], found[n], query)
    <2>1. found[m] # found[n]
      BY <1>2, <1>5
    <2> QED BY <1>1, <1>2, <1>5, <2>1, FeedOrder
  <1>6. ASSUME NEW m \in 1..size, NEW n \in 1..size, m < n
        PROVE  Before(found[m], found[n], query)
    <2>1. ~Before(found[n], found[m], query)
      <3>1. SUFFICES ASSUME Before(found[n], found[m], query) PROVE FALSE
        OBVIOUS
      <3>2. n < m
        BY <1>2, <3>1, PlaceGrows
      <3> QED BY <1>1, <1>6, <3>2
    <2> QED BY <1>1, <1>5, <1>6, <2>1
  <1>7. ASSUME NEW p \in Hits(query) PROVE \E n \in 1..size : found[n] = p
    <2> DEFINE n == Place(p, query)
    <2>1. n \in 1..size
      BY PlaceType
    <2>2. found[n] \in Hits(query) /\ Place(found[n], query) = Place(p, query)
      BY <1>2, <2>1
    <2>3. found[n] = p
      <3>1. SUFFICES ASSUME found[n] # p PROVE FALSE
        OBVIOUS
      <3>2. Before(found[n], p, query) \/ Before(p, found[n], query)
        BY <1>1, <2>2, <3>1, FeedOrder
      <3>3. Place(p, query) \in Int
        BY <1>1, <2>1
      <3> HIDE DEF found, n
      <3> QED BY <2>2, <3>2, <3>3, PlaceGrows
    <2> QED BY <2>1, <2>3
  <1> HIDE DEF found
  <1>8. {found[n] : n \in DOMAIN found} = Hits(query)
    BY <1>2, <1>3, <1>7
  <1> QED BY <1>3, <1>4, <1>6, <1>8 DEF found

LEMMA MinIs ==
  ASSUME NEW a \in Nat, NEW b \in Nat
  PROVE  Min({a, b}) = IF a <= b THEN a ELSE b
  BY DEF Min

Ids(found, n, to) == [i \in 1..(to - n) |-> found[n + i].id]

\* The page after the first n shows the next ones, up to some place, and says
\* whether there are others.
LEMMA PageIs ==
  ASSUME NEW query \in Queries, NEW found, found = Found(query), NEW n \in 0..Len(found),
         NEW listed, listed = ListProducts(query, n)
  PROVE  \E to \in n..Len(found) :
           /\ listed.items = Ids(found, n, to)
           /\ listed.has_more \in BOOLEAN
           /\ ~listed.has_more => to = Len(found)
  <1>2. found \in Seq(Range(Products)) /\ Len(found) \in Nat /\ n \in 0..Len(found)
    BY FoundIs
  <1> DEFINE to   == Min({n + LimitOf(query), Len(found)})
             page == SubSeq(found, n + 1, to)
  <1>3. LimitOf(query) \in Nat
    <2>1. CASE query.limit = None
      BY <2>1, LimitsAssumption DEF LimitOf
    <2>2. CASE query.limit # None
      <3>1. query.limit \in Nat /\ MaxLimit \in Nat
        BY <2>2, QueriesAssumption, LimitsAssumption
      <3> QED BY <2>2, <3>1, MinIs DEF LimitOf
    <2> QED BY <2>1, <2>2
  <1>4. to \in n..Len(found)
    <2>1. n + LimitOf(query) \in Nat
      BY <1>2, <1>3
    <2>2. to = IF n + LimitOf(query) <= Len(found) THEN n + LimitOf(query) ELSE Len(found)
      BY <1>2, <2>1, MinIs
    <2> HIDE DEF to
    <2> QED BY <1>2, <1>3, <2>1, <2>2
  <1>5. listed = [items    |-> [i \in DOMAIN page |-> page[i].id],
                  total    |-> Len(found),
                  has_more |-> n + Len(page) < Len(found)]
    BY DEF ListProducts
  <1> HIDE DEF to
  <1>6. /\ Len(page) = to - n /\ DOMAIN page = 1..(to - n)
        /\ \A i \in 1..(to - n) : page[i] = found[n + i]
    BY <1>2, <1>4
  <1> HIDE DEF page
  <1>7. listed.items = Ids(found, n, to)
    BY <1>5, <1>6 DEF Ids
  <1>8. listed.has_more = (n + Len(page) < Len(found))
    BY <1>5
  <1>9. listed.has_more \in BOOLEAN /\ (~listed.has_more => ~(n + Len(page) < Len(found)))
    <2>1. CASE n + Len(page) < Len(found)
      <3>1. listed.has_more = TRUE
        BY <1>8, <2>1
      <3> QED BY <3>1
    <2>2. CASE ~(n + Len(page) < Len(found))
      <3>1. (n + Len(page) < Len(found)) = FALSE
        BY <1>2, <1>4, <1>6, <2>2
      <3>2. listed.has_more = FALSE
        BY <1>8, <3>1, Zenon
      <3> QED BY <2>2, <3>2
    <2> QED BY <2>1, <2>2
  <1>10. ~(n + Len(page) < Len(found)) => to = Len(found)
    BY <1>2, <1>4, <1>6
  <1> QED BY <1>4, <1>7, <1>9, <1>10

LEMMA FunctionIsSequence ==
  ASSUME NEW T, NEW n \in Nat, NEW f \in [1..n -> T]
  PROVE  f \in Seq(T) /\ Len(f) = n
  OBVIOUS

LEMMA Concatenated ==
  ASSUME NEW T, NEW s \in Seq(T), NEW t \in Seq(T), NEW r \in Seq(T),
         Len(r) = Len(s) + Len(t),
         \A i \in 1..Len(r) : IF i <= Len(s) THEN s[i] = r[i] ELSE t[i - Len(s)] = r[i]
  PROVE  s \o t = r
  <1>1. s \o t \in Seq(T) /\ Len(s \o t) = Len(r)
    OBVIOUS
  <1>2. \A i \in 1..Len(r) : (s \o t)[i] = r[i]
    OBVIOUS
  <1> QED BY <1>1, <1>2, SeqEqual

\* A beginning of what is found, and the page after it, are a longer one.
LEMMA PagesJoin ==
  ASSUME NEW found \in Seq(Range(Products)), NEW n \in 0..Len(found), NEW to \in n..Len(found)
  PROVE  /\ [i \in 1..to |-> found[i].id] \in Seq(Nat)
         /\ [i \in 1..n |-> found[i].id] \o [i \in 1..(to - n) |-> found[n + i].id]
              = [i \in 1..to |-> found[i].id]
  <1> DEFINE seen == [i \in 1..n |-> found[i].id]
             next == [i \in 1..(to - n) |-> found[n + i].id]
             both == [i \in 1..to |-> found[i].id]
  <1>1. Len(found) \in Nat /\ n \in Nat /\ to \in Nat /\ to - n \in Nat
    OBVIOUS
  <1>2. \A i \in 1..Len(found) : found[i].id \in Nat
    BY ProductsAre
  <1>3. seen \in [1..n -> Nat] /\ next \in [1..(to - n) -> Nat] /\ both \in [1..to -> Nat]
    BY <1>1, <1>2
  <1>4. \A i \in 1..to : IF i <= n THEN seen[i] = both[i] ELSE next[i - n] = both[i]
    BY <1>1
  <1> HIDE DEF seen, next, both
  <1>5. seen \in Seq(Nat) /\ Len(seen) = n
    BY <1>1, <1>3, FunctionIsSequence
  <1>6. next \in Seq(Nat) /\ Len(next) = to - n
    BY <1>1, <1>3, FunctionIsSequence
  <1>7. both \in Seq(Nat) /\ Len(both) = to
    BY <1>1, <1>3, FunctionIsSequence
  <1>8. seen \o next = both
    <2>1. Len(both) = Len(seen) + Len(next)
      BY <1>1, <1>5, <1>6, <1>7
    <2>2. \A i \in 1..Len(both) : IF i <= Len(seen) THEN seen[i] = both[i]
                                                    ELSE next[i - Len(seen)] = both[i]
      BY <1>4, <1>5, <1>7
    <2> QED BY <1>5, <1>6, <1>7, <2>1, <2>2, Concatenated
  <1> QED BY <1>7, <1>8 DEF seen, next, both

\* The walker begins with nothing, and each page adds what comes next.
LEMMA WalkBegins == ASSUME WalkInit PROVE SeenInOrder
  <1>1. PICK query \in Queries : walk = [query |-> query, seen |-> <<>>, more |-> TRUE]
    BY DEF WalkInit
  <1>2. Found(query) \in Seq(Range(Products))
    BY FoundIs
  <1>3. walk.seen = [i \in 1..0 |-> Found(query)[i].id] /\ 0 \in 0..Len(Found(query))
    BY <1>1, <1>2
  <1> QED BY <1>1, <1>3 DEF SeenInOrder

LEMMA WalkKeeps == ASSUME SeenInOrder, WalkOn PROVE SeenInOrder'
  <1>1. PICK query \in Queries : query = walk.query
    BY DEF SeenInOrder
  <1> DEFINE found == Found(query)
  <1>2. /\ walk \in [query : Queries, seen : Seq(Nat), more : BOOLEAN]
        /\ found \in Seq(Range(Products)) /\ Len(found) \in Nat
    BY <1>1, FoundIs DEF SeenInOrder
  <1>3. PICK n \in 0..Len(found) : walk.seen = [i \in 1..n |-> found[i].id]
    BY <1>1 DEF SeenInOrder
  <1> HIDE DEF found
  <1>4. Len(walk.seen) = n
    BY <1>2, <1>3
  <1>5. PICK page : page = ListProducts(query, n)
    OBVIOUS
  <1>6. walk' = [walk EXCEPT !.seen = @ \o page.items, !.more = page.has_more]
    BY <1>1, <1>4, <1>5 DEF WalkOn
  <1>7. PICK to \in n..Len(found) :
          /\ page.items = Ids(found, n, to)
          /\ page.has_more \in BOOLEAN
          /\ ~page.has_more => to = Len(found)
    <2>1. found = Found(query)
      BY DEF found
    <2> QED BY <1>5, <2>1, PageIs
  <1>8. walk.seen \o page.items = [i \in 1..to |-> found[i].id]
        /\ [i \in 1..to |-> found[i].id] \in Seq(Nat)
    BY <1>2, <1>3, <1>7, PagesJoin DEF Ids
  <1>9. /\ walk' \in [query : Queries, seen : Seq(Nat), more : BOOLEAN]
        /\ walk'.query = query /\ walk'.seen = [i \in 1..to |-> found[i].id]
        /\ walk'.more = page.has_more
    BY <1>1, <1>2, <1>6, <1>7, <1>8
  <1>10. to \in 0..Len(found)
    OBVIOUS
  <1> QED BY <1>1, <1>7, <1>9, <1>10 DEF SeenInOrder, found

\* Class and rank agree as long as no title is so long that a match near its
\* end ranks like a tag.
LEMMA RankTells ==
  ASSUME ShortTitles, NEW query, query.search # None,
         NEW p \in Hits(query), NEW q \in Hits(query), Before(p, q, query)
  PROVE  Class(p, query.search) >= Class(q, query.search)
  <1> DEFINE word == query.search
             Level(r) == IF word \in DOMAIN r.title THEN 3 ELSE IF word \in r.tagged THEN 2 ELSE 1
  <1>1. \A r : Class(r, word) = Level(r)
    <2> SUFFICES ASSUME NEW r PROVE Class(r, word) = Level(r)
      OBVIOUS
    <2>1. {c \in 1..3 : \/ c = 1
                        \/ c = 2 /\ word \in r.tagged \cup DOMAIN r.title
                        \/ c = 3 /\ word \in DOMAIN r.title} = 1..Level(r)
      OBVIOUS
    <2>2. Cardinality(1..Level(r)) = Level(r)
      BY FS_Interval
    <2> QED BY <2>1, <2>2 DEF Class
  <1>2. ASSUME NEW r \in Hits(query)
        PROVE  /\ SearchRank(r, word) \in Int /\ SearchRank(r, word) > 0
               /\ Level(r) = 3 => SearchRank(r, word) > 1000
               /\ Level(r) = 2 => SearchRank(r, word) = 1000
               /\ Level(r) = 1 => SearchRank(r, word) < 1000
    <2>1. r \in Range(Products) /\ SearchRank(r, word) > 0
      BY DEF Hits, Matches
    <2>2. word \in DOMAIN r.title => r.title[word] \in Nat /\ r.title[word] < 99000
      BY <2>1, ProductsAssumption DEF ShortTitles
    <2> QED BY <2>1, <2>2 DEF SearchRank
  <1>3. SearchRank(p, word) >= SearchRank(q, word)
    BY <1>2 DEF Before
  <1>4. Level(p) >= Level(q)
    BY <1>2, <1>3
  <1> QED BY <1>1, <1>4
-----------------------------------------------------------------------------
(* The clients together                                                    *)

\* IInv, and that the answers are a sequence.
Inv == IInv /\ IsSequence(answers)

\* The two halves of OneOrderEach.
LEMMA OneOrderParts ==
  OneOrderEach <=> OneOrderPerBuyer /\ (client = "mcp" => Buyers = Bought)
  BY DEF OneOrderEach, OneOrderPerBuyer, Buyers, Bought

\* Runs that are left alone, while the shop grows.
LEMMA RunsKept ==
  ASSUME RunsNumbered, RunsInformed, ShopGrows, UNCHANGED <<runs, started, restarts>>
  PROVE  RunsNumbered' /\ RunsInformed'
  <1>1. RunsNumbered'
    BY DEF RunsNumbered, Begun
  <1>2. RunsInformed'
    BY StillInformed DEF RunsInformed
  <1> QED BY <1>1, <1>2

\* At first there is nothing to be wrong about.
LEMMA InvInit == Init => Inv
  <1> SUFFICES ASSUME Init PROVE Inv
    OBVIOUS
  <1>1. ShopConsistent /\ DOMAIN orders = {}
    BY DEF Init, ShopInit, ShopConsistent, EmptyStore
  <1>2. RunsNumbered /\ RunsInformed
    BY DEF Init, RunsNumbered, RunsInformed, Begun, Idle
  <1>3. OrdersOfRuns
    BY <1>1 DEF OrdersOfRuns
  <1>4. OrdersOfLines
    BY <1>1 DEF Init, McpInit, OrdersOfLines
  <1>5. OneOrderEach
    BY <1>1 DEF Init, McpInit, OneOrderEach
  <1>6. IsSequence(answers)
    BY DEF Init, McpInit, IsSequence
  <1>7. client = "walk" => SeenInOrder
    BY WalkBegins DEF Init
  <1> QED BY <1>1, <1>2, <1>3, <1>4, <1>5, <1>6, <1>7 DEF Inv, IInv

\* Every step of every client preserves the invariant.
LEMMA InvNext == Inv /\ [Next]_vars => Inv'
  <1> SUFFICES ASSUME Inv, [Next]_vars PROVE Inv'
    OBVIOUS
  <1>0. /\ ShopConsistent /\ RunsNumbered /\ RunsInformed /\ OneOrderPerBuyer
        /\ client = "cli" => OrdersOfRuns
        /\ client = "walk" => DOMAIN orders = {} /\ SeenInOrder
        /\ client = "mcp" => OrdersOfLines /\ Buyers = Bought
        /\ IsSequence(answers)
    BY OneOrderParts DEF Inv, IInv
  <1>1. CASE (\E t \in Terminals : CliStep(t)) \/ UserStep
    <2>1. client = "cli" /\ client' = client /\ answers' = answers
      BY <1>1 DEF CliStep, UserStep, mcp
    <2>2. CliOK'
      BY <1>0, <1>1, <2>1, CliNext DEF CliOK
    <2>3. OneOrderEach'
      BY <2>1, <2>2 DEF CliOK, OneOrderEach, OneOrderPerBuyer
    <2> QED BY <1>0, <2>1, <2>2, <2>3 DEF CliOK, Inv, IInv
  <1>2. CASE WalkStep \/ UNCHANGED vars
    <2>1. UNCHANGED <<client, shop, runs, started, restarts, mcp>>
      BY <1>2 DEF WalkStep, WalkOn, vars
    <2>2. ShopConsistent' /\ ShopGrows
      BY <1>0, <2>1, ShopKept
    <2>3. RunsNumbered' /\ RunsInformed'
      BY <1>0, <2>1, <2>2, RunsKept
    <2>4. (OrdersOfRuns => OrdersOfRuns') /\ (OrdersOfLines => OrdersOfLines')
      BY <2>1 DEF OrdersOfRuns, OrdersOfLines, Handled, Begun, shop, mcp
    <2>5. client' = client /\ orders' = orders /\ answers' = answers
      BY <2>1 DEF shop, mcp
    <2>6. OneOrderPerBuyer' /\ (client = "mcp" => Buyers' = Bought') /\ IsSequence(answers')
      BY <1>0, <2>5, NothingBought
    <2>7. OneOrderEach'
      BY <2>5, <2>6 DEF OneOrderEach, OneOrderPerBuyer, Buyers, Bought
    <2>8. client = "walk" => SeenInOrder'
      <3>1. CASE WalkStep
        BY <1>0, <3>1, WalkKeeps DEF WalkStep
      <3>2. CASE UNCHANGED vars
        BY <1>0, <3>2 DEF vars, SeenInOrder
      <3> QED BY <1>2, <3>1, <3>2
    <2> QED BY <1>0, <2>2, <2>3, <2>4, <2>5, <2>6, <2>7, <2>8 DEF Inv, IInv
  <1>3. CASE McpStep \/ SendStep
    <2>1. /\ client = "mcp" /\ client' = client /\ UNCHANGED <<runs, started, restarts>>
          /\ HandleLine \/ Send
      BY <1>3 DEF McpStep, SendStep
    <2>2. McpOK' /\ ShopGrows
      BY <1>0, <2>1, HandleKeeps, SendKeeps DEF McpOK
    <2>3. RunsNumbered' /\ RunsInformed'
      BY <1>0, <2>1, <2>2, RunsKept
    <2>4. OneOrderEach'
      BY <2>1, <2>2 DEF McpOK, OneOrderEach, OneOrderPerBuyer, Buyers, Bought
    <2> QED BY <2>1, <2>2, <2>3, <2>4 DEF McpOK, Inv, IInv
  <1> QED BY <1>1, <1>2, <1>3 DEF Next

\* The invariant of the clients holds in every reachable state.
THEOREM Inductive == Spec => []IInv
  <1>1. Inv => IInv
    BY DEF Inv
  <1> QED BY <1>1, InvInit, InvNext, PTL DEF Spec

\* What a run of aiter-cli reports is so, whatever other runs do, and whatever
\* runs of before a restart still do.
THEOREM TrueReports == Spec => []ReportsAreTrue
  <1>1. IInv => ReportsAreTrue
    <2> SUFFICES ASSUME IInv, NEW t \in Terminals, runs[t].stage = "done",
                        runs[t].since = restarts
                 PROVE  /\ runs[t].wanted \in {None, runs[t].product}
                        /\ carts[runs[t].cart] = runs[t].product
                        /\ sessions[runs[t].session] =
                             [cart |-> runs[t].cart, product |-> runs[t].product]
                        /\ runs[t].order = runs[t].session /\ Has(orders, runs[t].order)
                        /\ orders[runs[t].order].product = runs[t].product
      BY DEF ReportsAreTrue
    <2>1. Informed(runs[t])
      BY DEF IInv, RunsInformed, Begun
    <2>2. /\ runs[t].wanted \in {None, runs[t].product}
          /\ carts[runs[t].cart] = runs[t].product
          /\ sessions[runs[t].session] = [cart |-> runs[t].cart, product |-> runs[t].product]
          /\ runs[t].order = runs[t].session /\ Has(orders, runs[t].order)
      BY <2>1 DEF Informed
    <2>3. orders[runs[t].order].product = sessions[runs[t].session].product
      BY <2>2 DEF IInv, ShopConsistent, Has
    <2> QED BY <2>2, <2>3
  <1> QED BY <1>1, Inductive, PTL

\* A walk over the pages ends with every product its query finds, each once and
\* the better match first: no product falls between two pages or is on both.
THEOREM WalksSeeAll ==
  ASSUME ShortTitles
  PROVE  Spec => []WalkFindsAll
  <1>1. IInv => WalkFindsAll
    <2> DEFINE product(id) == CHOOSE p \in Range(Products) : p.id = id
    <2> SUFFICES ASSUME IInv, client = "walk", ~walk.more
                 PROVE  /\ Range(walk.seen) = {p.id : p \in Hits(walk.query)}
                        /\ \A i, j \in DOMAIN walk.seen : i < j =>
                             /\ walk.seen[i] # walk.seen[j]
                             /\ walk.query.search # None =>
                                  Class(product(walk.seen[i]), walk.query.search) >=
                                    Class(product(walk.seen[j]), walk.query.search)
      BY DEF WalkFindsAll, Hits
    <2>1. PICK query, found : query = walk.query /\ found = Found(query)
      OBVIOUS
    <2>2. found \in Seq(Range(Products)) /\ Len(found) \in Nat /\ DOMAIN found = 1..Len(found)
          /\ {found[n] : n \in DOMAIN found} = Hits(query)
          /\ \A m, n \in DOMAIN found : m < n => Before(found[m], found[n], query)
      BY <2>1, FoundIs
    <2>3. walk.seen = [i \in DOMAIN found |-> found[i].id]
      BY <2>1, <2>2 DEF IInv, SeenInOrder
    <2>4. \A i \in DOMAIN found : found[i] \in Hits(query) /\ found[i] \in Range(Products)
      BY <2>2 DEF Hits
    <2>5. \A i \in DOMAIN found : product(found[i].id) = found[i]
      BY <2>4, ProductsAre
    <2>6. Range(walk.seen) = {p.id : p \in Hits(query)}
      BY <2>2, <2>3 DEF Range
    <2>7. ASSUME NEW i \in DOMAIN found, NEW j \in DOMAIN found, i < j
          PROVE  /\ found[i].id # found[j].id
                 /\ query.search # None =>
                      Class(found[i], query.search) >= Class(found[j], query.search)
      <3>1. Before(found[i], found[j], query)
        BY <2>2, <2>7
      <3>2. found[i] # found[j]
        BY <2>4, <3>1, FeedOrder
      <3> QED BY <2>4, <3>1, <3>2, ProductsAre, RankTells
    <2> HIDE DEF product
    <2> QED BY <2>1, <2>3, <2>5, <2>6, <2>7
  <1> QED BY <1>1, Inductive, PTL

\* No run and no call over MCP buys twice, and the answers over MCP tell what
\* was bought.
THEOREM BoughtOnce == Spec => []OneOrderEach
  <1>1. IInv => OneOrderEach
    BY DEF IInv
  <1> QED BY <1>1, Inductive, PTL
=============================================================================
