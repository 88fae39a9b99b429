------------------------------ MODULE Clients ------------------------------
(***************************************************************************)
(* The clients of a server: aiter-cli and agents over HTTP, or one agent   *)
(* over MCP, whose server is a process of its own.                         *)
(***************************************************************************)
EXTENDS Cli, Mcp

VARIABLE client   \* "cli", "walk" or "mcp"

vars == <<client, shop, runs, started, restarts, walk, mcp>>

Init ==
  /\ client \in {"cli", "walk", "mcp"}
  /\ ShopInit
  /\ runs = [t \in Terminals |-> Idle]
  /\ started = 0 /\ restarts = 0
  /\ IF client = "walk" THEN WalkInit ELSE walk = [query |-> AnyQuery, seen |-> <<>>, more |-> FALSE]
  /\ McpInit

CliStep(t) == client = "cli" /\ (Serve(t) \/ Receive(t)) /\ UNCHANGED <<client, mcp>>

UserStep ==
  /\ client = "cli"
  /\ \/ \E t \in Terminals : Fail(t) \/ \E w \in Asked \cup {None} : Start(t, w)
     \/ Restart
  /\ UNCHANGED <<client, mcp>>

WalkStep == client = "walk" /\ WalkOn /\ UNCHANGED <<client, mcp>>

McpStep  == client = "mcp" /\ HandleLine /\ UNCHANGED <<client, runs, started, restarts, walk>>
SendStep == client = "mcp" /\ Send /\ UNCHANGED <<client, runs, started, restarts, walk>>

Next == (\E t \in Terminals : CliStep(t)) \/ UserStep \/ WalkStep \/ McpStep \/ SendStep

\* The server and a client that waits go on; nobody has to start a run, to
\* send a message or to restart anything.
Fairness ==
  /\ \A t \in Terminals : WF_vars(CliStep(t))
  /\ WF_vars(WalkStep) /\ WF_vars(McpStep)

Spec == Init /\ [][Next]_vars /\ Fairness
-----------------------------------------------------------------------------
(* Properties                                                              *)

\* cli.rs, FlowResult: "Product the cart was built around", "Cart id",
\* "Session id", "Order id".  What a run reports belongs together, whatever
\* other runs do meanwhile and even when one of them, begun before a restart,
\* goes on with ids that mean other things now and completes a session that
\* is not its own.  The run itself must have begun after the restart.
ReportsAreTrue ==
  \A t \in Terminals :
    LET run == runs[t]
    IN  run.stage = "done" /\ run.since = restarts =>
          /\ run.wanted \in {None, run.product}
          /\ carts[run.cart] = run.product
          /\ sessions[run.session] = [cart |-> run.cart, product |-> run.product]
          /\ run.order = run.session /\ Has(orders, run.order)
          /\ orders[run.order].product = run.product

\* No failure makes a run or a tool call buy twice, and over MCP an agent can
\* tell from its answers what it has bought: complete_checkout opens a session
\* and completes it, and an error leaves no order behind.
OneOrderEach ==
  /\ \A s, t \in DOMAIN orders : orders[s].by = orders[t].by => s = t
  /\ client = "mcp" =>
       {orders[s].by : s \in DOMAIN orders} =
         {answers[i].id : i \in {j \in DOMAIN answers :
            answers[j].tool = "complete_checkout" /\ answers[j].result # ErrorAnswer}}

\* How well a keyword matches: title above tag above description.
Class(p, q) ==
  Cardinality({c \in 1..3 : \/ c = 1
                            \/ c = 2 /\ q \in p.tagged \cup DOMAIN p.title
                            \/ c = 3 /\ q \in DOMAIN p.title})

\* catalog.rs: the envelope lets a client "walk every page and know when to
\* stop", and search "ranks title matches above tag-only above
\* description-only, then stable id order".  An agent that goes on by what it
\* has been shown ends up with every product its query finds, each once and
\* the better match first.
WalkFindsAll ==
  LET product(id) == CHOOSE p \in Range(Products) : p.id = id
  IN  client = "walk" /\ ~walk.more =>
        /\ Range(walk.seen) = {p.id : p \in {q \in Range(Products) : Matches(q, walk.query)}}
        /\ \A i, j \in DOMAIN walk.seen : i < j =>
             /\ walk.seen[i] # walk.seen[j]
             /\ walk.query.search # None =>
                  Class(product(walk.seen[i]), walk.query.search) >=
                    Class(product(walk.seen[j]), walk.query.search)

\* A run ends, a walk that asks for a product at least ends, and each call is
\* answered unless stdin ended in an error before it.
Ends ==
  /\ \A t \in Terminals : (runs[t].stage \notin Ended) ~> (runs[t].stage \in Ended)
  /\ (walk.query.limit # 0) ~> ~walk.more
  /\ \A n \in 1..MaxMessages :
       (Len(sent) >= n /\ sent[n].kind = "call" /\ sent[n].id = n)
         ~> (~serving \/ \E i \in DOMAIN answers : answers[i].id = n)
-----------------------------------------------------------------------------
(* The inductive invariant                                                 *)

\* Every id below the counter was handed out, to a cart or a session, and an
\* order is over the product of its session.
ShopConsistent ==
  /\ nextId \in Nat
  /\ \A id \in DOMAIN carts \cup DOMAIN sessions : id \in 0..nextId - 1
  /\ \A s \in DOMAIN orders :
       Has(sessions, s) /\ orders[s].product = sessions[s].product

RunFields == {"stage", "answer", "wanted", "no", "since",
              "product", "cart", "session", "order", "link"}

Begun(t) == runs[t].stage # "idle"

\* Runs are numbered in the order of their start.
RunsNumbered ==
  /\ started \in Nat /\ restarts \in Nat
  /\ DOMAIN runs = Terminals
  /\ \A t \in Terminals : Begun(t) =>
       /\ DOMAIN runs[t] = RunFields
       /\ runs[t].stage \in DOMAIN NextStage \cup Ended
       /\ runs[t].no \in 1..started /\ runs[t].since \in 0..restarts
  /\ \A t, u \in Terminals :
       Begun(t) /\ Begun(u) /\ runs[t].no = runs[u].no => t = u

\* What a run has learned is so, and so is what it is being told.
Informed(run) ==
  /\ run.stage \in {"cart", "session", "complete", "link", "done"} =>
       run.wanted \in {None, run.product}
  /\ run.stage \in {"session", "complete", "link", "done"} =>
       Has(carts, run.cart) /\ carts[run.cart] = run.product
  /\ run.stage \in {"complete", "link", "done"} =>
       /\ Has(sessions, run.session)
       /\ sessions[run.session] = [cart |-> run.cart, product |-> run.product]
  /\ run.stage \in {"link", "done"} =>
       run.order = run.session /\ Has(orders, run.order)
  /\ run.answer \notin {Waiting, Failure} =>
       /\ run.stage = "cart" => Has(carts, run.answer) /\ carts[run.answer] = run.product
       /\ run.stage = "session" =>
            /\ Has(sessions, run.answer)
            /\ sessions[run.answer] = [cart |-> run.cart, product |-> run.product]
       /\ run.stage = "complete" => run.answer = run.session /\ Has(orders, run.session)

\* The ids of a run mean what they meant to it until the server restarts.
RunsInformed ==
  \A t \in Terminals : Begun(t) /\ runs[t].since = restarts => Informed(runs[t])

\* An order was placed by a run at its fourth request, which does not get past
\* it to place another.
OrdersOfRuns ==
  \A s \in DOMAIN orders :
    /\ orders[s].by \in 1..started
    /\ \A t \in Terminals : Begun(t) /\ runs[t].no = orders[s].by =>
         /\ runs[t].stage \in {"complete", "link", "done", "failed"}
         /\ runs[t].stage = "complete" => runs[t].session = s

Handled == Len(sent) - Len(stdin)

\* The lines on stdin are the last that were sent; orders are for earlier ones.
OrdersOfLines ==
  /\ stdin \in Seq(LineType) /\ sent \in Seq(LineType)
  /\ Len(stdin) <= Len(sent)
  /\ \A i \in DOMAIN stdin : stdin[i].id \in {None, Handled + i}
  /\ \A s \in DOMAIN orders : orders[s].by \in 1..Handled

\* The walker has seen the beginning of what its query finds, and all of it
\* when it stops.
SeenInOrder ==
  LET found == Found(walk.query)
  IN  /\ walk \in [query : Queries, seen : Seq(Nat), more : BOOLEAN]
      /\ \E n \in 0..Len(found) :
           /\ walk.seen = [i \in 1..n |-> found[i].id]
           /\ ~walk.more => n = Len(found)

IInv ==
  /\ ShopConsistent
  /\ RunsNumbered
  /\ RunsInformed
  /\ client = "cli"  => OrdersOfRuns
  /\ client = "walk" => DOMAIN orders = {} /\ SeenInOrder
  /\ client = "mcp"  => OrdersOfLines
  /\ OneOrderEach
=============================================================================
