-------------------------------- MODULE Cli --------------------------------
(***************************************************************************)
(* aiter-cli (aiter-server/src/cli.rs, bin/aiter-cli.rs) against a server, *)
(* and an agent that walks the pages of the catalog.                       *)
(*                                                                         *)
(* A run sends one request after the other and stops at the first that is  *)
(* not answered with success.  A connection may fail before the server has *)
(* handled a request or after, and the server may restart in between; the  *)
(* user starts another run whenever one has ended.                         *)
(***************************************************************************)
EXTENDS Shop

CONSTANTS
  Terminals,     \* where the user runs aiter-cli
  MaxRuns,       \* bound: runs that are started
  MaxRestarts,   \* bound: restarts of the server
  Waiting,       \* the answer to the last request has not come yet
  Failure,       \* any other answer than success
  Queries        \* what the agent may list

ASSUME QueriesAssumption == \A query \in Queries : query.limit \in Nat \cup {None}

VARIABLES
  runs,       \* terminal -> its run: the next request and what is known so far
  started,    \* how many runs were started
  restarts,   \* how often the server restarted
  walk        \* the agent's walk: its query, its place, what it has seen

Ended == {"idle", "done", "failed"}

\* The requests of run_flow in their order, and what it learns from each.
NextStage ==
  [catalog |-> "cart", cart |-> "session", session |-> "complete",
   complete |-> "link", link |-> "done"]
Learned ==
  [catalog |-> "product", cart |-> "cart", session |-> "session",
   complete |-> "order", link |-> "link"]

Idle == [stage |-> "idle"]

Fresh(wanted) ==
  [stage |-> "catalog", answer |-> Waiting, wanted |-> wanted, no |-> started + 1,
   since |-> restarts, product |-> None, cart |-> None, session |-> None, order |-> None,
   link |-> None]

Asks(t, stage) ==
  runs[t].stage = stage /\ runs[t].answer = Waiting

Answer(t, answer) == runs' = [runs EXCEPT ![t].answer = answer]
-----------------------------------------------------------------------------
(* The client                                                              *)

\* main and run_flow; arguments that do not parse end in the usage text.
Start(t, wanted) ==
  /\ runs[t].stage \in Ended
  /\ started < MaxRuns
  /\ started' = started + 1
  /\ runs' = [runs EXCEPT ![t] = Fresh(wanted)]
  /\ UNCHANGED <<restarts, walk, shop>>

Answered(t) == runs[t].stage \notin Ended /\ runs[t].answer # Waiting

\* Mutant: after a failed completion the run opens a session once more.
FailsOver(t) ==
  runs' = [runs EXCEPT ![t].stage = IF @ = "link" THEN "session" ELSE "failed",
                       ![t].answer = Waiting]

\* Mutant: a request that failed is sent again.
FailsNever(t) == runs' = [runs EXCEPT ![t].answer = Waiting]

Fails(t) == runs' = [runs EXCEPT ![t].stage = "failed"]

\* The product named, or the first one: EmptyCatalog, UnknownProduct, which
\* is what a product beyond the first page is as well.
Choice(run) ==
  IF run.wanted = None
  THEN {run.answer[1] : i \in 1..Min({1, Len(run.answer)})}
  ELSE {run.wanted} \cap Range(run.answer)

Refuses(run) == run.answer = Failure \/ (run.stage = "catalog" /\ Choice(run) = {})
Learns(run)  == IF run.stage = "catalog" THEN CHOOSE p \in Choice(run) : TRUE
                ELSE run.answer

Receive(t) ==
  /\ Answered(t)
  /\ LET run == runs[t]
     IN  IF Refuses(run) THEN Fails(t)
         ELSE runs' = [runs EXCEPT ![t] =
                [run EXCEPT ![Learned[run.stage]] = Learns(run),
                            !.stage = NextStage[run.stage], !.answer = Waiting]]
  /\ UNCHANGED <<started, restarts, walk, shop>>
-----------------------------------------------------------------------------
(* The server                                                              *)

ServeCatalog(t) ==
  /\ Asks(t, "catalog")
  /\ Answer(t, FirstPage.items)
  /\ UNCHANGED <<started, restarts, walk, shop>>

ServeCart(t) ==
  /\ Asks(t, "cart")
  /\ CreateCart(runs[t].product)
  /\ Answer(t, nextId)
  /\ UNCHANGED <<started, restarts, walk>>

ServeSession(t) ==
  /\ Asks(t, "session")
  /\ CreateSession(runs[t].cart)
  /\ Answer(t, nextId)
  /\ UNCHANGED <<started, restarts, walk>>

ServeComplete(t) ==
  /\ Asks(t, "complete")
  /\ Complete(runs[t].session, runs[t].no)
  /\ Answer(t, runs[t].session)
  /\ UNCHANGED <<started, restarts, walk>>

ServeLink(t) ==
  /\ Asks(t, "link")
  /\ Has(orders, runs[t].order)
  /\ Answer(t, runs[t].order)
  /\ UNCHANGED <<started, restarts, walk, shop>>

\* 400, 404 and 403: the request cannot be granted, and nothing changes.
Refusal(run) ==
  \/ run.stage = "cart" /\ ~MayCreateCart(run.product)
  \/ run.stage = "session" /\ ~Has(carts, run.cart)
  \/ run.stage = "complete" /\ ~MayComplete(run.session)
  \/ run.stage = "link" /\ ~Has(orders, run.order)

ServeError(t) ==
  /\ runs[t].stage \notin Ended /\ runs[t].answer = Waiting
  /\ Refusal(runs[t])
  /\ Answer(t, Failure)
  /\ UNCHANGED <<started, restarts, walk, shop>>

Serve(t) ==
  \/ ServeCatalog(t) \/ ServeCart(t) \/ ServeSession(t) \/ ServeComplete(t)
  \/ ServeLink(t) \/ ServeError(t)

\* Any other error (429, 401, 503 for a server without Razorpay keys), or the
\* connection fails: nothing says whether the request was handled.
Fail(t) ==
  /\ runs[t].stage \notin Ended
  /\ Answer(t, Failure)
  /\ UNCHANGED <<started, restarts, walk, shop>>

\* The process starts again; the open connections are gone.
Restart ==
  /\ restarts < MaxRestarts
  /\ restarts' = restarts + 1
  /\ FreshShop
  /\ runs' = [t \in Terminals |-> IF runs[t].stage \in Ended THEN runs[t]
                                  ELSE [runs[t] EXCEPT !.answer =
                                          IF @ = Waiting THEN Failure ELSE @]]
  /\ UNCHANGED <<started, walk>>
-----------------------------------------------------------------------------
(* The walk, with offset = what was seen, as long as has_more says so.     *)

WalkInit == walk \in [query : Queries, seen : {<<>>}, more : {TRUE}]

WalkOn ==
  /\ walk.more
  /\ LET page == ListProducts(walk.query, Len(walk.seen))
     IN  walk' = [walk EXCEPT !.seen = @ \o page.items, !.more = page.has_more]
  /\ UNCHANGED <<runs, started, restarts, shop>>
=============================================================================
