-------------------------------- MODULE Shop --------------------------------
(***************************************************************************)
(* The state of one server process as its clients see it: a request to     *)
(* AppState, over HTTP or as an MCP tool, is one step here.  Modules Carts *)
(* and Checkout take the same handlers apart and show what concurrent      *)
(* requests do to each other.                                              *)
(*                                                                         *)
(* All of it lives in memory: a process that starts again knows no cart,   *)
(* session or order, and hands out the same ids once more.                 *)
(***************************************************************************)
EXTENDS Catalog, Store

CONSTANTS
  Price,    \* product id -> price in USD, or None if it is in another currency
  Asked,    \* products a client may name
  Cap       \* DEMO_AGENT_CAP

VARIABLES
  nextId,     \* the counter behind gen_id
  carts,      \* cart id -> its product
  sessions,   \* session id -> the cart it was opened for, and its product
  orders,     \* session id -> the order: its product, and for whom (history)
  spent       \* what the demo agent has spent of its cap

shop == <<nextId, carts, sessions, orders, spent>>

FreshShop ==
  /\ nextId' = 0
  /\ carts' = EmptyStore /\ sessions' = EmptyStore /\ orders' = EmptyStore
  /\ spent' = 0

ShopInit ==
  /\ nextId = 0
  /\ carts = EmptyStore /\ sessions = EmptyStore /\ orders = EmptyStore
  /\ spent = 0

\* create_cart validates the one line it is given.
MayCreateCart(p) == p \in Served /\ Price[p] # None

CreateCart(p) ==
  /\ MayCreateCart(p)
  /\ nextId' = nextId + 1
  /\ carts' = Put(carts, nextId, p)
  /\ UNCHANGED <<sessions, orders, spent>>

\* Mutant: a session is opened for the newest cart.
SessionOfNewest(cart) == [cart |-> cart, product |-> carts[Max(DOMAIN carts)]]

SessionOf(cart) == [cart |-> cart, product |-> carts[cart]]

CreateSession(cart) ==
  /\ Has(carts, cart)
  /\ nextId' = nextId + 1
  /\ sessions' = Put(sessions, nextId, SessionOf(cart))
  /\ UNCHANGED <<carts, orders, spent>>

\* complete_checkout for the agent of aiter-cli; a repeat answers with the
\* order there is.
MayComplete(s) ==
  /\ Has(sessions, s)
  /\ Has(orders, s) \/ spent + Price[sessions[s].product] <= Cap

Complete(s, by) ==
  /\ MayComplete(s)
  /\ IF Has(orders, s) THEN UNCHANGED <<orders, spent>>
     ELSE /\ orders' = Put(orders, s, [product |-> sessions[s].product, by |-> by])
          /\ spent' = spent + Price[sessions[s].product]
  /\ UNCHANGED <<nextId, carts, sessions>>

\* The MCP tool: a session of its own, completed without an agent.
CheckOut(cart, by) ==
  /\ Has(carts, cart)
  /\ nextId' = nextId + 1
  /\ sessions' = Put(sessions, nextId, SessionOf(cart))
  /\ orders' = Put(orders, nextId, [product |-> carts[cart], by |-> by])
  /\ UNCHANGED <<carts, spent>>
=============================================================================
