---------------------------- MODULE CheckoutSpec ----------------------------
(***************************************************************************)
(* What the checkout promises its callers (doc comment of                  *)
(* complete_checkout; README, "Behavioral guarantees"): completing a       *)
(* session is one indivisible step that pays it, creates its only order,   *)
(* charges the agent that signed and receipts the charge.  An agent over   *)
(* its cap changes nothing.  There are no locks, no requests in flight     *)
(* and no width of integers here.                                          *)
(***************************************************************************)
EXTENDS Integers, Store

CONSTANTS
  Agents, DemoAgent, DemoCap, Caps,   \* the registry
  Totals,                             \* order totals
  SessionIds

VARIABLES
  status,    \* session id -> Pending, Paid or Cancelled
  total,     \* session id -> its total
  account,   \* agent id -> its cap and what it spent
  receipts   \* the charges receipted: agent, order, amount

avars == <<status, total, account, receipts>>

FreshAccount(cap) == [limit |-> cap, spent |-> 0]

SInit ==
  /\ status = EmptyStore
  /\ total = EmptyStore
  /\ account = [a \in {DemoAgent} |-> FreshAccount(DemoCap)]
  /\ receipts = {}

SRegister(a, cap) ==
  /\ account' = Put(account, a, FreshAccount(cap))
  /\ UNCHANGED <<status, total, receipts>>

SOpen(s, t) ==
  /\ ~Has(status, s)
  /\ status' = Put(status, s, "Pending")
  /\ total' = Put(total, s, t)
  /\ UNCHANGED <<account, receipts>>

SPay(s) ==
  /\ Has(status, s) /\ status[s] = "Pending"
  /\ status' = [status EXCEPT ![s] = "Paid"]
  /\ UNCHANGED total

\* A completion signed by agent a.
SPaySigned(s, a) ==
  /\ SPay(s)
  /\ Has(account, a)
  /\ account[a].limit.currency = total[s].currency
  /\ account[a].spent + total[s].units <= account[a].limit.units
  /\ account' = [account EXCEPT ![a].spent = @ + total[s].units]
  /\ receipts' = receipts \cup {[agent |-> a, order |-> s, amount |-> total[s]]}

\* A completion over MCP.
SPayUnsigned(s) == SPay(s) /\ UNCHANGED <<account, receipts>>

SCancel(s) ==
  /\ Has(status, s) /\ status[s] = "Pending"
  /\ status' = [status EXCEPT ![s] = "Cancelled"]
  /\ UNCHANGED <<total, account, receipts>>

SNext ==
  \/ \E a \in Agents, cap \in Caps : SRegister(a, cap)
  \/ \E s \in SessionIds, t \in Totals : SOpen(s, t)
  \/ \E s \in SessionIds, a \in Agents : SPaySigned(s, a)
  \/ \E s \in SessionIds : SPayUnsigned(s) \/ SCancel(s)

SSpec == SInit /\ [][SNext]_avars
=============================================================================
