-------------------------------- MODULE Fsm --------------------------------
(***************************************************************************)
(* The two status machines of aiter-core: checkout sessions (checkout.rs)  *)
(* and orders (order.rs).  In both an event whose target is the present    *)
(* status is an idempotent retry: legal, and without effect.               *)
(***************************************************************************)

CheckoutStatus == {"Pending", "Ready", "Paid", "Cancelled", "Failed"}
CheckoutEvent  == {"MarkReady", "MarkPaid", "MarkCancelled", "MarkFailed"}

CheckoutTerminal == {"Paid", "Cancelled", "Failed"}

CheckoutTarget ==
  [MarkReady     |-> "Ready",
   MarkPaid      |-> "Paid",
   MarkCancelled |-> "Cancelled",
   MarkFailed    |-> "Failed"]

\* Mutant: a paid session may still be cancelled.
RefundableEdges ==
  {"Pending"} \X {"MarkReady", "MarkCancelled", "MarkFailed"}
    \cup {"Ready"} \X {"MarkPaid", "MarkCancelled", "MarkFailed"}
    \cup {"Paid"} \X {"MarkCancelled"}

CheckoutEdges ==
  {"Pending"} \X {"MarkReady", "MarkCancelled", "MarkFailed"}
    \cup {"Ready"} \X {"MarkPaid", "MarkCancelled", "MarkFailed"}

CanCheckout(from, event) ==
  from = CheckoutTarget[event] \/ <<from, event>> \in CheckoutEdges

OrderStatus == {"Placed", "Confirmed", "Shipped", "Delivered", "Cancelled"}
OrderEvent  == {"Confirm", "Ship", "Deliver", "Cancel"}

OrderTarget ==
  [Confirm |-> "Confirmed",
   Ship    |-> "Shipped",
   Deliver |-> "Delivered",
   Cancel  |-> "Cancelled"]

\* Mutant: a placed order has to be shipped before anything else.
ShipFirst ==
  {<<"Placed", "Ship">>, <<"Placed", "Cancel">>,
   <<"Confirmed", "Ship">>, <<"Confirmed", "Cancel">>,
   <<"Shipped", "Deliver">>}

OrderEdges ==
  {<<"Placed", "Confirm">>, <<"Placed", "Cancel">>,
   <<"Confirmed", "Ship">>, <<"Confirmed", "Cancel">>,
   <<"Shipped", "Deliver">>}

CanOrder(from, event) ==
  from = OrderTarget[event] \/ <<from, event>> \in OrderEdges
=============================================================================
