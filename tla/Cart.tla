-------------------------------- MODULE Cart --------------------------------
(***************************************************************************)
(* The cart of aiter-core/src/cart.rs and its price (pricing.rs).  The     *)
(* code keeps a vector of lines and scans it; CartSpec is the map from     *)
(* products to quantities it stands for.                                   *)
(***************************************************************************)
EXTENDS Money, Sequences, Functions

CONSTANTS
  ProductIds,    \* product ids a caller may name
  Price,         \* the catalog: unit price of the products it serves
  CartCurrency,  \* the currency of this cart
  MaxQuantity    \* u32::MAX; a small bound stands for it

ASSUME QuantityAssumption == MaxQuantity \in Nat \ {0}
ASSUME PriceAssumption ==
  /\ DOMAIN Price \subseteq ProductIds
  /\ \A p \in DOMAIN Price : Price[p] \in Amount /\ Price[p].units >= 0
ASSUME CurrencyAssumption == CartCurrency \in Currencies

VARIABLE items

Quantities == 0..MaxQuantity
LineItem   == [product_id : ProductIds, quantity : Quantities]

Line(p, q) == [product_id |-> p, quantity |-> q]

\* items.iter().find(...): the positions of the lines for p, and the first.
LinesOf(p) == {i \in DOMAIN items : items[i].product_id = p}
Find(p)    == CHOOSE i \in LinesOf(p) : \A j \in LinesOf(p) : i <= j

\* retain(|li| li.product_id != p): line by line, the others stay.
Retain(p) ==
  LET kept[n \in 0..Len(items)] ==
        IF n = 0 THEN <<>>
        ELSE IF items[n].product_id = p THEN kept[n - 1]
        ELSE Append(kept[n - 1], items[n])
  IN  kept[Len(items)]

QuantityOf(p) == IF LinesOf(p) = {} THEN 0 ELSE items[Find(p)].quantity
-----------------------------------------------------------------------------
New == items = <<>>

\* Mutant: adding a product that is there opens a second line.
AddLine(p, q) == q # 0 /\ items' = Append(items, Line(p, q))

\* Cart::add; quantity 0 and a sum beyond u32 are refused without effect.
AddItem(p, q) ==
  /\ q # 0
  /\ \/ /\ LinesOf(p) # {}
        /\ items[Find(p)].quantity + q <= MaxQuantity
        /\ items' = [items EXCEPT ![Find(p)].quantity = @ + q]
     \/ /\ LinesOf(p) = {}
        /\ items' = Append(items, Line(p, q))

\* Mutant: quantity 0 is kept as a line.
UpdateToZero(p, q) ==
  \/ /\ LinesOf(p) # {}
     /\ items' = [items EXCEPT ![Find(p)].quantity = q]
  \/ /\ LinesOf(p) = {}
     /\ items' = Append(items, Line(p, q))

\* Cart::update; quantity 0 removes the line.
UpdateItem(p, q) ==
  \/ /\ q = 0
     /\ items' = Retain(p)
  \/ /\ q # 0 /\ LinesOf(p) # {}
     /\ items' = [items EXCEPT ![Find(p)].quantity = q]
  \/ /\ q # 0 /\ LinesOf(p) = {}
     /\ items' = Append(items, Line(p, q))

\* Cart::remove
RemoveItem(p) == items' = Retain(p)

Call ==
  \E p \in ProductIds :
    \/ \E q \in Quantities : AddItem(p, q) \/ UpdateItem(p, q)
    \/ RemoveItem(p)

Calls == New /\ [][Call]_items
-----------------------------------------------------------------------------
(* Pricing                                                                 *)

\* Mutant: every line is priced as a single piece.
PieceTotal(q, price) == MulByQuantity(price, 1)

LineTotal(q, price) == MulByQuantity(price, q)

\* One step of cart_subtotal, which stops at the first error.
PlusLine(total, li) ==
  IF ~total.ok THEN total
  ELSE IF li.product_id \notin DOMAIN Price
       THEN Err(Zero(CartCurrency), "MissingPrice")
  ELSE LET line == LineTotal(li.quantity, Price[li.product_id])
       IN  IF line.ok THEN Add(total.amount, line.amount) ELSE line

\* cart_subtotal adds the lines up in the order of the vector.
CartSubtotal ==
  LET subtotal[n \in 0..Len(items)] ==
        IF n = 0 THEN Ok(Zero(CartCurrency))
                 ELSE PlusLine(subtotal[n - 1], items[n])
  IN  subtotal[Len(items)]

\* compute_totals with the NoTax hook: the total is the subtotal.
ComputeTotals ==
  LET subtotal == CartSubtotal
  IN  IF subtotal.ok THEN Add(subtotal.amount, Zero(subtotal.amount.currency))
                     ELSE subtotal
-----------------------------------------------------------------------------
(* Properties                                                              *)

\* A product has one line at most, no line is empty and no quantity leaves the
\* range of a u32, whatever the calls.
WellFormed ==
  /\ items \in Seq(LineItem)
  /\ \A i, j \in DOMAIN items : items[i].product_id = items[j].product_id => i = j
  /\ \A i \in DOMAIN items : items[i].quantity > 0

Quantity == [p \in ProductIds |-> QuantityOf(p)]

InCart == {p \in ProductIds : QuantityOf(p) > 0}

\* What the cart costs, in unbounded integers and in no particular order.
ExactTotal == SumFunction([p \in InCart |-> Price[p].units * QuantityOf(p)])

\* A cart is priced exactly when every product in it is served in the cart's
\* currency and the sum is an i64; the total is then the exact sum.  No order
\* of the lines makes an intermediate sum fail where the total would not.
TotalIsExact ==
  LET priced == /\ InCart \subseteq DOMAIN Price
                /\ \A p \in InCart : Price[p].currency = CartCurrency
                /\ ExactTotal \in Units
      totals == ComputeTotals
  IN  /\ totals.ok <=> priced
      /\ totals.ok => totals.amount = [currency |-> CartCurrency, units |-> ExactTotal]

Map == INSTANCE CartSpec WITH quantity <- Quantity

\* The vector of lines behaves like the map of quantities: each operation
\* does to the map what it promises, and nothing else.
BehavesAsMap ==
  /\ Map!QInit
  /\ [][\A p \in ProductIds :
          /\ \A q \in Quantities : AddItem(p, q)    => Map!QAdd(p, q)
          /\ \A q \in Quantities : UpdateItem(p, q) => Map!QSet(p, q)
          /\ RemoveItem(p) => Map!QSet(p, 0)]_items
=============================================================================
