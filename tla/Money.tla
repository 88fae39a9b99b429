------------------------------- MODULE Money -------------------------------
(***************************************************************************)
(* Money arithmetic of aiter-core/src/amount.rs: an amount is a whole      *)
(* number of minor units in one currency.  `Amount::add` and               *)
(* `mul_by_quantity` are checked: they return an error instead of leaving  *)
(* the range of an i64.  `AppState::charge_agent` and the consent ledger   *)
(* compute with the raw i64 units, which wrap around in a release build.   *)
(***************************************************************************)
EXTENDS Integers

CONSTANTS
  Currencies,   \* the currency codes in use
  MaxUnits      \* i64::MAX; a small bound stands for it

ASSUME MaxUnitsAssumption == MaxUnits \in Nat

MinUnits == -MaxUnits - 1
Units    == MinUnits..MaxUnits
Amount   == [currency : Currencies, units : Units]

Zero(c) == [currency |-> c, units |-> 0]

\* Result<Amount, AmountError>
Ok(a)       == [ok |-> TRUE, amount |-> a]
Err(a, why) == [ok |-> FALSE, amount |-> a, error |-> why]

\* n if it is an i64, the Overflow error otherwise.
Checked(c, n) ==
  IF n \in Units THEN Ok([currency |-> c, units |-> n])
                 ELSE Err(Zero(c), "Overflow")

Add(a, b) ==
  IF a.currency # b.currency THEN Err(a, "CrossCurrencyMismatch")
                             ELSE Checked(a.currency, a.units + b.units)

MulByQuantity(a, q) == Checked(a.currency, a.units * q)

\* Two's complement: the value of an i64 expression in a release build.
Wrap(n) ==
  LET modulus == 2 * (MaxUnits + 1)
  IN  ((n - MinUnits) % modulus) + MinUnits

\* The i64 expressions m + n and m - n.
WrapAdd(m, n) == Wrap(m + n)
WrapSub(m, n) == Wrap(m - n)
=============================================================================
