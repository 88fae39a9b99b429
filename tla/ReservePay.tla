----------------------------- MODULE ReservePay -----------------------------
(***************************************************************************)
(* The consent ledger of UPI Reserve Pay (aiter-core/src/reserve.rs and    *)
(* aiter-server/src/reserve.rs): a user consents once to a limit, and an   *)
(* agent draws on it.                                                      *)
(*                                                                         *)
(* Both handlers read and write the ledger in one go, with the consents    *)
(* lock held and no await in between, so each is one action.  They compute *)
(* with raw i64 units, not with the checked operations of Amount.          *)
(***************************************************************************)
EXTENDS Money, Store

CONSTANTS
  ConsentIds,   \* ids gen_id("cons") may hand out
  Devices,      \* where a consent is given and a debit comes from
  Minors        \* the i64 amounts of minor units callers may name

ASSUME MinorsAssumption == Minors \subseteq Units

VARIABLES
  consents,       \* store: consent id -> consent
  reserve_debits, \* the counter of successful debits
  drawn           \* history: what was debited on each consent, as an integer

ledger == <<consents, reserve_debits, drawn>>

ConsentStatus == {"Active", "Revoked"}
Consent ==
  [limit : Amount, spent : Amount, device : Devices, status : ConsentStatus]

\* Mutant: an amount may be zero or negative.
AnyMinor(units) == TRUE

\* validate_positive_minor
Positive(units) == units > 0

\* Consent::new
NewConsent(limit, device) ==
  [limit |-> limit, spent |-> Zero(limit.currency), device |-> device,
   status |-> "Active"]

\* Mutant: what was spent is not subtracted.
WholeLimit(consent) == consent.limit.units

\* Consent::remaining
Remaining(consent) == WrapSub(consent.limit.units, consent.spent.units)

LedgerInit ==
  /\ consents = EmptyStore
  /\ reserve_debits = 0
  /\ drawn = [c \in ConsentIds |-> 0]

\* create_consent; the id is new.
CreateConsent(c, units, currency, device) ==
  /\ Positive(units)
  /\ CanCreate(consents, c)
  /\ consents' =
       Put(consents, c, NewConsent([currency |-> currency, units |-> units], device))
  /\ UNCHANGED <<reserve_debits, drawn>>

\* The guards of debit, all before any change.
MayDebit(c, units, currency, device, confirm) ==
  /\ Positive(units)
  /\ Has(consents, c)
  /\ consents[c].status = "Active"
  /\ consents[c].limit.currency = currency
  /\ units <= Remaining(consents[c])
  /\ device = consents[c].device \/ confirm

\* Mutant: the debit is recorded in place of the earlier ones.
LastDebit(consent, units) == units

SpentWith(consent, units) == WrapAdd(consent.spent.units, units)

\* debit
Debit(c, units, currency, device, confirm) ==
  /\ MayDebit(c, units, currency, device, confirm)
  /\ consents' = [consents EXCEPT ![c].spent.units = SpentWith(consents[c], units)]
  /\ reserve_debits' = reserve_debits + 1
  /\ drawn' = [drawn EXCEPT ![c] = @ + units]

\* A debit that is not allowed is answered with an error.
RefuseDebit(c, units, currency, device, confirm) ==
  /\ ~MayDebit(c, units, currency, device, confirm)
  /\ UNCHANGED ledger

LedgerNext ==
  \E c \in ConsentIds, units \in Minors, currency \in Currencies, device \in Devices :
    \/ CreateConsent(c, units, currency, device)
    \/ \E confirm \in BOOLEAN :
         \/ Debit(c, units, currency, device, confirm)
         \/ RefuseDebit(c, units, currency, device, confirm)

LedgerSpec == LedgerInit /\ [][LedgerNext]_ledger
-----------------------------------------------------------------------------
(* Properties                                                              *)

\* Every variable stays in its type.
LedgerTypeOK ==
  /\ DOMAIN consents \subseteq ConsentIds
  /\ \A c \in DOMAIN consents : consents[c] \in Consent
  /\ reserve_debits \in Nat
  /\ drawn \in [ConsentIds -> Int]

\* All debits of a consent taken together, counted in unbounded integers, stay
\* within its limit, and the ledger knows their exact sum: the raw i64
\* arithmetic behind the guards never wraps, up to the largest limit.
DrawnWithinLimit ==
  \A c \in DOMAIN consents :
    /\ consents[c].spent.units = drawn[c]
    /\ 0 <= drawn[c] /\ drawn[c] <= consents[c].limit.units

\* No call gives an agent more to draw than it had (the comment of
\* validate_positive_minor: a negative debit would "mint spend headroom").
HeadroomNeverGrows ==
  [][\A c \in DOMAIN consents :
       Has(consents', c) /\ Remaining(consents'[c]) <= Remaining(consents[c])]_ledger
-----------------------------------------------------------------------------
\* The inductive invariant: a consent nobody has yet was not drawn on, and a
\* limit is positive.
LedgerInv ==
  /\ LedgerTypeOK
  /\ DrawnWithinLimit
  /\ \A c \in ConsentIds \ DOMAIN consents : drawn[c] = 0
  /\ \A c \in DOMAIN consents : consents[c].limit.units > 0
=============================================================================
