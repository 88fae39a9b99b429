------------------------------- MODULE Store -------------------------------
(***************************************************************************)
(* The key-value store of aiter-core/src/store.rs.  A store is a function  *)
(* whose domain is the set of keys present.                                *)
(***************************************************************************)

EmptyStore == [k \in {} |-> {}]

\* Get(k) is Some exactly for the keys of the domain.
Has(store, k) == k \in DOMAIN store

\* The store once k holds v: a `create` of an absent key, an `update` of a
\* present one.
Put(store, k, v) ==
  [x \in DOMAIN store \cup {k} |-> IF x = k THEN v ELSE store[x]]

\* create fails with AlreadyExists, update with NotFound.
CanCreate(store, k) == ~Has(store, k)
CanUpdate(store, k) == Has(store, k)

\* The table of requests being served forgets request k.
Without(store, k) == [x \in DOMAIN store \ {k} |-> store[x]]
=============================================================================
