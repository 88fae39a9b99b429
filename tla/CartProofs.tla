----------------------------- MODULE CartProofs -----------------------------
(***************************************************************************)
(* A cart is well formed, behaves like the map of its quantities, and is   *)
(* priced at the exact sum.  The lemmas about sums over finite sets serve  *)
(* the checkout as well.                                                   *)
(***************************************************************************)
EXTENDS Cart, FiniteSetTheorems, NaturalsInduction, WellFoundedInduction, TLAPS
-----------------------------------------------------------------------------
(* Least elements                                                          *)

\* Of some naturals one is the least: what fails for some natural fails for a
\* first one.
LEMMA LeastNatural ==
  ASSUME NEW T \in SUBSET Nat, T # {}
  PROVE  \E m \in T : \A n \in T : m <= n
  <1>1. PICK m \in T : \A n \in T : ~(<<n, m>> \in OpToRel(<, Nat))
    BY NatLessThanWellFounded, WFMin
  <1>2. \A n \in T : ~(n < m)
    BY <1>1 DEF OpToRel
  <1> QED BY <1>2

\* Of the subsets of a finite set in a collection, one has none of the others
\* inside: what is false of some subset is false of a smallest one.
LEMMA SmallestSubset ==
  ASSUME NEW S, IsFiniteSet(S), NEW B \in SUBSET (SUBSET S), B # {}
  PROVE  \E T \in B : \A U \in B : U \subseteq T => U = T
  <1> DEFINE sizes == {Cardinality(T) : T \in B}
  <1>1. \A T \in B : IsFiniteSet(T) /\ Cardinality(T) \in Nat
    BY FS_Subset, FS_CardinalityType
  <1>2. sizes \in SUBSET Nat /\ sizes # {}
    BY <1>1
  <1>3. PICK least \in sizes : \A n \in sizes : least <= n
    <2> HIDE DEF sizes
    <2> QED BY <1>2, LeastNatural
  <1>4. PICK T \in B : least = Cardinality(T)
    OBVIOUS
  <1>5. ASSUME NEW U \in B, U \subseteq T PROVE U = T
    <2>1. Cardinality(U) \in sizes
      OBVIOUS
    <2>2. Cardinality(T) <= Cardinality(U)
      BY <2>1, <1>3, <1>4
    <2>3. Cardinality(U) <= Cardinality(T)
      BY <1>1, <1>5, FS_Subset
    <2>4. Cardinality(U) = Cardinality(T)
      BY <2>2, <2>3, <1>1
    <2> QED BY <2>4, <1>1, <1>5, FS_Subset
  <1> QED BY <1>5

\* sum adds f up over each subset of S, one chosen element after the other.
Adds(sum, f, S) ==
  sum = [T \in SUBSET S |->
           IF T = {} THEN 0
           ELSE LET x == CHOOSE y \in T : TRUE IN f[x] + sum[T \ {x}]]

\* Two such sums agree where both are defined.
LEMMA AddsAgree ==
  ASSUME NEW f, NEW S, NEW T, NEW g, NEW h, Adds(g, f, S), Adds(h, f, T),
         IsFiniteSet(T), T \subseteq S
  PROVE  g[T] = h[T]
  <1> DEFINE B == {U \in SUBSET T : g[U] # h[U]}
  <1>1. SUFFICES ASSUME B # {} PROVE FALSE
    OBVIOUS
  <1>2. PICK U \in B : \A V \in B : V \subseteq U => V = U
    <2>1. B \in SUBSET (SUBSET T)
      OBVIOUS
    <2> HIDE DEF B
    <2> QED BY <1>1, <2>1, SmallestSubset
  <1>3. CASE U = {}
    BY <1>3, <1>2 DEF Adds
  <1>4. CASE U # {}
    <2> DEFINE x == CHOOSE y \in U : TRUE
    <2>1. x \in U
      BY <1>4
    <2> HIDE DEF x
    <2>2. g[U \ {x}] = h[U \ {x}]
      BY <2>1, <1>2
    <2>3. g[U] = f[x] + g[U \ {x}] /\ h[U] = f[x] + h[U \ {x}]
      BY <1>4 DEF Adds, x
    <2> QED BY <2>2, <2>3
  <1> QED BY <1>3, <1>4

\* Every finite set has such a sum.
LEMMA AddsExists ==
  ASSUME NEW f, NEW S, IsFiniteSet(S)
  PROVE  \E sum : Adds(sum, f, S)
  <1> DEFINE B == {T \in SUBSET S : ~\E sum : Adds(sum, f, T)}
  <1>1. SUFFICES ASSUME B # {} PROVE FALSE
    OBVIOUS
  <1>2. PICK T \in B : \A U \in B : U \subseteq T => U = T
    <2>1. B \in SUBSET (SUBSET S)
      OBVIOUS
    <2> HIDE DEF B
    <2> QED BY <1>1, <2>1, SmallestSubset
  <1> DEFINE of(U) == CHOOSE sum : Adds(sum, f, U)
             below(U) == IF U = {} THEN 0
                         ELSE LET x == CHOOSE y \in U : TRUE
                              IN  f[x] + of(U \ {x})[U \ {x}]
             sum == [U \in SUBSET T |-> below(U)]
  <1>3. ASSUME NEW U \in SUBSET T, U # T PROVE Adds(of(U), f, U) /\ IsFiniteSet(U)
    <2>1. \E s : Adds(s, f, U)
      BY <1>2, <1>3
    <2>2. IsFiniteSet(U)
      BY FS_Subset
    <2> QED BY <2>1, <2>2
  <1>4. ASSUME NEW U \in SUBSET T, U # T PROVE of(U)[U] = below(U)
    <2>1. CASE U = {}
      <3>1. Adds(of(U), f, U)
        BY <1>3, <1>4
      <3>2. below(U) = 0
        BY <2>1
      <3> HIDE DEF of, below
      <3> QED BY <2>1, <3>1, <3>2 DEF Adds
    <2>2. CASE U # {}
      <3> DEFINE x == CHOOSE y \in U : TRUE
      <3>1. x \in U
        BY <2>2
      <3>2. of(U)[U] = f[x] + of(U)[U \ {x}]
        <4> HIDE DEF of
        <4> QED BY <2>2, <1>3, <1>4 DEF Adds
      <3>3. /\ Adds(of(U), f, U)
            /\ Adds(of(U \ {x}), f, U \ {x})
            /\ IsFiniteSet(U \ {x}) /\ U \ {x} \subseteq U
        <4> HIDE DEF x, of
        <4> QED BY <3>1, <1>3, <1>4
      <3>4. of(U)[U \ {x}] = of(U \ {x})[U \ {x}]
        <4> HIDE DEF x, of
        <4> QED BY <3>3, AddsAgree
      <3>5. below(U) = f[x] + of(U \ {x})[U \ {x}]
        BY <2>2
      <3> QED
        <4> HIDE DEF x, of, below
        <4> QED BY <3>2, <3>4, <3>5
    <2> QED BY <2>1, <2>2
  <1>5. ASSUME NEW U \in SUBSET T, U # {}
        PROVE  LET x == CHOOSE y \in U : TRUE
               IN  below(U) = f[x] + sum[U \ {x}]
    <2> DEFINE x == CHOOSE y \in U : TRUE
    <2>1. x \in U
      BY <1>5
    <2>2. U \ {x} \in SUBSET T /\ U \ {x} # T
      <3> HIDE DEF x
      <3> QED BY <2>1
    <2>3. of(U \ {x})[U \ {x}] = below(U \ {x})
      <3> HIDE DEF x, of, below
      <3> QED BY <2>2, <1>4
    <2>4. sum[U \ {x}] = below(U \ {x})
      <3> HIDE DEF x, of, below
      <3> QED BY <2>2
    <2>5. below(U) = f[x] + of(U \ {x})[U \ {x}]
      BY <1>5
    <2> HIDE DEF of, below, sum
    <2> QED BY <2>3, <2>4, <2>5
  <1>6. Adds(sum, f, T)
    <2>1. \A U \in SUBSET T :
            below(U) = IF U = {} THEN 0
                       ELSE LET x == CHOOSE y \in U : TRUE IN f[x] + sum[U \ {x}]
      <3> SUFFICES ASSUME NEW U \in SUBSET T
                   PROVE  below(U) = IF U = {} THEN 0
                            ELSE LET x == CHOOSE y \in U : TRUE IN f[x] + sum[U \ {x}]
        OBVIOUS
      <3>1. CASE U = {}
        BY <3>1
      <3>2. CASE U # {}
        <4> HIDE DEF below, sum
        <4> QED BY <3>2, <1>5
      <3> QED BY <3>1, <3>2
    <2>2. sum = [U \in SUBSET T |-> below(U)]
      OBVIOUS
    <2> HIDE DEF below, sum
    <2> QED BY <2>1, <2>2 DEF Adds
  <1> HIDE DEF sum
  <1> QED BY <1>2, <1>6

\* SumFunctionOnSet is such a sum.
LEMMA SumAdds ==
  ASSUME NEW f, NEW S, IsFiniteSet(S)
  PROVE  \E sum : Adds(sum, f, S) /\ SumFunctionOnSet(f, S) = sum[S]
  <1> DEFINE sum == CHOOSE g : Adds(g, f, S)
  <1>1. Adds(sum, f, S)
    BY AddsExists
  <1>2. SumFunctionOnSet(f, S) = sum[S]
    BY DEF SumFunctionOnSet, FoldFunctionOnSet, MapThenFoldSet, Adds
  <1> QED BY <1>1, <1>2

\* The sum over no element is zero; any other is taken apart at the element
\* that is chosen first.
LEMMA SumUnfold ==
  ASSUME NEW f, NEW S, IsFiniteSet(S)
  PROVE  /\ S = {} => SumFunctionOnSet(f, S) = 0
         /\ S # {} => \E x \in S :
              SumFunctionOnSet(f, S) = f[x] + SumFunctionOnSet(f, S \ {x})
  <1>1. PICK sum : Adds(sum, f, S) /\ SumFunctionOnSet(f, S) = sum[S]
    BY SumAdds
  <1>2. CASE S = {}
    BY <1>1, <1>2 DEF Adds
  <1>3. CASE S # {}
    <2> DEFINE x == CHOOSE y \in S : TRUE
    <2>1. x \in S
      BY <1>3
    <2>2. sum[S] = f[x] + sum[S \ {x}]
      BY <1>1, <1>3 DEF Adds
    <2> HIDE DEF x
    <2>3. IsFiniteSet(S \ {x}) /\ S \ {x} \subseteq S
      BY FS_Subset
    <2>4. PICK less : Adds(less, f, S \ {x}) /\ SumFunctionOnSet(f, S \ {x}) = less[S \ {x}]
      BY <2>3, SumAdds
    <2>5. sum[S \ {x}] = less[S \ {x}]
      BY <1>1, <2>3, <2>4, AddsAgree
    <2> QED BY <1>1, <1>3, <2>1, <2>2, <2>4, <2>5
  <1> QED BY <1>2, <1>3

\* A sum of integers is one, and of naturals a natural.
LEMMA SumType ==
  ASSUME NEW f, NEW S, IsFiniteSet(S), \A x \in S : f[x] \in Int
  PROVE  /\ SumFunctionOnSet(f, S) \in Int
         /\ (\A x \in S : f[x] >= 0) => SumFunctionOnSet(f, S) >= 0
  <1> DEFINE Fine(T) == /\ SumFunctionOnSet(f, T) \in Int
                        /\ (\A x \in S : f[x] >= 0) => SumFunctionOnSet(f, T) >= 0
             B == {T \in SUBSET S : ~Fine(T)}
  <1>1. SUFFICES ASSUME B # {} PROVE FALSE
    OBVIOUS
  <1>2. PICK T \in B : \A U \in B : U \subseteq T => U = T
    <2>1. B \in SUBSET (SUBSET S)
      OBVIOUS
    <2> HIDE DEF B
    <2> QED BY <1>1, <2>1, SmallestSubset
  <1>3. IsFiniteSet(T)
    BY FS_Subset
  <1>4. CASE T = {}
    <2>1. SumFunctionOnSet(f, T) = 0
      BY <1>3, <1>4, SumUnfold
    <2> QED BY <2>1
  <1>5. CASE T # {}
    <2>1. PICK x \in T : SumFunctionOnSet(f, T) = f[x] + SumFunctionOnSet(f, T \ {x})
      BY <1>3, <1>5, SumUnfold
    <2>2. Fine(T \ {x})
      BY <1>2
    <2> QED BY <2>1, <2>2
  <1> QED BY <1>4, <1>5

\* It does not matter which element is added first.
LEMMA SumElement ==
  ASSUME NEW f, NEW S, IsFiniteSet(S), \A y \in S : f[y] \in Int, NEW x \in S
  PROVE  SumFunctionOnSet(f, S) = f[x] + SumFunctionOnSet(f, S \ {x})
  <1> DEFINE B == {T \in SUBSET S : \E y \in T :
                     SumFunctionOnSet(f, T) # f[y] + SumFunctionOnSet(f, T \ {y})}
  <1>1. SUFFICES ASSUME B # {} PROVE FALSE
    OBVIOUS
  <1>2. PICK T \in B : \A U \in B : U \subseteq T => U = T
    <2>1. B \in SUBSET (SUBSET S)
      OBVIOUS
    <2> HIDE DEF B
    <2> QED BY <1>1, <2>1, SmallestSubset
  <1>3. PICK y \in T : SumFunctionOnSet(f, T) # f[y] + SumFunctionOnSet(f, T \ {y})
    OBVIOUS
  <1>4. \A U \in SUBSET S : IsFiniteSet(U) /\ SumFunctionOnSet(f, U) \in Int
    BY FS_Subset, SumType
  <1>5. PICK z \in T : SumFunctionOnSet(f, T) = f[z] + SumFunctionOnSet(f, T \ {z})
    BY <1>4, SumUnfold
  <1>6. CASE y = z
    BY <1>3, <1>5, <1>6
  <1>7. CASE y # z
    <2>0. T \ {z} \notin B /\ T \ {y} \notin B
      BY <1>2
    <2>1. SumFunctionOnSet(f, T \ {z}) = f[y] + SumFunctionOnSet(f, (T \ {z}) \ {y})
      BY <2>0, <1>7
    <2>2. SumFunctionOnSet(f, T \ {y}) = f[z] + SumFunctionOnSet(f, (T \ {y}) \ {z})
      BY <2>0, <1>7
    <2>3. SumFunctionOnSet(f, (T \ {z}) \ {y}) = SumFunctionOnSet(f, (T \ {y}) \ {z})
      <3>1. (T \ {z}) \ {y} = (T \ {y}) \ {z}
        OBVIOUS
      <3> QED BY <3>1, Zenon
    <2>4. f[y] \in Int /\ f[z] \in Int /\ SumFunctionOnSet(f, (T \ {y}) \ {z}) \in Int
      BY <1>4
    <2>5. SumFunctionOnSet(f, T) = f[y] + SumFunctionOnSet(f, T \ {y})
      <3> HIDE DEF B
      <3> QED BY <1>5, <2>1, <2>2, <2>3, <2>4
    <2> QED BY <1>3, <2>5
  <1> QED BY <1>6, <1>7

\* One more element.
LEMMA SumAdd ==
  ASSUME NEW f, NEW S, IsFiniteSet(S), NEW x, x \notin S, \A y \in S \cup {x} : f[y] \in Int
  PROVE  SumFunctionOnSet(f, S \cup {x}) = f[x] + SumFunctionOnSet(f, S)
  <1>1. IsFiniteSet(S \cup {x})
    BY FS_AddElement
  <1>2. (S \cup {x}) \ {x} = S
    OBVIOUS
  <1> QED BY <1>1, <1>2, SumElement

\* A sum only depends on the values of the elements.
LEMMA SumSame ==
  ASSUME NEW f, NEW g, NEW S, IsFiniteSet(S), \A x \in S : f[x] = g[x] /\ f[x] \in Int
  PROVE  SumFunctionOnSet(f, S) = SumFunctionOnSet(g, S)
  <1> DEFINE B == {T \in SUBSET S : SumFunctionOnSet(f, T) # SumFunctionOnSet(g, T)}
  <1>1. SUFFICES ASSUME B # {} PROVE FALSE
    OBVIOUS
  <1>2. PICK T \in B : \A U \in B : U \subseteq T => U = T
    <2>1. B \in SUBSET (SUBSET S)
      OBVIOUS
    <2> HIDE DEF B
    <2> QED BY <1>1, <2>1, SmallestSubset
  <1>3. IsFiniteSet(T)
    BY FS_Subset
  <1>4. CASE T = {}
    <2>1. SumFunctionOnSet(f, T) = 0 /\ SumFunctionOnSet(g, T) = 0
      BY <1>3, <1>4, SumUnfold
    <2> QED BY <2>1
  <1>5. CASE T # {}
    <2>1. PICK x \in T : TRUE
      BY <1>5
    <2>2. /\ SumFunctionOnSet(f, T) = f[x] + SumFunctionOnSet(f, T \ {x})
          /\ SumFunctionOnSet(g, T) = g[x] + SumFunctionOnSet(g, T \ {x})
      BY <1>3, <2>1, SumElement
    <2>3. SumFunctionOnSet(f, T \ {x}) = SumFunctionOnSet(g, T \ {x})
      BY <1>2, <2>1
    <2> QED BY <2>1, <2>2, <2>3
  <1> QED BY <1>4, <1>5
-----------------------------------------------------------------------------
(* Lines and quantities                                                    *)

\* WellFormed and QuantityOf, of any vector of lines.
Fine(its) ==
  /\ its \in Seq(LineItem)
  /\ \A i, j \in DOMAIN its : its[i].product_id = its[j].product_id => i = j
  /\ \A i \in DOMAIN its : its[i].quantity > 0

Held(its, p) ==
  LET lines == {i \in DOMAIN its : its[i].product_id = p}
  IN  IF lines = {} THEN 0
      ELSE its[CHOOSE i \in lines : \A j \in lines : i <= j].quantity

\* A line of a well-formed vector is the only one of its product.
LEMMA HeldAt ==
  ASSUME NEW its, Fine(its), NEW i \in DOMAIN its
  PROVE  Held(its, its[i].product_id) = its[i].quantity
  <1> DEFINE lines == {j \in DOMAIN its : its[j].product_id = its[i].product_id}
  <1>1. lines = {i}
    BY DEF Fine
  <1>2. i \in Int
    BY DEF Fine
  <1>3. (CHOOSE j \in lines : \A k \in lines : j <= k) = i
    <2> HIDE DEF lines
    <2> QED BY <1>1, <1>2
  <1> QED
    <2> HIDE DEF lines
    <2>1. Held(its, its[i].product_id) =
            IF lines = {} THEN 0
            ELSE its[CHOOSE j \in lines : \A k \in lines : j <= k].quantity
      BY DEF Held, lines
    <2> QED BY <1>1, <1>3, <2>1

\* No line, no quantity.
LEMMA HeldNone ==
  ASSUME NEW its, NEW p, \A i \in DOMAIN its : its[i].product_id # p
  PROVE  Held(its, p) = 0
  BY DEF Held

\* What is held of a product is what its line says.
LEMMA HeldIs ==
  ASSUME NEW its, Fine(its), NEW p, NEW q, q # 0, Held(its, p) = q
  PROVE  \E i \in DOMAIN its : its[i].product_id = p /\ its[i].quantity = q
  <1>1. PICK i \in DOMAIN its : its[i].product_id = p
    BY HeldNone
  <1> QED BY <1>1, HeldAt

\* A line for a product that has none.
LEMMA AppendLine ==
  ASSUME NEW its, Fine(its), NEW p \in ProductIds, NEW q \in Quantities, q > 0,
         \A i \in DOMAIN its : its[i].product_id # p
  PROVE  /\ Fine(Append(its, Line(p, q)))
         /\ \A x : Held(Append(its, Line(p, q)), x) = IF x = p THEN q ELSE Held(its, x)
  <1> DEFINE new == Append(its, Line(p, q))
             n   == Len(its)
  <1>1. its \in Seq(LineItem) /\ Line(p, q) \in LineItem
    BY DEF Fine, Line, LineItem
  <1>2. /\ new \in Seq(LineItem) /\ DOMAIN new = 1..(n + 1) /\ DOMAIN its = 1..n /\ n \in Nat
        /\ new[n + 1] = Line(p, q)
        /\ \A i \in 1..n : new[i] = its[i]
    BY <1>1
  <1> HIDE DEF new
  <1>3. new[n + 1].product_id = p /\ new[n + 1].quantity = q
    BY <1>2 DEF Line
  <1>4. Fine(new)
    BY <1>2, <1>3 DEF Fine
  <1>5. ASSUME NEW x PROVE Held(new, x) = IF x = p THEN q ELSE Held(its, x)
    <2>1. CASE x = p
      BY <2>1, <1>2, <1>3, <1>4, HeldAt
    <2>2. CASE x # p /\ \E i \in DOMAIN its : its[i].product_id = x
      BY <2>2, <1>2, <1>4, HeldAt
    <2>3. CASE x # p /\ \A i \in DOMAIN its : its[i].product_id # x
      <3>1. \A i \in DOMAIN new : new[i].product_id # x
        BY <2>3, <1>2, <1>3
      <3> QED BY <2>3, <3>1, HeldNone
    <2> QED BY <2>1, <2>2, <2>3
  <1> QED BY <1>4, <1>5 DEF new

\* The i-th line has quantity q now.
SetsQuantity(new, its, i, q) == new = [its EXCEPT ![i].quantity = q]

\* Another quantity for a product that has a line.
LEMMA SetLine ==
  ASSUME NEW its, Fine(its), NEW i \in DOMAIN its, NEW q \in Quantities, q > 0,
         NEW new, SetsQuantity(new, its, i, q)
  PROVE  /\ Fine(new)
         /\ \A x : Held(new, x) = IF x = its[i].product_id THEN q ELSE Held(its, x)
  <1>1. its \in Seq(LineItem) /\ its[i] \in LineItem
    BY DEF Fine
  <1>2. [its[i] EXCEPT !.quantity = q] \in LineItem
    BY <1>1 DEF LineItem
  <1>3. /\ new \in Seq(LineItem) /\ DOMAIN new = DOMAIN its
        /\ new[i].product_id = its[i].product_id /\ new[i].quantity = q
        /\ \A j \in DOMAIN its : j # i => new[j] = its[j]
    BY <1>1, <1>2 DEF LineItem, SetsQuantity
  <1>4. Fine(new)
    BY <1>3 DEF Fine
  <1>5. ASSUME NEW x PROVE Held(new, x) = IF x = its[i].product_id THEN q ELSE Held(its, x)
    <2>1. CASE x = its[i].product_id
      BY <2>1, <1>3, <1>4, HeldAt
    <2>2. CASE x # its[i].product_id /\ \E j \in DOMAIN its : its[j].product_id = x
      BY <2>2, <1>3, <1>4, HeldAt
    <2>3. CASE x # its[i].product_id /\ \A j \in DOMAIN its : its[j].product_id # x
      <3>1. \A j \in DOMAIN new : new[j].product_id # x
        BY <2>3, <1>3
      <3> QED BY <2>3, <3>1, HeldNone
    <2> QED BY <2>1, <2>2, <2>3
  <1> QED BY <1>4, <1>5
-----------------------------------------------------------------------------
(* Recursion along the vector                                              *)

\* g gives the value for every prefix: base for no line, then step by step.
Steps(g, N, T, base, step) ==
  /\ g \in [0..N -> T]
  /\ g[0] = base
  /\ \A n \in 1..N : g[n] = step[n][g[n - 1]]

\* Such a recursion has a solution.
LEMMA PrefixRecursion ==
  ASSUME NEW N \in Nat, NEW T, NEW base \in T, NEW step \in [1..N -> [T -> T]]
  PROVE  \E g : Steps(g, N, T, base, step)
  <1> DEFINE Solves(g, m) == Steps(g, m, T, base, step)
             B == {m \in 0..N : ~\E g : Solves(g, m)}
  <1>1. B = {}
    <2>1. SUFFICES ASSUME B # {} PROVE FALSE
      OBVIOUS
    <2>2. PICK m \in B : \A n \in B : m <= n
      <3>1. B \in SUBSET Nat
        OBVIOUS
      <3> HIDE DEF B
      <3> QED BY <2>1, <3>1, LeastNatural
    <2>3. m \in 0..N
      OBVIOUS
    <2>4. CASE m = 0
      <3>1. Solves([n \in {0} |-> base], 0)
        BY DEF Steps
      <3> HIDE DEF Solves
      <3> QED BY <3>1, <2>4
    <2>5. CASE m # 0
      <3>1. PICK g : Solves(g, m - 1)
        <4>1. m - 1 \in 0..N
          BY <2>3, <2>5
        <4>2. m - 1 \notin B
          <5> HIDE DEF B
          <5> QED BY <2>2, <2>3
        <4> HIDE DEF Solves
        <4> QED BY <4>1, <4>2
      <3> DEFINE h == [n \in 0..m |-> IF n = m THEN step[m][g[m - 1]] ELSE g[n]]
      <3>2. m \in 1..N /\ g[m - 1] \in T
        BY <2>3, <2>5, <3>1 DEF Steps
      <3>3. \A n \in 0..m : h[n] \in T
        BY <3>1, <3>2 DEF Steps
      <3>4. \A n \in 1..m : h[n] = step[n][h[n - 1]]
        BY <3>1, <3>2 DEF Steps
      <3>5. Solves(h, m)
        BY <3>1, <3>2, <3>3, <3>4 DEF Steps
      <3> HIDE DEF h, Solves
      <3> QED BY <3>5
    <2> QED BY <2>4, <2>5
  <1> QED BY <1>1
-----------------------------------------------------------------------------
(* retain                                                                  *)

\* The recursion of Retain has a solution, and Retain is its last value.
LEMMA RetainSteps ==
  ASSUME NEW p, items \in Seq(LineItem)
  PROVE  \E kept :
           /\ kept[0] = <<>>
           /\ \A n \in 1..Len(items) :
                kept[n] = IF items[n].product_id = p THEN kept[n - 1]
                          ELSE Append(kept[n - 1], items[n])
           /\ Retain(p) = kept[Len(items)]
  <1> DEFINE N == Len(items)
             T == Seq(LineItem)
             after(n, v) == IF items[n].product_id = p THEN v ELSE Append(v, items[n])
             step == [n \in 1..N |-> [v \in T |-> after(n, v)]]
             Solves(g) == g = [n \in 0..N |-> IF n = 0 THEN <<>> ELSE after(n, g[n - 1])]
             kept == CHOOSE g : Solves(g)
  <1>1. N \in Nat /\ <<>> \in T /\ \A n \in 1..N : items[n] \in LineItem
    OBVIOUS
  <1>2. step \in [1..N -> [T -> T]]
    <2>1. \A n \in 1..N, v \in T : after(n, v) \in T
      BY <1>1
    <2> HIDE DEF after
    <2> QED BY <2>1
  <1>3. PICK g : Steps(g, N, T, <<>>, step)
    <2> HIDE DEF step, T, N
    <2> QED BY <1>1, <1>2, PrefixRecursion
  <1>4. Solves(g)
    <2>1. \A n \in 1..N : g[n] = after(n, g[n - 1])
      <3> SUFFICES ASSUME NEW n \in 1..N PROVE g[n] = after(n, g[n - 1])
        OBVIOUS
      <3>1. g[n - 1] \in T /\ g[n] = step[n][g[n - 1]]
        <4> HIDE DEF step, T
        <4> QED BY <1>1, <1>3 DEF Steps
      <3> HIDE DEF after, T
      <3> QED BY <3>1
    <2>2. g[0] = <<>> /\ g = [n \in 0..N |-> g[n]]
      BY <1>3 DEF Steps
    <2>3. \A n \in 0..N : g[n] = IF n = 0 THEN <<>> ELSE after(n, g[n - 1])
      <3> HIDE DEF after
      <3> QED BY <2>1, <2>2, <1>1
    <2> HIDE DEF after
    <2> QED BY <2>2, <2>3
  <1>5. Solves(kept)
    <2> HIDE DEF Solves
    <2> QED BY <1>4
  <1>6. Retain(p) = kept[N]
    BY DEF Retain
  <1> HIDE DEF kept, step, T
  <1>7. /\ kept[0] = <<>>
        /\ \A n \in 1..N : kept[n] = after(n, kept[n - 1])
    <2> HIDE DEF after
    <2> QED BY <1>1, <1>5
  <1> QED BY <1>6, <1>7

\* The lines of other products stay, and nothing else: the vector remains well
\* formed and the map of quantities loses p.
LEMMA RetainDrops ==
  ASSUME NEW p, Fine(items)
  PROVE  /\ Fine(Retain(p))
         /\ \A x : Held(Retain(p), x) = IF x = p THEN 0 ELSE Held(items, x)
  <1> DEFINE N == Len(items)
  <1>1. items \in Seq(LineItem) /\ N \in Nat /\ DOMAIN items = 1..N
    BY DEF Fine
  <1>2. PICK kept :
          /\ kept[0] = <<>>
          /\ \A n \in 1..N : kept[n] = IF items[n].product_id = p THEN kept[n - 1]
                                       ELSE Append(kept[n - 1], items[n])
          /\ Retain(p) = kept[N]
    BY <1>1, RetainSteps
  <1> DEFINE From(n) == \A j \in DOMAIN kept[n] : \E i \in 1..n :
                          kept[n][j] = items[i] /\ items[i].product_id # p
             All(n) == \A i \in 1..n : items[i].product_id # p =>
                         \E j \in DOMAIN kept[n] : kept[n][j] = items[i]
             Right(n) == Fine(kept[n]) /\ From(n) /\ All(n)
             B == {n \in 0..N : ~Right(n)}
  <1>3. Right(0)
    BY <1>2 DEF Fine
  <1>4. ASSUME NEW n \in 1..N, Right(n - 1) PROVE Right(n)
    <2>1. n \in Nat /\ n - 1 \in 0..N /\ items[n] \in LineItem /\ items[n].quantity > 0
      BY <1>1 DEF Fine
    <2>2. CASE items[n].product_id = p
      <3>1. kept[n] = kept[n - 1]
        BY <1>2, <2>2
      <3>2. From(n)
        BY <1>4, <2>1, <3>1
      <3>3. All(n)
        BY <1>4, <2>1, <2>2, <3>1
      <3> QED BY <1>4, <3>1, <3>2, <3>3
    <2>3. CASE items[n].product_id # p
      <3> DEFINE old == kept[n - 1]
                 m   == Len(old)
      <3>1. kept[n] = Append(old, items[n])
        BY <1>2, <2>3
      <3>2. old \in Seq(LineItem) /\ m \in Nat /\ DOMAIN old = 1..m
        BY <1>4 DEF Fine
      <3>3. /\ kept[n] \in Seq(LineItem) /\ DOMAIN kept[n] = 1..(m + 1)
            /\ kept[n][m + 1] = items[n]
            /\ \A j \in 1..m : kept[n][j] = old[j]
        BY <2>1, <3>1, <3>2
      <3>4. \A j \in 1..m : \E i \in 1..(n - 1) : old[j] = items[i] /\ items[i].product_id # p
        BY <1>4, <3>2
      <3>5. \A j \in 1..m : old[j].product_id # items[n].product_id
        <4> SUFFICES ASSUME NEW j \in 1..m PROVE old[j].product_id # items[n].product_id
          OBVIOUS
        <4>1. PICK i \in 1..(n - 1) : old[j] = items[i]
          BY <3>4
        <4>2. i # n /\ i \in DOMAIN items /\ n \in DOMAIN items
          BY <1>1, <2>1
        <4> QED BY <4>1, <4>2 DEF Fine
      <3> HIDE DEF old, m
      <3>6. Fine(kept[n])
        <4>1. \A i, j \in 1..m : old[i].product_id = old[j].product_id => i = j
          BY <1>4, <3>2 DEF Fine, old
        <4>2. \A i \in 1..m : old[i].quantity > 0
          BY <1>4, <3>2 DEF Fine, old
        <4>3. \A i, j \in 1..(m + 1) : kept[n][i].product_id = kept[n][j].product_id => i = j
          BY <3>2, <3>3, <3>5, <4>1
        <4>4. \A i \in 1..(m + 1) : kept[n][i].quantity > 0
          BY <2>1, <3>2, <3>3, <4>2
        <4> QED BY <3>3, <4>3, <4>4 DEF Fine
      <3>7. From(n)
        <4> SUFFICES ASSUME NEW j \in 1..(m + 1)
                     PROVE  \E i \in 1..n : kept[n][j] = items[i] /\ items[i].product_id # p
          BY <3>3
        <4>1. CASE j = m + 1
          BY <4>1, <2>1, <2>3, <3>3
        <4>2. CASE j # m + 1
          <5>1. j \in 1..m
            BY <4>2, <3>2
          <5>2. PICK i \in 1..(n - 1) : old[j] = items[i] /\ items[i].product_id # p
            BY <3>4, <5>1
          <5> QED BY <2>1, <3>3, <5>1, <5>2
        <4> QED BY <4>1, <4>2
      <3>8. All(n)
        <4> SUFFICES ASSUME NEW i \in 1..n, items[i].product_id # p
                     PROVE  \E j \in DOMAIN kept[n] : kept[n][j] = items[i]
          OBVIOUS
        <4>1. CASE i = n
          BY <4>1, <3>2, <3>3
        <4>2. CASE i # n
          <5>1. PICK j \in 1..m : old[j] = items[i]
            BY <1>4, <4>2, <2>1, <3>2 DEF old
          <5> QED BY <5>1, <3>2, <3>3
        <4> QED BY <4>1, <4>2
      <3> QED BY <3>6, <3>7, <3>8
    <2> QED BY <2>2, <2>3
  <1>5. B = {}
    <2> HIDE DEF Right
    <2>1. SUFFICES ASSUME B # {} PROVE FALSE
      OBVIOUS
    <2>2. PICK n \in B : \A i \in B : n <= i
      <3>1. B \in SUBSET Nat
        BY <1>1
      <3> HIDE DEF B
      <3> QED BY <2>1, <3>1, LeastNatural
    <2>3. n # 0
      BY <1>3
    <2>4. n \in 1..N /\ n - 1 \in 0..N
      BY <1>1, <2>3
    <2>5. n - 1 \notin B
      <3> HIDE DEF B
      <3> QED BY <2>2, <2>4
    <2> QED BY <1>4, <2>4, <2>5
  <1>6. Right(N)
    <2> HIDE DEF Right
    <2> QED BY <1>1, <1>5
  <1>7. Fine(Retain(p)) /\ (\A j \in DOMAIN Retain(p) : Retain(p)[j].product_id # p)
    BY <1>2, <1>6
  <1>8. ASSUME NEW x PROVE Held(Retain(p), x) = IF x = p THEN 0 ELSE Held(items, x)
    <2>1. CASE x = p
      BY <2>1, <1>7, HeldNone
    <2>2. CASE x # p /\ \E i \in DOMAIN items : items[i].product_id = x
      <3>1. PICK i \in DOMAIN items : items[i].product_id = x
        BY <2>2
      <3>2. PICK j \in DOMAIN Retain(p) : Retain(p)[j] = items[i]
        BY <1>1, <1>2, <1>6, <2>2, <3>1
      <3> QED BY <2>2, <3>1, <3>2, <1>7, HeldAt
    <2>3. CASE x # p /\ \A i \in DOMAIN items : items[i].product_id # x
      <3>1. \A j \in DOMAIN Retain(p) : Retain(p)[j].product_id # x
        <4> SUFFICES ASSUME NEW j \in DOMAIN Retain(p) PROVE Retain(p)[j].product_id # x
          OBVIOUS
        <4>1. PICK i \in 1..N : Retain(p)[j] = items[i]
          BY <1>2, <1>6
        <4> QED BY <1>1, <2>3, <4>1
      <3> QED BY <2>3, <3>1, HeldNone
    <2> QED BY <2>1, <2>2, <2>3
  <1> QED BY <1>7, <1>8
-----------------------------------------------------------------------------
(* The operations                                                          *)

\* What each operation does to a well-formed vector and to its quantities.
LEMMA AddEffect ==
  ASSUME Fine(items), NEW p \in ProductIds, NEW q \in Quantities, AddItem(p, q)
  PROVE  /\ Fine(items') /\ q > 0 /\ Held(items, p) + q <= MaxQuantity
         /\ \A x : Held(items', x) = IF x = p THEN Held(items, p) + q ELSE Held(items, x)
  <1>1. q \in Nat /\ q > 0 /\ q <= MaxQuantity /\ MaxQuantity \in Nat
    BY QuantityAssumption DEF AddItem, Quantities
  <1>2. CASE LinesOf(p) # {}
    <2>1. PICK i \in DOMAIN items : items[i].product_id = p
      BY <1>2 DEF LinesOf
    <2>2. LinesOf(p) = {i} /\ i \in Int
      BY <2>1 DEF LinesOf, Fine
    <2>3. Find(p) = i
      BY <2>2 DEF Find
    <2>4. Held(items, p) = items[i].quantity /\ items[i].quantity \in Nat
      <3>1. items[i] \in LineItem
        BY <2>1 DEF Fine
      <3> QED BY <2>1, <3>1, HeldAt DEF LineItem, Quantities
    <2>5. /\ items[i].quantity + q \in Quantities /\ items[i].quantity + q > 0
          /\ SetsQuantity(items', items, i, items[i].quantity + q)
      BY <1>1, <1>2, <2>3, <2>4 DEF AddItem, Quantities, SetsQuantity
    <2>6. /\ Fine(items')
          /\ \A x : Held(items', x) =
                      IF x = p THEN items[i].quantity + q ELSE Held(items, x)
      BY <2>1, <2>5, SetLine
    <2>7. items[i].quantity + q <= MaxQuantity
      BY <1>1, <2>5 DEF Quantities
    <2> QED BY <1>1, <2>4, <2>6, <2>7
  <1>3. CASE LinesOf(p) = {}
    <2>1. \A i \in DOMAIN items : items[i].product_id # p
      BY <1>3 DEF LinesOf
    <2>2. Held(items, p) = 0
      BY <2>1, HeldNone
    <2>3. items' = Append(items, Line(p, q))
      BY <1>3 DEF AddItem
    <2> QED BY <1>1, <2>1, <2>2, <2>3, AppendLine
  <1> QED BY <1>2, <1>3

LEMMA UpdateEffect ==
  ASSUME Fine(items), NEW p \in ProductIds, NEW q \in Quantities, UpdateItem(p, q)
  PROVE  /\ Fine(items')
         /\ \A x : Held(items', x) = IF x = p THEN q ELSE Held(items, x)
  <1>1. q \in Nat
    BY QuantityAssumption DEF Quantities
  <1>2. CASE q = 0
    BY <1>2, RetainDrops DEF UpdateItem
  <1>3. CASE q # 0 /\ LinesOf(p) # {}
    <2>1. PICK i \in DOMAIN items : items[i].product_id = p
      BY <1>3 DEF LinesOf
    <2>2. LinesOf(p) = {i} /\ i \in Int
      BY <2>1 DEF LinesOf, Fine
    <2>3. Find(p) = i
      BY <2>2 DEF Find
    <2>4. SetsQuantity(items', items, i, q)
      BY <1>3, <2>3 DEF UpdateItem, SetsQuantity
    <2> QED BY <1>1, <1>3, <2>1, <2>4, SetLine
  <1>4. CASE q # 0 /\ LinesOf(p) = {}
    <2>1. \A i \in DOMAIN items : items[i].product_id # p
      BY <1>4 DEF LinesOf
    <2>2. items' = Append(items, Line(p, q))
      BY <1>4 DEF UpdateItem
    <2> QED BY <1>1, <1>4, <2>1, <2>2, AppendLine
  <1> QED BY <1>2, <1>3, <1>4

\* A cart never has two lines for a product, an empty one or one beyond u32.
THEOREM CartWellFormed == Calls => []WellFormed
  <1>1. New => WellFormed
    BY DEF New, WellFormed
  <1>2. WellFormed /\ [Call]_items => WellFormed'
    <2>1. SUFFICES ASSUME Fine(items), [Call]_items PROVE Fine(items')
      BY DEF WellFormed, Fine
    <2>2. CASE UNCHANGED items
      BY <2>1, <2>2
    <2>3. ASSUME NEW p \in ProductIds, NEW q \in Quantities, AddItem(p, q)
          PROVE  Fine(items')
      BY <2>1, <2>3, AddEffect
    <2>4. ASSUME NEW p \in ProductIds, NEW q \in Quantities, UpdateItem(p, q)
          PROVE  Fine(items')
      BY <2>1, <2>4, UpdateEffect
    <2>5. ASSUME NEW p \in ProductIds, RemoveItem(p) PROVE Fine(items')
      BY <2>1, <2>5, RetainDrops DEF RemoveItem
    <2> QED BY <2>1, <2>2, <2>3, <2>4, <2>5 DEF Call
  <1> QED BY <1>1, <1>2, PTL DEF Calls

\* The map of quantities, before a step and after it.
LEMMA QuantityIs ==
  /\ Quantity = [p \in ProductIds |-> Held(items, p)]
  /\ Quantity' = [p \in ProductIds |-> Held(items', p)]
  <1>1. \A p : QuantityOf(p) = Held(items, p)
    BY DEF QuantityOf, LinesOf, Find, Held
  <1>2. \A p : QuantityOf(p)' = Held(items', p)
    BY DEF QuantityOf, LinesOf, Find, Held
  <1> QED BY <1>1, <1>2 DEF Quantity

\* Each operation on the vector is the one the map promises (add, update and
\* remove of Cart): the scan for the first line of a product, the merge and
\* retain do to the quantities what their names say, and to nothing else.
THEOREM CartIsAMap == Calls => BehavesAsMap
  <1>1. New => Map!QInit
    <2> SUFFICES ASSUME New PROVE Map!QInit
      OBVIOUS
    <2>1. \A p : Held(items, p) = 0
      BY HeldNone DEF New
    <2> QED BY <2>1, QuantityIs DEF Map!QInit
  <1>2. ASSUME WellFormed, NEW p \in ProductIds, NEW q \in Quantities, AddItem(p, q)
        PROVE  Map!QAdd(p, q)
    <2>1. Fine(items)
      BY <1>2 DEF WellFormed, Fine
    <2>2. /\ q > 0 /\ Held(items, p) + q <= MaxQuantity
          /\ \A x : Held(items', x) = IF x = p THEN Held(items, p) + q ELSE Held(items, x)
      BY <1>2, <2>1, AddEffect
    <2>3. Quantity[p] = Held(items, p)
      BY QuantityIs
    <2>4. Quantity' = [Quantity EXCEPT ![p] = @ + q]
      BY <2>2, <2>3, QuantityIs
    <2> QED BY <2>2, <2>3, <2>4 DEF Map!QAdd
  <1>3. ASSUME WellFormed, NEW p \in ProductIds, NEW q \in Quantities, UpdateItem(p, q)
        PROVE  Map!QSet(p, q)
    <2>1. Fine(items)
      BY <1>3 DEF WellFormed, Fine
    <2>2. \A x : Held(items', x) = IF x = p THEN q ELSE Held(items, x)
      BY <1>3, <2>1, UpdateEffect
    <2> QED BY <2>2, QuantityIs DEF Map!QSet
  <1>4. ASSUME WellFormed, NEW p \in ProductIds, RemoveItem(p) PROVE Map!QSet(p, 0)
    <2>1. Fine(items)
      BY <1>4 DEF WellFormed, Fine
    <2>2. \A x : Held(items', x) = IF x = p THEN 0 ELSE Held(items, x)
      BY <1>4, <2>1, RetainDrops DEF RemoveItem
    <2> QED BY <2>2, QuantityIs DEF Map!QSet
  <1>5. WellFormed /\ [Call]_items =>
          [\A p \in ProductIds :
             /\ \A q \in Quantities : AddItem(p, q)    => Map!QAdd(p, q)
             /\ \A q \in Quantities : UpdateItem(p, q) => Map!QSet(p, q)
             /\ RemoveItem(p) => Map!QSet(p, 0)]_items
    BY <1>2, <1>3, <1>4
  <1> QED BY <1>1, <1>5, CartWellFormed, PTL DEF Calls, BehavesAsMap
-----------------------------------------------------------------------------
(* Pricing                                                                 *)

\* What adding up may come to.
Errors  == {"Overflow", "CrossCurrencyMismatch", "MissingPrice"}
Results == {Ok(a) : a \in Amount} \cup {Err(a, why) : a \in Amount, why \in Errors}

LEMMA OkIs ==
  ASSUME NEW a
  PROVE  Ok(a).ok = TRUE /\ Ok(a).amount = a /\ (a \in Amount => Ok(a) \in Results)
  <1>1. a \in Amount => Ok(a) \in Results
    BY DEF Results
  <1> QED BY <1>1 DEF Ok

LEMMA ErrIs ==
  ASSUME NEW a, NEW why
  PROVE  /\ Err(a, why).ok = FALSE /\ Err(a, why).amount = a
         /\ a \in Amount /\ why \in Errors => Err(a, why) \in Results
  <1>1. a \in Amount /\ why \in Errors => Err(a, why) \in Results
    BY DEF Results
  <1> QED BY <1>1 DEF Err

LEMMA ResultIs ==
  ASSUME NEW r \in Results
  PROVE  r.ok \in BOOLEAN /\ r.amount \in Amount
  <1>1. CASE \E a \in Amount : r = Ok(a)
    BY <1>1, OkIs
  <1>2. CASE \E a \in Amount, why \in Errors : r = Err(a, why)
    <2>1. PICK a \in Amount, why \in Errors : r = Err(a, why)
      BY <1>2
    <2>2. r.ok = FALSE /\ r.amount = a
      BY <2>1, ErrIs, Zenon
    <2> QED BY <2>2
  <1> QED BY <1>1, <1>2 DEF Results

\* Checked arithmetic ends in an amount or an error.
LEMMA CheckedType ==
  ASSUME NEW c \in Currencies, NEW n
  PROVE  /\ Zero(c) \in Amount
         /\ Checked(c, n) \in Results
         /\ n \in Units => /\ Checked(c, n).ok = TRUE
                          /\ Checked(c, n).amount = [currency |-> c, units |-> n]
         /\ n \notin Units => Checked(c, n).ok = FALSE
  <1>1. Zero(c) \in Amount
    BY MaxUnitsAssumption DEF Zero, Amount, Units, MinUnits
  <1>2. CASE n \in Units
    <2>1. [currency |-> c, units |-> n] \in Amount
      BY <1>2 DEF Amount
    <2>2. Checked(c, n) = Ok([currency |-> c, units |-> n])
      BY <1>2 DEF Checked
    <2> QED BY <1>1, <1>2, <2>1, <2>2, OkIs
  <1>3. CASE n \notin Units
    <2>1. Checked(c, n) = Err(Zero(c), "Overflow")
      BY <1>3 DEF Checked
    <2>2. "Overflow" \in Errors
      BY DEF Errors
    <2>3. Checked(c, n).ok = FALSE /\ Checked(c, n) \in Results
      <3>1. Err(Zero(c), "Overflow").ok = FALSE
        BY ErrIs, Zenon
      <3>2. Err(Zero(c), "Overflow") \in Results
        BY <1>1, <2>2 DEF Results
      <3> QED BY <2>1, <3>1, <3>2, Zenon
    <2> QED BY <1>1, <1>3, <2>3
  <1> QED BY <1>2, <1>3

LEMMA PlusLineType ==
  ASSUME NEW r \in Results, NEW li \in LineItem
  PROVE  PlusLine(r, li) \in Results
  <1>1. Zero(CartCurrency) \in Amount
    BY CurrencyAssumption, CheckedType
  <1>2. CASE ~r.ok
    BY <1>2 DEF PlusLine
  <1>3. CASE r.ok /\ li.product_id \notin DOMAIN Price
    BY <1>1, <1>3, ErrIs DEF PlusLine, Errors
  <1>4. CASE r.ok /\ li.product_id \in DOMAIN Price
    <2> DEFINE price == Price[li.product_id]
               line  == LineTotal(li.quantity, price)
    <2>1. price \in Amount /\ price.currency \in Currencies
      BY <1>4, PriceAssumption DEF Amount
    <2>2. line \in Results
      BY <2>1, CheckedType DEF LineTotal, MulByQuantity
    <2>3. r.amount \in Amount /\ r.amount.currency \in Currencies /\ line.amount \in Amount
      BY <2>2, ResultIs DEF Amount
    <2>4. Add(r.amount, line.amount) \in Results
      <3> HIDE DEF line
      <3>1. CASE r.amount.currency # line.amount.currency
        BY <2>3, <3>1, ErrIs DEF Add, Errors
      <3>2. CASE r.amount.currency = line.amount.currency
        BY <2>3, <3>2, CheckedType DEF Add
      <3> QED BY <3>1, <3>2
    <2>5. PlusLine(r, li) = IF line.ok THEN Add(r.amount, line.amount) ELSE line
      BY <1>4 DEF PlusLine
    <2> HIDE DEF line
    <2> QED BY <2>2, <2>4, <2>5
  <1> QED BY <1>2, <1>3, <1>4

\* The recursion of CartSubtotal has a solution.
LEMMA SubtotalSteps ==
  ASSUME items \in Seq(LineItem)
  PROVE  \E subtotal :
           /\ subtotal[0] = Ok(Zero(CartCurrency))
           /\ \A n \in 1..Len(items) : subtotal[n] = PlusLine(subtotal[n - 1], items[n])
           /\ CartSubtotal = subtotal[Len(items)]
  <1> DEFINE N == Len(items)
             step == [n \in 1..N |-> [v \in Results |-> PlusLine(v, items[n])]]
             zero == Ok(Zero(CartCurrency))
             Solves(g) == g = [n \in 0..N |-> IF n = 0 THEN zero
                                              ELSE PlusLine(g[n - 1], items[n])]
             subtotal == CHOOSE g : Solves(g)
  <1>1. N \in Nat /\ \A n \in 1..N : items[n] \in LineItem
    OBVIOUS
  <1>2. zero \in Results
    BY CurrencyAssumption, CheckedType, OkIs
  <1>3. step \in [1..N -> [Results -> Results]]
    BY <1>1, PlusLineType
  <1>4. PICK g : Steps(g, N, Results, zero, step)
    <2> HIDE DEF step, zero, N
    <2> QED BY <1>1, <1>2, <1>3, PrefixRecursion
  <1>5. Solves(g)
    <2>1. \A n \in 1..N : g[n] = PlusLine(g[n - 1], items[n])
      <3> SUFFICES ASSUME NEW n \in 1..N PROVE g[n] = PlusLine(g[n - 1], items[n])
        OBVIOUS
      <3>1. g[n - 1] \in Results /\ g[n] = step[n][g[n - 1]]
        <4> HIDE DEF step, zero
        <4> QED BY <1>1, <1>4 DEF Steps
      <3> QED BY <3>1
    <2>2. g[0] = zero /\ g = [n \in 0..N |-> g[n]]
      <3> HIDE DEF step, zero
      <3> QED BY <1>4 DEF Steps
    <2>3. \A n \in 0..N : g[n] = IF n = 0 THEN zero ELSE PlusLine(g[n - 1], items[n])
      <3> HIDE DEF zero
      <3> QED BY <2>1, <2>2, <1>1
    <2> HIDE DEF zero
    <2> QED BY <2>2, <2>3
  <1>6. Solves(subtotal)
    <2> HIDE DEF Solves
    <2> QED BY <1>5
  <1>7. CartSubtotal = subtotal[N]
    BY DEF CartSubtotal
  <1> HIDE DEF subtotal, step
  <1>8. /\ subtotal[0] = zero
        /\ \A n \in 1..N : subtotal[n] = PlusLine(subtotal[n - 1], items[n])
    <2> HIDE DEF zero
    <2> QED BY <1>1, <1>6
  <1> QED BY <1>7, <1>8

\* What one more line makes of an error, and of a total.
LEMMA PlusLineStops ==
  ASSUME NEW r, r.ok = FALSE, NEW li PROVE PlusLine(r, li) = r
  BY DEF PlusLine

LEMMA PlusLineIs ==
  ASSUME NEW r \in Results, r.ok = TRUE, NEW li \in LineItem
  PROVE  LET price == Price[li.product_id]
             units == price.units * li.quantity
         IN  /\ li.product_id \notin DOMAIN Price => PlusLine(r, li).ok = FALSE
             /\ li.product_id \in DOMAIN Price =>
                  /\ price.currency # r.amount.currency => PlusLine(r, li).ok = FALSE
                  /\ units \notin Units => PlusLine(r, li).ok = FALSE
                  /\ price.currency = r.amount.currency /\ units \in Units =>
                       PlusLine(r, li) = Checked(r.amount.currency, r.amount.units + units)
  <1> DEFINE price == Price[li.product_id]
             units == price.units * li.quantity
             line  == LineTotal(li.quantity, price)
  <1>1. ASSUME li.product_id \notin DOMAIN Price PROVE PlusLine(r, li).ok = FALSE
    <2>1. PlusLine(r, li) = Err(Zero(CartCurrency), "MissingPrice")
      BY <1>1 DEF PlusLine
    <2>2. Err(Zero(CartCurrency), "MissingPrice").ok = FALSE
      BY ErrIs, Zenon
    <2> QED BY <2>1, <2>2, Zenon
  <1>2. ASSUME li.product_id \in DOMAIN Price
        PROVE  /\ price.currency # r.amount.currency => PlusLine(r, li).ok = FALSE
               /\ units \notin Units => PlusLine(r, li).ok = FALSE
               /\ price.currency = r.amount.currency /\ units \in Units =>
                    PlusLine(r, li) = Checked(r.amount.currency, r.amount.units + units)
    <2>1. price.currency \in Currencies
      BY <1>2, PriceAssumption DEF Amount
    <2>2. line = Checked(price.currency, units)
      BY DEF LineTotal, MulByQuantity
    <2>3. PlusLine(r, li) = IF line.ok THEN Add(r.amount, line.amount) ELSE line
      BY <1>2 DEF PlusLine
    <2> HIDE DEF price, units, line
    <2>4. CASE units \notin Units
      <3>1. line.ok = FALSE
        BY <2>1, <2>2, <2>4, CheckedType
      <3>2. PlusLine(r, li) = line
        BY <2>3, <3>1
      <3> QED BY <2>4, <3>1, <3>2
    <2>5. CASE units \in Units
      <3>1. line.ok = TRUE /\ line.amount = [currency |-> price.currency, units |-> units]
        BY <2>1, <2>2, <2>5, CheckedType
      <3>2. PlusLine(r, li) = Add(r.amount, line.amount)
        BY <2>3, <3>1
      <3>3. CASE price.currency # r.amount.currency
        <4>1. PlusLine(r, li) = Err(r.amount, "CrossCurrencyMismatch")
          BY <3>1, <3>2, <3>3 DEF Add
        <4>2. PlusLine(r, li).ok = FALSE
          <5>1. Err(r.amount, "CrossCurrencyMismatch").ok = FALSE
            BY ErrIs, Zenon
          <5> QED BY <4>1, <5>1, Zenon
        <4> QED BY <2>5, <3>3, <4>2
      <3>4. CASE price.currency = r.amount.currency
        BY <2>5, <3>1, <3>2, <3>4 DEF Add
      <3> QED BY <3>3, <3>4
    <2> QED BY <2>4, <2>5
  <1> QED BY <1>1, <1>2

\* The lines up to the n-th can be priced in the currency of the cart.
Priceable(n) ==
  \A i \in 1..n : /\ items[i].product_id \in DOMAIN Price
                  /\ Price[items[i].product_id].currency = CartCurrency

\* Their products, and what the products cost taken together.
Products(n) == {items[i].product_id : i \in 1..n}
Costs       == [p \in InCart |-> Price[p].units * QuantityOf(p)]
Cost(n)     == SumFunctionOnSet(Costs, Products(n))

\* The products of the cart are those that have a line.
LEMMA InCartIs ==
  ASSUME Fine(items)
  PROVE  /\ InCart = Products(Len(items))
         /\ \A i \in DOMAIN items :
              /\ items[i].product_id \in InCart
              /\ Costs[items[i].product_id] = Price[items[i].product_id].units * items[i].quantity
  <1>1. \A p : QuantityOf(p) = Held(items, p)
    BY DEF QuantityOf, LinesOf, Find, Held
  <1>2. DOMAIN items = 1..Len(items) /\ \A i \in DOMAIN items : items[i] \in LineItem
    BY DEF Fine
  <1>3. ASSUME NEW i \in DOMAIN items
        PROVE  items[i].product_id \in InCart /\ QuantityOf(items[i].product_id) = items[i].quantity
    <2>1. QuantityOf(items[i].product_id) = items[i].quantity
      BY <1>1, HeldAt
    <2>2. items[i].quantity > 0 /\ items[i].product_id \in ProductIds
      BY <1>2 DEF Fine, LineItem
    <2> QED BY <2>1, <2>2 DEF InCart
  <1>4. ASSUME NEW p \in InCart PROVE p \in Products(Len(items))
    <2>1. Held(items, p) # 0
      BY <1>1 DEF InCart
    <2>2. PICK i \in DOMAIN items : items[i].product_id = p
      BY <2>1, HeldNone
    <2> QED BY <1>2, <2>2 DEF Products
  <1>5. Products(Len(items)) \subseteq InCart
    BY <1>2, <1>3 DEF Products
  <1> QED BY <1>3, <1>4, <1>5 DEF Costs

\* A line costs a natural number of units.
LEMMA CostType ==
  ASSUME Fine(items), NEW n \in 0..Len(items), Priceable(n)
  PROVE  \A p \in Products(n) : Costs[p] \in Int /\ Costs[p] >= 0
  <1> SUFFICES ASSUME NEW i \in 1..n
               PROVE  Costs[items[i].product_id] \in Int /\ Costs[items[i].product_id] >= 0
    BY DEF Products
  <1> DEFINE units    == Price[items[i].product_id].units
             quantity == items[i].quantity
  <1>1. i \in DOMAIN items /\ items[i] \in LineItem
    BY DEF Fine
  <1>2. units \in Int /\ units >= 0
    BY PriceAssumption, MaxUnitsAssumption DEF Priceable, Amount, Units, MinUnits
  <1>3. quantity \in Int /\ quantity >= 0
    BY <1>1, QuantityAssumption DEF LineItem, Quantities
  <1>4. Costs[items[i].product_id] = units * quantity
    BY <1>1, InCartIs
  <1> HIDE DEF units, quantity
  <1>5. \A a, b \in Nat : a * b \in Nat
    OBVIOUS
  <1> QED BY <1>2, <1>3, <1>4, <1>5

\* cart_subtotal, prefix by prefix: it is an error as soon as a line cannot be
\* priced or the cost so far is no i64, and the exact cost otherwise.  Costs
\* are not negative, so that what was too much once remains too much.
Tracks(r, n) ==
  /\ r \in Results
  /\ IsFiniteSet(Products(n))
  /\ Priceable(n) /\ Cost(n) \in Units =>
       r.ok = TRUE /\ r.amount = [currency |-> CartCurrency, units |-> Cost(n)]
  /\ ~(Priceable(n) /\ Cost(n) \in Units) => r.ok = FALSE

LEMMA TracksNone == Tracks(Ok(Zero(CartCurrency)), 0)
  <1>1. Products(0) = {} /\ Priceable(0)
    BY DEF Products, Priceable
  <1>2. IsFiniteSet(Products(0)) /\ Cost(0) = 0
    BY <1>1, FS_EmptySet, SumUnfold DEF Cost
  <1>3. 0 \in Units
    BY MaxUnitsAssumption DEF Units, MinUnits
  <1>4. Zero(CartCurrency) = [currency |-> CartCurrency, units |-> Cost(0)]
    BY <1>2 DEF Zero
  <1> QED BY <1>1, <1>2, <1>3, <1>4, OkIs, CurrencyAssumption, CheckedType DEF Tracks

LEMMA TracksLine ==
  ASSUME Fine(items), NEW n \in 1..Len(items), NEW r, Tracks(r, n - 1)
  PROVE  Tracks(PlusLine(r, items[n]), n)
  <1> DEFINE p    == items[n].product_id
             unit == Price[p].units * items[n].quantity
  <1>1. /\ n \in DOMAIN items /\ items[n] \in LineItem /\ items \in Seq(LineItem)
        /\ Len(items) \in Nat /\ DOMAIN items = 1..Len(items)
    BY DEF Fine
  <1>2. r \in Results /\ PlusLine(r, items[n]) \in Results
    BY <1>1, PlusLineType DEF Tracks
  <1>3. Products(n) = Products(n - 1) \cup {p} /\ p \notin Products(n - 1)
    <2>1. \A i \in 1..(n - 1) : items[i].product_id # p
      BY <1>1 DEF Fine
    <2>2. \A i \in 1..n : i = n \/ i \in 1..(n - 1)
      OBVIOUS
    <2> QED BY <2>1, <2>2 DEF Products
  <1>4. IsFiniteSet(Products(n)) /\ IsFiniteSet(Products(n - 1))
    BY <1>3, FS_AddElement DEF Tracks
  <1>5. Priceable(n) <=> /\ Priceable(n - 1)
                         /\ p \in DOMAIN Price /\ Price[p].currency = CartCurrency
    BY DEF Priceable
  <1>6. CASE ~(Priceable(n - 1) /\ Cost(n - 1) \in Units)
    <2>1. PlusLine(r, items[n]) = r /\ r.ok = FALSE
      BY <1>6, PlusLineStops DEF Tracks
    <2>2. ~(Priceable(n) /\ Cost(n) \in Units)
      <3>1. SUFFICES ASSUME Priceable(n), Cost(n) \in Units PROVE FALSE
        OBVIOUS
      <3>2. n - 1 \in 0..Len(items) /\ n \in 0..Len(items) /\ Priceable(n - 1)
        BY <1>1, <1>5, <3>1
      <3>3. \A x \in Products(n) : Costs[x] \in Int /\ Costs[x] >= 0
        BY <3>1, <3>2, CostType
      <3>4. Cost(n) = Costs[p] + Cost(n - 1)
        BY <1>3, <1>4, <3>3, SumAdd DEF Cost
      <3>5. Cost(n - 1) \in Int /\ Cost(n - 1) >= 0
        BY <1>3, <1>4, <3>3, SumType DEF Cost
      <3>6. Costs[p] \in Int /\ Costs[p] >= 0
        BY <1>3, <3>3
      <3> QED BY <1>6, <3>1, <3>2, <3>4, <3>5, <3>6, MaxUnitsAssumption DEF Units, MinUnits
    <2> QED BY <1>2, <1>4, <2>1, <2>2 DEF Tracks
  <1>7. CASE Priceable(n - 1) /\ Cost(n - 1) \in Units
    <2>1. r.ok = TRUE /\ r.amount = [currency |-> CartCurrency, units |-> Cost(n - 1)]
      BY <1>7 DEF Tracks
    <2>2. r.amount.currency = CartCurrency /\ r.amount.units = Cost(n - 1)
      BY <2>1
    <2>3. CASE ~Priceable(n)
      <3>1. p \notin DOMAIN Price \/ Price[p].currency # CartCurrency
        BY <1>5, <1>7, <2>3
      <3>2. PlusLine(r, items[n]).ok = FALSE
        BY <1>1, <1>2, <2>1, <2>2, <3>1, PlusLineIs
      <3> QED BY <1>2, <1>4, <2>3, <3>2 DEF Tracks
    <2>4. CASE Priceable(n)
      <3>1. n \in 0..Len(items)
        BY <1>1
      <3>2. \A x \in Products(n) : Costs[x] \in Int /\ Costs[x] >= 0
        BY <2>4, <3>1, CostType
      <3>3. Costs[p] = unit
        BY <1>1, InCartIs
      <3>4. Cost(n) = unit + Cost(n - 1)
        BY <1>3, <1>4, <3>2, <3>3, SumAdd DEF Cost
      <3>5. Cost(n - 1) \in Int /\ Cost(n - 1) >= 0
        BY <1>3, <1>4, <3>2, SumType DEF Cost
      <3>6. unit \in Int /\ unit >= 0
        BY <1>3, <3>2, <3>3
      <3>7. p \in DOMAIN Price /\ Price[p].currency = CartCurrency
        BY <1>5, <2>4
      <3> HIDE DEF unit
      <3>8. CASE unit \notin Units
        <4>1. PlusLine(r, items[n]).ok = FALSE
          BY <1>1, <1>2, <2>1, <3>7, <3>8, PlusLineIs DEF unit
        <4>2. Cost(n) \notin Units
          BY <3>4, <3>5, <3>6, <3>8, MaxUnitsAssumption DEF Units, MinUnits
        <4> QED BY <1>2, <1>4, <4>1, <4>2 DEF Tracks
      <3>9. CASE unit \in Units
        <4>1. PlusLine(r, items[n]) = Checked(CartCurrency, Cost(n - 1) + unit)
          BY <1>1, <1>2, <2>1, <2>2, <3>7, <3>9, PlusLineIs DEF unit
        <4>2. PlusLine(r, items[n]) = Checked(CartCurrency, Cost(n))
          <5>1. Cost(n) = Cost(n - 1) + unit
            BY <3>4, <3>5, <3>6
          <5> QED BY <4>1, <5>1
        <4> QED BY <1>2, <1>4, <2>4, <4>2, CurrencyAssumption, CheckedType DEF Tracks
      <3> QED BY <3>8, <3>9
    <2> QED BY <2>3, <2>4
  <1> QED BY <1>6, <1>7

\* The whole cart.
LEMMA SubtotalTracks ==
  ASSUME Fine(items)
  PROVE  Tracks(CartSubtotal, Len(items))
  <1> DEFINE N == Len(items)
  <1>1. items \in Seq(LineItem) /\ N \in Nat
    BY DEF Fine
  <1>2. PICK subtotal :
          /\ subtotal[0] = Ok(Zero(CartCurrency))
          /\ \A n \in 1..N : subtotal[n] = PlusLine(subtotal[n - 1], items[n])
          /\ CartSubtotal = subtotal[N]
    BY <1>1, SubtotalSteps
  <1> DEFINE B == {n \in 0..N : ~Tracks(subtotal[n], n)}
  <1>3. SUFFICES ASSUME B # {} PROVE FALSE
    BY <1>1, <1>2
  <1>4. PICK n \in B : \A i \in B : n <= i
    <2>1. B \in SUBSET Nat
      BY <1>1
    <2> HIDE DEF B
    <2> QED BY <1>3, <2>1, LeastNatural
  <1>5. n # 0
    BY <1>2, TracksNone
  <1>6. n \in 1..N /\ n - 1 \in 0..N
    BY <1>1, <1>5
  <1>7. n - 1 \notin B
    <2> HIDE DEF B
    <2> QED BY <1>4, <1>6
  <1> QED BY <1>2, <1>6, <1>7, TracksLine

\* The price of a cart is the exact sum in unbounded integers whenever there is
\* one, and no order of the lines makes compute_totals fail where it need not.
THEOREM CartPricedExactly == Calls => []TotalIsExact
  <1>1. WellFormed => TotalIsExact
    <2> SUFFICES ASSUME Fine(items) PROVE TotalIsExact
      BY DEF WellFormed, Fine
    <2> DEFINE N == Len(items)
               priced == Priceable(N) /\ Cost(N) \in Units
    <2>1. InCart = Products(N)
      BY InCartIs
    <2>2. ExactTotal = Cost(N)
      BY <2>1 DEF ExactTotal, SumFunction, Cost, Costs
    <2>3. priced <=> /\ InCart \subseteq DOMAIN Price
                     /\ \A p \in InCart : Price[p].currency = CartCurrency
                     /\ ExactTotal \in Units
      BY <2>1, <2>2 DEF Priceable, Products
    <2>4. Tracks(CartSubtotal, N)
      BY SubtotalTracks
    <2>5. CASE ~priced
      <3>1. CartSubtotal.ok = FALSE
        BY <2>4, <2>5 DEF Tracks
      <3>2. ComputeTotals = CartSubtotal
        BY <3>1 DEF ComputeTotals
      <3> QED BY <2>3, <2>5, <3>1, <3>2 DEF TotalIsExact
    <2>6. CASE priced
      <3>1. CartSubtotal.ok = TRUE
            /\ CartSubtotal.amount = [currency |-> CartCurrency, units |-> Cost(N)]
        BY <2>4, <2>6 DEF Tracks
      <3>2. ComputeTotals = Checked(CartCurrency, Cost(N) + 0)
        BY <3>1 DEF ComputeTotals, Add, Zero
      <3>3. Cost(N) + 0 = Cost(N)
        BY <2>6, MaxUnitsAssumption DEF Units, MinUnits
      <3>4. /\ ComputeTotals.ok = TRUE
            /\ ComputeTotals.amount = [currency |-> CartCurrency, units |-> Cost(N)]
        BY <2>6, <3>2, <3>3, CurrencyAssumption, CheckedType
      <3> QED BY <2>2, <2>3, <2>6, <3>4 DEF TotalIsExact
    <2> QED BY <2>5, <2>6
  <1> QED BY <1>1, CartWellFormed, PTL
=============================================================================
