--------------------------- MODULE DurableProofs ---------------------------
(***************************************************************************)
(* Proofs about Durable: the cache mirrors sled while the store is open,   *)
(* and what was stored at a close survives every crash after it.           *)
(***************************************************************************)
EXTENDS Durable, TLAPS

\* A write gives a map again.
LEMMA PutTyped ==
  ASSUME NEW m \in Maps, NEW k \in Keys, NEW v \in Values
  PROVE  Put(m, k, v) \in Maps
<1>1. PICK ks \in SUBSET Keys : m \in [ks -> Values]
  BY DEF Maps
<1>2. Put(m, k, v) \in [ks \cup {k} -> Values]
  BY <1>1 DEF Put
<1>3. ks \cup {k} \in SUBSET Keys
  BY <1>1
<1> QED
  BY <1>2, <1>3 DEF Maps

\* There is always a current tree.
LEMMA TreeTyped ==
  ASSUME TypeOK
  PROVE  /\ Len(versions) \in Nat \ {0}
         /\ Len(versions) \in DOMAIN versions
         /\ Tree \in Maps
<1>1. versions \in Seq(Maps) /\ versions # <<>>
  BY DEF TypeOK
<1>2. Len(versions) \in Nat \ {0}
  BY <1>1
<1> QED
  BY <1>1, <1>2 DEF Tree

\* One version is enough for the type.
LEMMA OneVersion ==
  ASSUME NEW m \in Maps
  PROVE  <<m>> \in Seq(Maps) /\ <<m>> # <<>>
OBVIOUS

\* What Apply does to the versions.
LEMMA Applied ==
  ASSUME TypeOK, NEW k \in Keys, NEW v \in Values, Apply(k, v)
  PROVE  /\ versions' \in Seq(Maps) /\ versions' # <<>>
         /\ Tree' = Put(Tree, k, v)
         /\ \A i \in DOMAIN versions' :
              \/ i \in DOMAIN versions /\ versions'[i] = versions[i]
              \/ versions'[i] = Put(Tree, k, v)
<1>1. Put(Tree, k, v) \in Maps
  BY TreeTyped, PutTyped
<1>2. versions \in Seq(Maps)
  BY DEF TypeOK
<1>3. versions' = Append(versions, Put(Tree, k, v))
  BY DEF Apply
<1>4. versions' \in Seq(Maps) /\ Len(versions') = Len(versions) + 1
  BY <1>1, <1>2, <1>3
<1>5. versions' # <<>>
  BY <1>2, <1>4
<1>6. Tree' = Put(Tree, k, v)
  BY <1>1, <1>2, <1>3, <1>4 DEF Tree
<1>7. ASSUME NEW i \in DOMAIN versions'
      PROVE  \/ i \in DOMAIN versions /\ versions'[i] = versions[i]
             \/ versions'[i] = Put(Tree, k, v)
  BY <1>1, <1>2, <1>3
<1> QED
  BY <1>4, <1>5, <1>6, <1>7

\* A write of k leaves the other keys alone.
LEMMA PutElsewhere ==
  ASSUME NEW m, NEW n, NEW k, NEW v, NEW j, j # k
  PROVE  /\ Agree(m, n, j) => Agree(m, Put(n, k, v), j)
         /\ Agree(n, m, j) => Agree(Put(n, k, v), m, j)
         /\ Agree(m, n, j) => Agree(Put(m, k, v), Put(n, k, v), j)
BY DEF Agree, Put, Has

LEMMA PutHere ==
  ASSUME NEW m, NEW k, NEW v
  PROVE  Has(Put(m, k, v), k) /\ Put(m, k, v)[k] = v
BY DEF Put, Has

LEMMA InitIInv == Init => IInv
<1> SUFFICES ASSUME Init PROVE IInv
  OBVIOUS
<1>1. EmptyStore \in [{} -> Values] /\ {} \in SUBSET Keys
  BY DEF EmptyStore
<1>2. TypeOK
  <2>1. EmptyStore \in Maps
    BY <1>1 DEF Maps
  <2>2. <<EmptyStore>> \in Seq(Maps) /\ <<EmptyStore>> # <<>>
    BY <2>1
  <2> QED
    BY <2>1, <2>2 DEF Init, TypeOK
<1>3. CacheMirrorsTree /\ WritingInTree
  BY DEF Init, CacheMirrorsTree, WritingInTree
<1>4. ClosedIsDurable
  BY DEF Init, ClosedIsDurable, Agree, EmptyStore
<1> QED
  BY <1>2, <1>3, <1>4 DEF IInv

\* An insert that is applied keeps what every crash leaves of the keys that
\* nobody tried to write.
LEMMA AppliedIsDurable ==
  ASSUME TypeOK, ClosedIsDurable, NEW k \in Keys, NEW v \in Values, Apply(k, v),
         touched' = touched \cup {k}, UNCHANGED closed
  PROVE  ClosedIsDurable'
<1> SUFFICES ASSUME NEW i \in DOMAIN versions', NEW j \in Keys \ touched'
             PROVE  Agree(versions'[i], closed, j)
  BY DEF ClosedIsDurable, Agree, Has
<1>1. j # k /\ j \in Keys \ touched
  OBVIOUS
<1>2. CASE i \in DOMAIN versions /\ versions'[i] = versions[i]
  BY <1>1, <1>2 DEF ClosedIsDurable
<1>3. CASE versions'[i] = Put(Tree, k, v)
  <2>1. Agree(Tree, closed, j)
    BY <1>1, TreeTyped DEF ClosedIsDurable, Tree
  <2> QED
    BY <1>1, <1>3, <2>1, PutElsewhere
<1> QED
  BY <1>2, <1>3, Applied

LEMMA InsertIInv ==
  ASSUME IInv, Idle, NEW k \in Keys, NEW v \in Values, Insert(k, v)
  PROVE  IInv'
<1> USE DEF IInv
<1>1. Apply(k, v)
  BY DEF Insert
<1>2. TypeOK'
  BY <1>1, Applied DEF Insert, TypeOK, Entry
<1>3. CacheMirrorsTree'
  <2> SUFFICES ASSUME NEW j \in Keys \ doubtful, j # k
               PROVE  Agree(cache, Tree', j)
    BY DEF CacheMirrorsTree, Insert, Agree, Has, Nothing
  <2>1. Agree(cache, Tree, j)
    BY DEF CacheMirrorsTree, Idle
  <2>2. Agree(cache, Put(Tree, k, v), j)
    BY <2>1, PutElsewhere
  <2> QED
    BY <1>1, <2>2, Applied
<1>4. ClosedIsDurable'
  BY <1>1, AppliedIsDurable DEF Insert
<1>5. WritingInTree'
  <2>1. writing'[1] = [key |-> k, value |-> v] /\ open' /\ touched' = touched \cup {k}
    BY DEF Insert, Idle
  <2>2. Has(Tree', k) /\ Tree'[k] = v
    BY <1>1, Applied, PutHere
  <2> QED
    BY <2>1, <2>2 DEF WritingInTree
<1> QED
  BY <1>2, <1>3, <1>4, <1>5

LEMMA InsertFailsIInv ==
  ASSUME IInv, Idle, NEW k \in Keys, NEW v \in Values, InsertFails(k, v)
  PROVE  IInv'
<1> USE DEF IInv
<1>1. CASE Apply(k, v)
  <2>1. TypeOK'
    BY <1>1, Applied DEF InsertFails, TypeOK
  <2>2. CacheMirrorsTree'
    <3> SUFFICES ASSUME NEW j \in Keys \ doubtful, j # k
                 PROVE  Agree(cache, Tree', j)
      BY DEF CacheMirrorsTree, InsertFails, Agree, Has
    <3>1. Agree(cache, Tree, j)
      BY DEF CacheMirrorsTree, Idle
    <3>2. Agree(cache, Put(Tree, k, v), j)
      BY <3>1, PutElsewhere
    <3> QED
      BY <1>1, <3>2, Applied
  <2>3. ClosedIsDurable'
    BY <1>1, AppliedIsDurable DEF InsertFails
  <2>4. WritingInTree'
    BY DEF WritingInTree, InsertFails, Idle
  <2> QED
    BY <2>1, <2>2, <2>3, <2>4
<1>2. CASE UNCHANGED versions
  <2>1. TypeOK'
    BY <1>2 DEF InsertFails, TypeOK
  <2>2. CacheMirrorsTree'
    BY <1>2 DEF CacheMirrorsTree, InsertFails, Agree, Has, Tree
  <2>3. ClosedIsDurable'
    BY <1>2 DEF ClosedIsDurable, InsertFails, Agree, Has
  <2>4. WritingInTree'
    BY DEF WritingInTree, InsertFails, Idle
  <2> QED
    BY <2>1, <2>2, <2>3, <2>4
<1> QED
  BY <1>1, <1>2 DEF InsertFails

LEMMA OpenIInv == ASSUME IInv, Open PROVE IInv'
<1> USE DEF IInv
<1>1. TypeOK'
  BY TreeTyped DEF Open, TypeOK
<1>2. CacheMirrorsTree'
  BY DEF CacheMirrorsTree, Open, Agree, Has, Tree
<1>3. ClosedIsDurable'
  BY DEF ClosedIsDurable, Open, Agree, Has
<1>4. WritingInTree'
  BY DEF WritingInTree, Open
<1> QED
  BY <1>1, <1>2, <1>3, <1>4

LEMMA RememberIInv == ASSUME IInv, Remember PROVE IInv'
<1> USE DEF IInv
<1> DEFINE e == writing[1]
<1>1. /\ e \in Entry /\ cache' = Put(cache, e.key, e.value)
      /\ doubtful' = doubtful \ {e.key} /\ writing' = Nothing
      /\ UNCHANGED <<versions, open, closed, touched>>
  BY DEF Remember, TypeOK, Nothing
<1> HIDE DEF e
<1>2. e.key \in Keys /\ e.value \in Values
  BY <1>1 DEF Entry
<1>3. TypeOK'
  BY <1>1, <1>2, PutTyped DEF TypeOK
<1>4. CacheMirrorsTree'
  <2> SUFFICES ASSUME NEW j \in Keys \ doubtful', open
               PROVE  Agree(cache', Tree, j)
    BY <1>1 DEF CacheMirrorsTree, Agree, Has, Tree
  <2>1. CASE j = e.key
    <3>1. Has(Tree, j) /\ Tree[j] = e.value
      BY <2>1 DEF WritingInTree, Remember, e
    <3> QED
      BY <1>1, <2>1, <3>1, PutHere DEF Agree
  <2>2. CASE j # e.key
    <3>1. Agree(cache, Tree, j)
      BY <1>1, <2>2 DEF CacheMirrorsTree, e
    <3> QED
      BY <1>1, <2>2, <3>1, PutElsewhere
  <2> QED
    BY <2>1, <2>2
<1>5. ClosedIsDurable'
  BY <1>1 DEF ClosedIsDurable, Agree, Has
<1>6. WritingInTree'
  BY <1>1 DEF WritingInTree
<1> QED
  BY <1>3, <1>4, <1>5, <1>6

LEMMA CloseIInv == ASSUME IInv, Close PROVE IInv'
<1> USE DEF IInv
<1>1. versions' = <<Tree>> /\ closed' = Tree /\ ~open' /\ writing' = Nothing
  BY DEF Close, Idle
<1>2. TypeOK'
  BY <1>1, TreeTyped, OneVersion DEF Close, TypeOK
<1>3. CacheMirrorsTree' /\ WritingInTree'
  BY <1>1 DEF CacheMirrorsTree, WritingInTree
<1>4. ClosedIsDurable'
  BY <1>1 DEF ClosedIsDurable, Agree
<1> QED
  BY <1>2, <1>3, <1>4

LEMMA FlushSomeIInv ==
  ASSUME IInv, NEW n \in 1..Len(versions), FlushSome(n)
  PROVE  IInv'
<1> USE DEF IInv
<1>1. versions \in Seq(Maps) /\ n \in 2..Len(versions)
  BY DEF TypeOK, FlushSome
<1>2. /\ versions' \in Seq(Maps) /\ versions' # <<>>
      /\ Len(versions') = Len(versions) - n + 1
      /\ \A i \in DOMAIN versions' :
           n + i - 1 \in DOMAIN versions /\ versions'[i] = versions[n + i - 1]
  <2>1. versions' = SubSeq(versions, n, Len(versions))
    BY DEF FlushSome
  <2>2. Len(versions') = Len(versions) - n + 1 /\ versions' \in Seq(Maps)
    BY <1>1, <2>1
  <2>3. \A i \in 1..Len(versions') : versions'[i] = versions[n + i - 1]
    BY <1>1, <2>1
  <2>4. DOMAIN versions' = 1..Len(versions') /\ DOMAIN versions = 1..Len(versions)
    BY <1>1, <2>2
  <2>5. Len(versions) \in Nat /\ \A i \in 1..Len(versions') : n + i - 1 \in 1..Len(versions)
    BY <1>1, <2>2
  <2>6. versions' # <<>>
    BY <1>1, <2>2
  <2> QED
    BY <2>2, <2>3, <2>4, <2>5, <2>6
<1>3. Tree' = Tree
  BY <1>1, <1>2 DEF Tree
<1>4. TypeOK'
  BY <1>2 DEF FlushSome, TypeOK
<1>5. CacheMirrorsTree'
  BY <1>3 DEF CacheMirrorsTree, FlushSome, Agree, Has
<1>6. ClosedIsDurable'
  BY <1>2 DEF ClosedIsDurable, FlushSome, Agree, Has
<1>7. WritingInTree'
  BY <1>3 DEF WritingInTree, FlushSome, Has
<1> QED
  BY <1>4, <1>5, <1>6, <1>7

LEMMA CrashIInv ==
  ASSUME IInv, NEW n \in 1..Len(versions), Crash(n)
  PROVE  IInv'
<1> USE DEF IInv
<1>1. versions \in Seq(Maps) /\ n \in DOMAIN versions /\ versions[n] \in Maps
  BY DEF TypeOK
<1>2. versions' = <<versions[n]>> /\ ~open' /\ writing' = Nothing
  BY DEF Crash
<1>3. TypeOK'
  BY <1>1, <1>2, OneVersion DEF Crash, TypeOK
<1>4. CacheMirrorsTree' /\ WritingInTree'
  BY <1>2 DEF CacheMirrorsTree, WritingInTree
<1>5. ClosedIsDurable'
  BY <1>1, <1>2 DEF ClosedIsDurable, Crash, Agree, Has
<1> QED
  BY <1>3, <1>4, <1>5

LEMMA StepIInv == IInv /\ [Next]_vars => IInv'
<1> SUFFICES ASSUME IInv, [Next]_vars PROVE IInv'
  OBVIOUS
<1>1. ASSUME NEW k \in Keys, NEW v \in Values, Create(k, v) \/ Update(k, v) PROVE IInv'
  BY <1>1, InsertIInv, InsertFailsIInv DEF Create, Update, MayCreate, MayUpdate
<1>2. ASSUME NEW n \in 1..Len(versions), FlushSome(n) \/ Crash(n) PROVE IInv'
  BY <1>2, FlushSomeIInv, CrashIInv
<1>3. CASE UNCHANGED vars
  BY <1>3 DEF vars, IInv, TypeOK, CacheMirrorsTree, ClosedIsDurable, WritingInTree,
     Agree, Has, Tree
<1> QED
  BY <1>1, <1>2, <1>3, OpenIInv, RememberIInv, CloseIInv DEF Next, Refuse

\* The strengthened invariant holds in every reachable state of the store.
THEOREM Inductive == Spec => []IInv
BY InitIInv, StepIInv, PTL DEF Spec

\* While the store is open, a get answers with what sled holds for every key
\* whose last insert did not fail.
THEOREM CacheIsTree == Spec => []CacheMirrorsTree
<1>1. IInv => CacheMirrorsTree
  BY DEF IInv
<1> QED
  BY <1>1, Inductive, PTL

\* What a close reported as stored is found by every later open, however often
\* the process crashed, for each key nobody tried to write since.
THEOREM ClosedSurvives == Spec => []ClosedIsDurable
<1>1. IInv => ClosedIsDurable
  BY DEF IInv
<1> QED
  BY <1>1, Inductive, PTL
=============================================================================
