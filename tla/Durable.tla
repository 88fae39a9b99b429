------------------------------ MODULE Durable ------------------------------
(***************************************************************************)
(* SledStore (aiter-core/src/store.rs): the store that survives restarts.  *)
(*                                                                         *)
(* A mutation checks the in-memory cache, writes to sled and then to the   *)
(* cache; `new` loads the cache from sled, `close` flushes it.  `&mut      *)
(* self` keeps other callers out, so that only a crash can come between    *)
(* the two writes.                                                         *)
(*                                                                         *)
(* sled is external.  It applies an insert to its tree at once and takes   *)
(* the log of what was applied to the disk in that order, at a flush or    *)
(* on its own account; whatever of it is on the disk when the process dies *)
(* is what a later open finds.  So `versions` holds the tree as a crash    *)
(* may leave it, the durable one first and the current one last.  An       *)
(* insert that fails may have been applied or not.                         *)
(***************************************************************************)
EXTENDS Store, Naturals, Sequences

CONSTANTS
  Keys, Values,
  MaxLag       \* bound: versions that are not on the disk yet

ASSUME MaxLagAssumption == MaxLag \in Nat

VARIABLES
  versions,    \* sled: the trees a crash may leave, oldest first
  cache,       \* SledStore.cache
  open,        \* whether the process has the store open
  writing,     \* the insert whose cache entry is still to be made
  doubtful,    \* history: keys with a failed insert since the store was opened
  closed,      \* history: what was stored at the last successful close
  touched      \* history: keys an insert was tried for since that close

vars == <<versions, cache, open, writing, doubtful, closed, touched>>

Maps    == UNION {[ks -> Values] : ks \in SUBSET Keys}
Entry   == [key : Keys, value : Values]
Nothing == <<>>

Tree    == versions[Len(versions)]
Idle    == open /\ writing = Nothing

\* The tree once k holds v; what was there before may be what a crash leaves.
Apply(k, v) ==
  /\ Len(versions) <= MaxLag
  /\ versions' = Append(versions, Put(Tree, k, v))
-----------------------------------------------------------------------------
(* SledStore                                                               *)

\* new: all entries are loaded.
Open ==
  /\ ~open
  /\ open' = TRUE
  /\ cache' = Tree
  /\ doubtful' = {}
  /\ UNCHANGED <<versions, writing, closed, touched>>

\* create and update, past their check, up to the insert.
Insert(k, v) ==
  /\ Apply(k, v)
  /\ writing' = <<[key |-> k, value |-> v]>>
  /\ touched' = touched \cup {k}
  /\ UNCHANGED <<cache, open, doubtful, closed>>

\* sled fails, before or after it has applied the insert.
InsertFails(k, v) ==
  /\ Apply(k, v) \/ UNCHANGED versions
  /\ doubtful' = doubtful \cup {k}
  /\ touched' = touched \cup {k}
  /\ UNCHANGED <<cache, open, writing, closed>>

MayCreate(k) == Idle /\ CanCreate(cache, k)
MayUpdate(k) == Idle /\ CanUpdate(cache, k)

Create(k, v) == MayCreate(k) /\ (Insert(k, v) \/ InsertFails(k, v))
Update(k, v) == MayUpdate(k) /\ (Insert(k, v) \/ InsertFails(k, v))

\* AlreadyExists, NotFound, an entry that serde cannot read or write: nothing
\* changes, and a store that could not be loaded stays closed.
Refuse == writing = Nothing /\ UNCHANGED vars

\* Mutant: an update does not reach the cache.
RememberFirst ==
  /\ open /\ writing # Nothing
  /\ LET e == writing[1]
     IN  /\ cache' = IF Has(cache, e.key) THEN cache ELSE Put(cache, e.key, e.value)
         /\ doubtful' = doubtful \ {e.key}
  /\ writing' = Nothing
  /\ UNCHANGED <<versions, open, closed, touched>>

\* The cache follows and the caller is told.
Remember ==
  /\ open /\ writing # Nothing
  /\ LET e == writing[1]
     IN  /\ cache' = Put(cache, e.key, e.value)
         /\ doubtful' = doubtful \ {e.key}
  /\ writing' = Nothing
  /\ UNCHANGED <<versions, open, closed, touched>>

\* Mutant: close does not flush.
CloseUnflushed ==
  /\ Idle
  /\ open' = FALSE
  /\ closed' = Tree /\ touched' = {}
  /\ UNCHANGED <<versions, cache, writing, doubtful>>

\* close: the flush succeeds.
Close ==
  /\ Idle
  /\ open' = FALSE
  /\ versions' = <<Tree>>
  /\ closed' = Tree /\ touched' = {}
  /\ UNCHANGED <<cache, writing, doubtful>>
-----------------------------------------------------------------------------
(* sled and the operating system                                           *)

\* The older versions are superseded on the disk.
FlushSome(n) ==
  /\ n \in 2..Len(versions)
  /\ versions' = SubSeq(versions, n, Len(versions))
  /\ UNCHANGED <<cache, open, writing, doubtful, closed, touched>>

\* The process dies, or drops the store after a flush that failed.
Crash(n) ==
  /\ open
  /\ n \in 1..Len(versions)
  /\ versions' = <<versions[n]>>
  /\ open' = FALSE
  /\ writing' = Nothing
  /\ UNCHANGED <<cache, doubtful, closed, touched>>

Init ==
  /\ versions = <<EmptyStore>>
  /\ cache = EmptyStore
  /\ open = FALSE
  /\ writing = Nothing
  /\ doubtful = {}
  /\ closed = EmptyStore
  /\ touched = {}

Next ==
  \/ Open
  \/ \E k \in Keys, v \in Values : Create(k, v) \/ Update(k, v)
  \/ Refuse
  \/ Remember
  \/ Close
  \/ \E n \in 1..Len(versions) : FlushSome(n) \/ Crash(n)

Spec == Init /\ [][Next]_vars
-----------------------------------------------------------------------------
(* Properties                                                              *)

\* Every variable stays in its type.
TypeOK ==
  /\ versions \in Seq(Maps) /\ versions # <<>>
  /\ cache \in Maps
  /\ open \in BOOLEAN
  /\ writing \in {Nothing} \cup {<<e>> : e \in Entry}
  /\ doubtful \subseteq Keys
  /\ closed \in Maps
  /\ touched \subseteq Keys

Agree(m, n, k) ==
  /\ Has(m, k) <=> Has(n, k)
  /\ Has(m, k) => m[k] = n[k]

\* store.rs:127: "every mutation hits `db` first, then this cache".  While the
\* store is open, `get` answers with what sled holds, for every key but those
\* with a failed insert (nothing says whether sled applied it) and the one
\* being written.
CacheMirrorsTree ==
  open =>
    \A k \in Keys \ doubtful :
      \/ writing # Nothing /\ writing[1].key = k
      \/ Agree(cache, Tree, k)

\* store.rs:151: after close "the store can be reopened at the same path with
\* all data intact".  Whenever the process crashes afterwards, whatever was
\* written and lost since, a key nobody tried to write is found as it was at
\* the last successful close.
ClosedIsDurable ==
  \A i \in DOMAIN versions : \A k \in Keys \ touched : Agree(versions[i], closed, k)
-----------------------------------------------------------------------------
(* The inductive invariant                                                 *)

\* Only an open store is being written, and the key it is written for has
\* the new value in the tree already.
WritingInTree ==
  writing # Nothing =>
    LET e == writing[1]
    IN  open /\ e.key \in touched /\ Has(Tree, e.key) /\ Tree[e.key] = e.value

IInv == TypeOK /\ CacheMirrorsTree /\ ClosedIsDurable /\ WritingInTree
=============================================================================
