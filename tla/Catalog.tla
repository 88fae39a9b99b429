------------------------------ MODULE Catalog ------------------------------
(***************************************************************************)
(* The catalog feed (aiter-server/src/catalog.rs): which products a page   *)
(* shows, in which order, and whether there are more.                      *)
(*                                                                         *)
(* Letter case is left out.  Of its texts a product record keeps what a    *)
(* filter or a keyword can find: its tags, the keywords its title contains *)
(* with the place where, and those one of its tags or its description      *)
(* contains.                                                               *)
(***************************************************************************)
EXTENDS Naturals, Sequences, FiniteSets, SequencesExt, FiniteSetsExt

CONSTANTS
  None,           \* a query parameter that is not given
  Products,       \* the served products, by ascending id
  DefaultLimit,   \* DEFAULT_PAGE_LIMIT (25)
  MaxLimit        \* MAX_PAGE_LIMIT (100)

ASSUME ProductsAssumption ==
  /\ Products \in Seq(Range(Products))
  /\ \A p \in Range(Products) :
       p.id \in Nat /\ \A q \in DOMAIN p.title : p.title[q] \in Nat
  /\ \A i, j \in DOMAIN Products : i < j => Products[i].id < Products[j].id
ASSUME LimitsAssumption == MaxLimit \in Nat /\ DefaultLimit \in 1..MaxLimit

\* No title is so long that a match at its end ranks like a tag.
ShortTitles ==
  \A p \in Range(Products) : \A q \in DOMAIN p.title : p.title[q] < 99000

Served == {Products[i].id : i \in DOMAIN Products}

\* search_rank: 0 for no match.
SearchRank(p, q) ==
  IF q \in DOMAIN p.title THEN 100000 - p.title[q]
  ELSE IF q \in p.tagged THEN 1000
  ELSE IF q \in p.described THEN 100
  ELSE 0

Matches(p, query) ==
  /\ query.tag # None => query.tag \in p.tags
  /\ query.search # None => SearchRank(p, query.search) > 0

\* Whether the feed shows p before q: by rank first when there is a keyword,
\* then by id.
Before(p, q, query) ==
  LET rank(product) == IF query.search = None THEN 0
                       ELSE SearchRank(product, query.search)
  IN  rank(p) > rank(q) \/ (rank(p) = rank(q) /\ p.id < q.id)

Hits(query) == {p \in Range(Products) : Matches(p, query)}

\* All products the query finds, in the order of the feed: each has as many
\* others before it as its place says.
Place(p, query) == Cardinality({q \in Hits(query) : Before(q, p, query)}) + 1
Found(query) ==
  [n \in 1..Cardinality(Hits(query)) |-> CHOOSE p \in Hits(query) : Place(p, query) = n]

LimitOf(query) == IF query.limit = None THEN DefaultLimit ELSE Min({query.limit, MaxLimit})

\* Mutant: has_more goes by the limit that was asked for, not by the page.
ListUncapped(query, offset) ==
  LET found == Found(query)
      page  == SubSeq(found, offset + 1, Min({offset + LimitOf(query), Len(found)}))
  IN  [items    |-> [i \in DOMAIN page |-> page[i].id],
       total    |-> Len(found),
       has_more |-> query.limit # None /\ offset + query.limit < Len(found)]

\* list_products: one page, and whether to go on.
ListProducts(query, offset) ==
  LET found == Found(query)
      page  == SubSeq(found, offset + 1, Min({offset + LimitOf(query), Len(found)}))
  IN  [items    |-> [i \in DOMAIN page |-> page[i].id],
       total    |-> Len(found),
       has_more |-> offset + Len(page) < Len(found)]

AnyQuery == [tag |-> None, search |-> None, limit |-> None]

\* What is listed when nothing is asked for.
FirstPage == ListProducts(AnyQuery, 0)
=============================================================================
