----------------------------- MODULE MCClients -----------------------------
(* An instance of Clients for TLC.                                         *)
EXTENDS Clients, TLC

CONSTANTS hot, cold, mug, tea

Product(id, tags, title, tagged, described) ==
  [id |-> id, tags |-> tags, title |-> title, tagged |-> tagged, described |-> described]

\* Four products on pages of three; one is priced in another currency, two
\* together are beyond the cap, the last is beyond the first page.  A client may
\* also name a fifth one.
MCProducts ==
  <<Product(1, {hot}, <<>>, {tea}, {mug}),
    Product(2, {cold}, [q \in {tea} |-> 4], {}, {mug}),
    Product(3, {hot, cold}, [q \in {tea} |-> 0], {mug}, {}),
    Product(4, {hot}, <<>>, {}, {tea})>>
MCPrice == <<1, None, 2, 1>>

MCQueries ==
  [tag : {None, hot, cold}, search : {None, tea, mug}, limit : {None, 0, 1, 2, 9}]
=============================================================================
