------------------------------- MODULE Catalog -------------------------------
(***************************************************************************)
(* Runs of the product sync: Shopify's products are fetched page by page,  *)
(* then each is written to Postgres, embedded and put into Qdrant, and one *)
(* COMMIT at the end makes the rows of the run visible.  Qdrant has no     *)
(* transaction: a point is there at once.                                  *)
(*                                                                         *)
(* A flush that fails rolls the whole session back and leaves it "broken": *)
(* every later statement raises, and so does the commit.  A SELECT that    *)
(* fails leaves the transaction "aborted": later statements raise, but the *)
(* commit, a rollback in truth, does not.                                  *)
(***************************************************************************)
EXTENDS Naturals, FiniteSets, Sequences

CONSTANTS
  Products,  \* Shopify ids, numbers
  Offers,    \* what the shop may say of a product: SKU, price, active or not
  Runs,      \* runs of the sync
  PageSize,  \* products of a page (50)
  Limit,     \* products a search returns; it asks Qdrant for three times as many
  Openings,  \* what the shop may hold at first
  Known,     \* the sets of products an earlier run may have stored
  Earlier,   \* that run
  MaxEdits   \* bound on changes of the shop

ASSUME CatalogAssumption ==
  /\ Products \subseteq Nat \ {0} /\ IsFiniteSet(Products)
  /\ \A o \in Offers : o = [sku |-> o.sku, price |-> o.price, live |-> o.live] /\ o.price \in Nat
  /\ Openings \subseteq [Products -> {{}} \cup {{o} : o \in Offers}]
  /\ Known \subseteq SUBSET Products /\ Earlier \notin Runs
  /\ PageSize \in Nat \ {0} /\ Limit \in Nat \ {0} /\ MaxEdits \in Nat

VARIABLES
  shop,     \* the offers of Shopify: none or one for each product
  rows,     \* committed rows: id, Shopify id, offer
  points,   \* Qdrant's points: the row's id and the price in the payload
  pc,       \* what a run does
  since,    \* cursor of the pagination
  fetched,  \* products a run has fetched
  at,       \* position in fetched
  found,    \* the row found for the product in hand, if any
  mine,     \* rows a run has written and not committed
  tx,       \* its session: "open", "aborted" or "broken"
  errors,   \* products it counted as failed
  report,   \* how it ended: "none", "done" or "failed"
  edits,    \* changes of the shop so far
  alone     \* history: runs with no other beside them

run == <<since, fetched, at, found, mine, tx, errors, report>>
world == <<shop, rows, points, edits, alone>>
vars == <<world, pc, run>>

\* A row's id: the primary key is made by the run that inserts it.
Ids == Products \X (Runs \cup {Earlier})

Columns == {"sku", "price", "live"}

Row(i, p, o) == [id |-> i, product |-> p, offer |-> o]

Init ==
  /\ shop \in Openings
  /\ \E known \in Known :
       rows = UNION {{Row(<<p, Earlier>>, p, o) : o \in shop[p]} : p \in known}
  /\ points = {[id |-> c.id, price |-> c.offer.price] : c \in rows}
  /\ pc = [r \in Runs |-> "idle"]
  /\ since = [r \in Runs |-> 0]
  /\ fetched = [r \in Runs |-> <<>>]
  /\ at = [r \in Runs |-> 1]
  /\ found = [r \in Runs |-> {}]
  /\ mine = [r \in Runs |-> {}]
  /\ tx = [r \in Runs |-> "open"]
  /\ errors = [r \in Runs |-> 0]
  /\ report = [r \in Runs |-> "none"]
  /\ edits = 0 /\ alone = Runs

Active(r) == pc[r] \notin {"idle", "over"}

\* Merchants change, add and remove products: any number between two steps of
\* the runs.
Edit ==
  /\ edits < MaxEdits
  /\ shop' \in [Products -> {{}} \cup {{o} : o \in Offers}] \ {shop}
  /\ edits' = edits + 1
  /\ UNCHANGED <<rows, points, alone, pc, run>>

-----------------------------------------------------------------------------
(* Fetching.                                                               *)

Start(r) ==
  /\ pc[r] = "idle"
  /\ pc' = [pc EXCEPT ![r] = "fetch"]
  /\ alone' = IF \E q \in Runs \ {r} : Active(q)
              THEN alone \ ({r} \cup {q \in Runs : Active(q)})
              ELSE alone
  /\ UNCHANGED <<shop, rows, points, edits, run>>

\* The products of a page, in the order of their ids.
IsPage(page, after) ==
  LET rest == {p \in Products : p > after /\ shop[p] # {}}
  IN /\ Len(page) = IF Cardinality(rest) < PageSize THEN Cardinality(rest) ELSE PageSize
     /\ \A i \in DOMAIN page :
          /\ page[i].product \in rest /\ shop[page[i].product] = {page[i].offer}
          /\ Cardinality({p \in rest : p < page[i].product}) = i - 1

Listed == {[product |-> p, offer |-> o] : p \in Products, o \in Offers}

Fetch(r) ==
  /\ pc[r] = "fetch"
  /\ \E n \in 0..PageSize : \E page \in [1..n -> Listed] :
       /\ IsPage(page, since[r])
       /\ fetched' = [fetched EXCEPT ![r] = @ \o page]
       /\ IF n < PageSize
          THEN /\ pc' = [pc EXCEPT ![r] = IF fetched'[r] = <<>> THEN "commit" ELSE "find"]
               /\ UNCHANGED since
          ELSE since' = [since EXCEPT ![r] = page[n].product] /\ UNCHANGED pc
  /\ UNCHANGED <<world, at, found, mine, tx, errors, report>>

\* Shopify answers with an error: nothing is written.
FetchFails(r) ==
  /\ pc[r] = "fetch"
  /\ pc' = [pc EXCEPT ![r] = "over"]
  /\ report' = [report EXCEPT ![r] = "failed"]
  /\ UNCHANGED <<world, since, fetched, at, found, mine, tx, errors>>

-----------------------------------------------------------------------------
(* One product: row, embedding, point.                                     *)

Now(r) == fetched[r][at[r]]

\* On to the next product, or to the commit.
NextProduct(r) ==
  /\ at' = [at EXCEPT ![r] = @ + 1]
  /\ pc' = [pc EXCEPT ![r] = IF at[r] = Len(fetched[r]) THEN "commit" ELSE "find"]
  /\ found' = [found EXCEPT ![r] = {}]

\* Mutant: an error is logged and not counted.
SkipProduct(r) == NextProduct(r) /\ UNCHANGED errors

\* The exception handler of the loop.
CountError(r) ==
  /\ NextProduct(r)
  /\ errors' = [errors EXCEPT ![r] = @ + 1]

\* What a run's SELECT sees: committed rows and its own.
View(r) == {c \in rows : \A m \in mine[r] : m.id # c.id} \cup mine[r]

\* Mutant: the product is looked up by its SKU.
FindBySku(r) ==
  /\ pc[r] = "find" /\ tx[r] = "open"
  /\ found' = [found EXCEPT ![r] = {c \in View(r) : c.offer.sku = Now(r).offer.sku}]
  /\ pc' = [pc EXCEPT ![r] = "flush"]
  /\ UNCHANGED <<world, since, fetched, at, mine, tx, errors, report>>

\* get_by_shopify_id, which takes one row or none.
Find(r) ==
  /\ pc[r] = "find" /\ tx[r] = "open"
  /\ LET same == {c \in View(r) : c.product = Now(r).product}
     IN IF Cardinality(same) > 1
        THEN CountError(r)
        ELSE /\ found' = [found EXCEPT ![r] = same]
             /\ pc' = [pc EXCEPT ![r] = "flush"]
             /\ UNCHANGED <<at, errors>>
  /\ UNCHANGED <<world, since, fetched, mine, tx, report>>

\* The statement fails, now or because the session cannot run any.
FindFails(r) ==
  /\ pc[r] = "find"
  /\ CountError(r)
  /\ tx' = [tx EXCEPT ![r] = IF @ = "open" THEN "aborted" ELSE @]
  /\ mine' = [mine EXCEPT ![r] = {}]
  /\ UNCHANGED <<world, since, fetched, report>>

\* The row to write: the one found, or a new one.
Target(r) == IF found[r] = {} THEN <<Now(r).product, r>> ELSE (CHOOSE c \in found[r] : TRUE).id

\* The columns of the statement: those that differ from what Find read.
Changed(r) == {f \in Columns : \A c \in found[r] : c.offer[f] # Now(r).offer[f]}

\* The row after the statement, which keeps the newest value of the others.
Written(r) ==
  Row(Target(r), Now(r).product,
      [f \in Columns |->
         IF f \in Changed(r) THEN Now(r).offer[f]
         ELSE (CHOOSE c \in View(r) : c.id = Target(r)).offer[f]])

\* Another run's uncommitted rows lock the row, or hold or leave the SKU.
Blocked(r) ==
  \E q \in Runs \ {r} : \E m \in mine[q] :
    \/ m.id = Target(r) /\ Changed(r) # {}
    \/ /\ "sku" \in Changed(r)
       /\ \/ m.offer.sku = Now(r).offer.sku
          \/ \E c \in rows : c.id = m.id /\ c.offer.sku = Now(r).offer.sku

SkuTaken(r) ==
  /\ "sku" \in Changed(r)
  /\ \E c \in View(r) : c.id # Target(r) /\ c.offer.sku = Now(r).offer.sku

\* upsert's flush: an INSERT, an UPDATE of the row found, or nothing at all.
Flush(r) ==
  /\ pc[r] = "flush" /\ ~Blocked(r) /\ ~SkuTaken(r)
  /\ mine' = IF Changed(r) = {} THEN mine
             ELSE [mine EXCEPT ![r] = {m \in @ : m.id # Target(r)} \cup {Written(r)}]
  /\ found' = [found EXCEPT ![r] = {Row(Target(r), Now(r).product, Now(r).offer)}]
  /\ pc' = [pc EXCEPT ![r] = "embed"]
  /\ UNCHANGED <<world, since, fetched, at, tx, errors, report>>

\* Mutant: the rows of the run survive in its session.
FlushFailsKeeping(r) ==
  /\ pc[r] = "flush" /\ ~Blocked(r) /\ SkuTaken(r)
  /\ CountError(r)
  /\ tx' = [tx EXCEPT ![r] = "broken"]
  /\ UNCHANGED <<world, since, fetched, mine, report>>

\* The SKU, which is unique, belongs to another product: what the run wrote
\* before is rolled back with it.
FlushFails(r) ==
  /\ pc[r] = "flush" /\ ~Blocked(r) /\ SkuTaken(r)
  /\ CountError(r)
  /\ tx' = [tx EXCEPT ![r] = "broken"]
  /\ mine' = [mine EXCEPT ![r] = {}]
  /\ UNCHANGED <<world, since, fetched, report>>

\* Mutant: nobody ends a deadlock.
DeadlockStays(r) == FALSE /\ UNCHANGED vars

\* Postgres ends a deadlock of two runs by failing one of them.
Deadlock(r) ==
  /\ pc[r] = "flush" /\ Blocked(r)
  /\ \E q \in Runs \ {r} : pc[q] = "flush" /\ Blocked(q)
  /\ CountError(r)
  /\ tx' = [tx EXCEPT ![r] = "broken"]
  /\ mine' = [mine EXCEPT ![r] = {}]
  /\ UNCHANGED <<world, since, fetched, report>>

Embed(r) ==
  /\ pc[r] = "embed"
  /\ pc' = [pc EXCEPT ![r] = "point"]
  /\ UNCHANGED <<world, run>>

\* Mutant: as the mock catalogue's loader, a failure is a warning.
EmbedSkipped(r) ==
  /\ pc[r] = "embed"
  /\ NextProduct(r)
  /\ UNCHANGED <<world, since, fetched, mine, tx, errors, report>>

\* The row stays in the transaction; the point is not brought up to date.
EmbedFails(r) ==
  /\ pc[r] = "embed"
  /\ CountError(r)
  /\ UNCHANGED <<world, since, fetched, mine, tx, report>>

Put(r) ==
  points' = {v \in points : v.id # Target(r)}
              \cup {[id |-> Target(r), price |-> Now(r).offer.price]}

Upsert(r) ==
  /\ pc[r] = "point"
  /\ Put(r)
  /\ NextProduct(r)
  /\ UNCHANGED <<shop, rows, edits, alone, since, fetched, mine, tx, errors, report>>

\* The call fails, or only its response does.
UpsertFails(r) ==
  /\ pc[r] = "point"
  /\ Put(r) \/ UNCHANGED points
  /\ CountError(r)
  /\ UNCHANGED <<shop, rows, edits, alone, since, fetched, mine, tx, report>>

-----------------------------------------------------------------------------
(* The end of a run.                                                       *)

Commit(r) ==
  /\ pc[r] = "commit"
  /\ rows' = IF tx[r] = "open" THEN View(r) ELSE rows
  /\ report' = [report EXCEPT ![r] = IF tx[r] = "broken" THEN "failed" ELSE "done"]
  /\ pc' = [pc EXCEPT ![r] = "over"]
  /\ mine' = [mine EXCEPT ![r] = {}]
  /\ UNCHANGED <<shop, points, edits, alone, since, fetched, at, found, tx, errors>>

Crash(r) ==
  /\ Active(r)
  /\ pc' = [pc EXCEPT ![r] = "over"]
  /\ report' = [report EXCEPT ![r] = "failed"]
  /\ mine' = [mine EXCEPT ![r] = {}]
  /\ UNCHANGED <<world, since, fetched, at, found, tx, errors>>

Step(r) ==
  \/ Fetch(r) \/ FetchFails(r) \/ Find(r) \/ FindFails(r)
  \/ Flush(r) \/ FlushFails(r) \/ Deadlock(r)
  \/ Embed(r) \/ EmbedFails(r) \/ Upsert(r) \/ UpsertFails(r)
  \/ Commit(r)

Next ==
  \/ Edit
  \/ \E r \in Runs : Start(r) \/ Step(r) \/ Crash(r)

Spec == Init /\ [][Next]_vars

\* Every call has a timeout, and Postgres finds deadlocks.
FairSpec == Spec /\ \A r \in Runs : WF_vars(Step(r))

-----------------------------------------------------------------------------
(* Searching: what Qdrant finds is looked up in Postgres.  A query is       *)
(* low, high: the price range; suited: the rows with the occasion asked     *)
(* for, all if none is; words: for each term the rows that have it; code:   *)
(* the SKU that the text has, if any.                                       *)

Smaller(m, n) == IF m < n THEN m ELSE n

\* The first n of a set, in an order that is not modelled.
Some(n, set) == {s \in SUBSET set : Cardinality(s) = Smaller(n, Cardinality(set))}

InRange(price, q) == price >= q.low /\ price <= q.high

Live == {c \in rows : c.offer.live}

\* _filter_products.
Fit(q) == {c \in Live : InRange(c.offer.price, q) /\ c \in q.suited}

\* Qdrant's hits within the price range, looked up: get_by_ids takes active
\* rows only, and the filter compares the price again.  Or the search fails.
Semantic(q) ==
  LET fit == Fit(q)
  IN  {{c \in fit : \E v \in hits : v.id = c.id} :
         hits \in Some(3 * Limit, {v \in points : InRange(v.price, q)})} \cup {{}}

\* The active rows that have a term of the query, read term by term; the filter
\* comes after the limit.
Fallback(q) ==
  LET fit == Fit(q)
      picks == {f \in [q.words -> SUBSET UNION q.words] :
                  \A w \in q.words : f[w] \in Some(3 * Limit, w)}
  IN  {fit \cap UNION {f[w] : w \in q.words} : f \in picks}

\* get_by_sku.
Named(q) == {c \in Live : c.offer.sku \in q.code}

\* Mutant: the fallback is for an index without hits.
SearchEmptyIndex(q) ==
  IF Named(q) # {} THEN {{c} : c \in Named(q)}
  ELSE UNION {Some(Limit, m) :
         m \in IF \E v \in points : InRange(v.price, q) THEN Semantic(q) ELSE Fallback(q)}

\* find_products: the product with the SKU, whatever else was asked for; or the
\* semantic matches, and the fallback when there are none.
Search(q) ==
  IF Named(q) # {} THEN {{c} : c \in Named(q)}
  ELSE UNION {Some(Limit, m) :
         m \in (Semantic(q) \ {{}}) \cup Fallback(q)}

-----------------------------------------------------------------------------
(* Properties.                                                             *)

Labels == {"idle", "fetch", "find", "flush", "embed", "point", "commit", "over"}

\* Two runs that overlap may each write some columns of a row.
Mixed == [sku : {o.sku : o \in Offers}, price : {o.price : o \in Offers},
          live : {o.live : o \in Offers}]

Rows == [id : Ids, product : Products, offer : Mixed]

TypeOK ==
  /\ shop \in [Products -> SUBSET Offers]
  /\ rows \subseteq Rows
  /\ points \subseteq [id : Ids, price : Nat]
  /\ pc \in [Runs -> Labels]
  /\ since \in [Runs -> Products \cup {0}]
  /\ fetched \in [Runs -> Seq(Listed)]
  /\ at \in [Runs -> Nat] /\ \A r \in Runs : at[r] \in 1..(Len(fetched[r]) + 1)
  /\ found \in [Runs -> SUBSET Rows] /\ mine \in [Runs -> SUBSET Rows]
  /\ tx \in [Runs -> {"open", "aborted", "broken"}]
  /\ \A r \in Runs : tx[r] # "open" \/ pc[r] = "over" => mine[r] = {}
  /\ errors \in [Runs -> Nat] /\ \A r \in Runs : errors[r] < at[r]
  /\ report \in [Runs -> {"none", "done", "failed"}]
  /\ alone \subseteq Runs /\ edits \in 0..MaxEdits

\* What a run without errors and without another beside it reports is so: the
\* moment it commits, each product it fetched has a row with what it fetched,
\* one, and a point with its price.
CleanRunMirrors ==
  [][\A r \in alone : report[r] = "none" /\ report'[r] = "done" /\ errors[r] = 0 =>
       \A i \in DOMAIN fetched[r] :
         \E c \in rows' :
           /\ {d \in rows' : d.product = fetched[r][i].product} = {c}
           /\ c.offer = fetched[r][i].offer
           /\ [id |-> c.id, price |-> c.offer.price] \in points']_vars

\* upsert is "keyed by (store_id, shopify_id)" (product_repo.py:150) though no
\* constraint is: a product has two rows only after runs that overlapped.
OneRowEach ==
  alone = Runs => \A c, d \in rows : c.product = d.product => c = d

\* A point without a row was left by the run that would have made the row, and
\* that run failed or reported an error.
OrphansReported ==
  \A v \in points :
    \/ \E c \in rows : c.id = v.id
    \/ \E r \in Runs :
         v.id[2] = r /\ (Active(r) \/ report[r] = "failed" \/ errors[r] > 0)

\* Queries are about all live rows, one or none.
Topics == {Live, {}} \cup {{c} : c \in Live}

\* One term, or a term for each row; its rows need not be those that suit the
\* occasion, which is a term too, as the columns are compared with the word in
\* lower case.  A SKU comes with an occasion that nothing suits.
Queries ==
  {q \in [low : {o.price : o \in Offers}, high : {o.price : o \in Offers}, suited : Topics,
          words : {{w} : w \in Topics \ {{}}} \cup {{{c} : c \in Live}},
          code : {{}} \cup {{c.offer.sku} : c \in rows}] :
     q.low <= q.high /\ (q.code = {} \/ q.suited = {})}

\* Whatever is stale, orphaned or missing in Qdrant, a search offers what is
\* active in Postgres now.  A SKU in the text brings its product alone, even
\* outside of the price range or for another occasion.  Otherwise all that is
\* offered is in the range and suits the occasion, and something is when such a
\* product has a term of the query: unless more products have the term than the
\* fallback reads before it filters.
SearchFinds ==
  \A q \in Queries : \A m \in Search(q) :
    /\ m \subseteq Live /\ Cardinality(m) <= Limit
    /\ IF Named(q) # {}
       THEN \E c \in Named(q) : m = {c}
       ELSE /\ m \subseteq Fit(q)
            /\ m = {} => \A w \in q.words : w \cap Fit(q) = {} \/ Cardinality(w) > 3 * Limit

\* Every run ends: one waits for another's rows only until that one is done,
\* and two that wait for each other are not left to it.
RunsEnd == \A r \in Runs : pc[r] = "fetch" ~> pc[r] = "over"
=============================================================================
