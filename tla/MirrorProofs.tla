----------------------------- MODULE MirrorProofs -----------------------------
(***************************************************************************)
(* The two promises of Catalog that speak of whole tables, for any         *)
(* products, offers, page size, limit and number of runs: a run that was   *)
(* alone and counted no error leaves the shop's image behind               *)
(* (CleanRunMirrors), and a search finds what is there (SearchFinds).      *)
(***************************************************************************)
EXTENDS CatalogProofs, FiniteSetTheorems

\* The tables are finite, and the products of the shop's pages are distinct and
\* come in the order of the cursor.
Finite ==
  /\ IsFiniteSet(rows) /\ IsFiniteSet(points)
  /\ \A r \in Runs : IsFiniteSet(mine[r])

Pages ==
  \A r \in Runs :
    /\ \A i, j \in 1..Len(fetched[r]) :
         fetched[r][i].product = fetched[r][j].product => i = j
    /\ pc[r] = "idle" => fetched[r] = <<>>
    /\ pc[r] = "fetch" =>
         \A i \in 1..Len(fetched[r]) : fetched[r][i].product <= since[r]
    /\ pc[r] = "commit" => at[r] = Len(fetched[r]) + 1

\* A row's id names its product.
IdNames ==
  /\ \A c \in rows : c.id[1] = c.product
  /\ \A r \in Runs :
       /\ \A c \in mine[r] : c.id[1] = c.product
       /\ pc[r] \in {"flush", "embed", "point"} =>
            \A c \in found[r] : c.product = Now(r).product /\ c.id[1] = c.product

\* One row of the product, as the shop had it.
RowFor(r, listed, c) ==
  /\ {d \in View(r) : d.product = listed.product} = {c}
  /\ c.offer = listed.offer

Mirrored(r, i) ==
  \E c : /\ RowFor(r, fetched[r][i], c)
         /\ [id |-> c.id, price |-> c.offer.price] \in points

\* The products a run has behind it, and the one in hand.
Behind(r) == \A i \in 1..(at[r] - 1) : Mirrored(r, i)

InWork(r) ==
  /\ pc[r] = "flush" =>
       /\ found[r] = {c \in View(r) : c.product = Now(r).product}
       /\ \A c, d \in found[r] : c = d
  /\ pc[r] \in {"embed", "point"} => \E c : RowFor(r, Now(r), c) /\ c.id = Target(r)

\* A run that is alone: the others are not at work; and as long as it has
\* counted no error, the products behind it are mirrored, and the one in hand
\* is as far as its program counter says.
Clean(r) ==
  r \in alone /\ Active(r) =>
    /\ \A q \in Runs \ {r} : ~Active(q)
    /\ errors[r] = 0 => Behind(r) /\ InWork(r)

MirrorInv == Finite /\ Pages /\ IdNames /\ \A r \in Runs : Clean(r)

-----------------------------------------------------------------------------
(* What a step of a run may change.                                        *)

LEMMA Effects ==
  ASSUME TypeInv, Ledger, NEW r \in Runs, Start(r) \/ Step(r) \/ Crash(r)
  PROVE  /\ \A q \in Runs \ {r} :
              /\ pc'[q] = pc[q] /\ since'[q] = since[q] /\ fetched'[q] = fetched[q]
              /\ at'[q] = at[q] /\ found'[q] = found[q] /\ mine'[q] = mine[q]
              /\ errors'[q] = errors[q] /\ report'[q] = report[q]
         /\ rows' = rows \/ (Commit(r) /\ tx[r] = "open" /\ rows' = View(r))
         /\ points' = points \/ (pc[r] = "point" /\ Put(r))
         /\ mine'[r] \in {mine[r], {}} \/ (Flush(r) /\ Changed(r) # {})
<1>1. CASE Start(r)
  BY <1>1 DEF Start, run, TypeInv, TypeOK
<1>2. CASE Fetch(r)
  BY <1>2 DEF Fetch, world, TypeInv, TypeOK
<1>3. CASE FetchFails(r) \/ Embed(r) \/ Crash(r)
  BY <1>3 DEF FetchFails, Embed, Crash, world, run, TypeInv, TypeOK
<1>4. CASE Find(r)
  BY <1>4 DEF Find, CountError, NextProduct, world, TypeInv, TypeOK
<1>5. CASE Failure(r)
  BY <1>5 DEF Failure, CountError, NextProduct, TypeInv, TypeOK
<1>6. CASE Flush(r)
  BY <1>6 DEF Flush, world, TypeInv, TypeOK
<1>7. CASE Upsert(r)
  BY <1>7 DEF Upsert, NextProduct, TypeInv, TypeOK
<1>8. CASE Commit(r)
  BY <1>8 DEF Commit, TypeInv, TypeOK
<1> QED
  BY <1>1, <1>2, <1>3, <1>4, <1>5, <1>6, <1>7, <1>8, Failures DEF Step

LEMMA FlushedRows ==
  ASSUME TypeInv, NEW r \in Runs, Flush(r), Changed(r) # {}
  PROVE  mine'[r] = {m \in mine[r] : m.id # Target(r)} \cup {Written(r)}
BY DEF Flush, TypeInv, TypeOK

-----------------------------------------------------------------------------
(* Finite tables.                                                          *)

LEMMA ImageFinite ==
  ASSUME NEW S, NEW T, IsFiniteSet(S), NEW f \in [S -> T], \A t \in T : \E s \in S : f[s] = t
  PROVE  IsFiniteSet(T)
<1>1. f \in Surjection(S, T)
  BY DEF Surjection
<1> QED
  BY <1>1, FS_Surjection

LEMMA InitRows ==
  ASSUME Init
  PROVE  /\ \A c \in rows : c.product \in Products /\ c.id = <<c.product, Earlier>>
         /\ \A c, d \in rows : c.product = d.product => c = d
<1>1. PICK known \in Known : rows = UNION {{Row(<<p, Earlier>>, p, o) : o \in shop[p]} : p \in known}
  BY DEF Init
<1>2. \A c \in rows : \E p \in known : \E o \in shop[p] : c = Row(<<p, Earlier>>, p, o)
  BY <1>1
<1>3. \A p \in Products : \A o1, o2 \in shop[p] : o1 = o2
  <2>1. shop \in [Products -> {{}} \cup {{o} : o \in Offers}]
    BY CatalogAssumption DEF Init
  <2>2. ASSUME NEW p \in Products
        PROVE  shop[p] = {} \/ \E o \in Offers : shop[p] = {o}
    BY <2>1
  <2> QED
    BY <2>2
<1>4. known \subseteq Products
  BY CatalogAssumption
<1> QED
  BY <1>2, <1>3, <1>4 DEF Row

LEMMA FiniteInit == Init => Finite
<1> SUFFICES ASSUME Init PROVE Finite
  OBVIOUS
<1>1. IsFiniteSet(rows)
  <2> DEFINE product == [c \in rows |-> c.product]
  <2>1. product \in Injection(rows, Products)
    <3>1. product \in [rows -> Products]
      BY InitRows
    <3>2. \A c, d \in DOMAIN product : product[c] = product[d] => c = d
      BY InitRows
    <3> QED
      BY <3>1, <3>2 DEF Injection, IsInjective
  <2> QED
    BY <2>1, FS_Injection, CatalogAssumption
<1>2. IsFiniteSet(points)
  <2> DEFINE point == [c \in rows |-> [id |-> c.id, price |-> c.offer.price]]
  <2>1. points = {[id |-> c.id, price |-> c.offer.price] : c \in rows}
    BY DEF Init
  <2>2. point \in [rows -> points] /\ \A v \in points : \E c \in rows : point[c] = v
    BY <2>1
  <2> HIDE DEF point
  <2> QED
    BY <1>1, <2>2, ImageFinite
<1>3. \A r \in Runs : IsFiniteSet(mine[r])
  BY FS_EmptySet DEF Init
<1> QED
  BY <1>1, <1>2, <1>3 DEF Finite

LEMMA ViewFinite ==
  ASSUME Finite, NEW r \in Runs
  PROVE  IsFiniteSet(View(r))
<1>1. IsFiniteSet(rows \cup mine[r])
  BY FS_Union DEF Finite
<1>2. View(r) \in SUBSET (rows \cup mine[r])
  BY DEF View
<1> QED
  BY <1>1, <1>2, FS_Subset

LEMMA FiniteStep ==
  ASSUME TypeInv, Ledger, Finite, [Next]_vars
  PROVE  Finite'
<1>1. CASE Edit \/ UNCHANGED vars
  BY <1>1 DEF Edit, vars, world, run, Finite
<1> SUFFICES ASSUME NEW r \in Runs, Start(r) \/ Step(r) \/ Crash(r)
             PROVE  Finite'
  BY <1>1 DEF Next
<1>2. IsFiniteSet(rows')
  BY Effects, ViewFinite DEF Finite
<1>3. IsFiniteSet(points')
  <2>1. CASE Put(r)
    <3> DEFINE kept == {v \in points : v.id # Target(r)}
    <3>1. IsFiniteSet(kept)
      BY FS_Subset DEF Finite
    <3>2. IsFiniteSet(kept \cup {[id |-> Target(r), price |-> Now(r).offer.price]})
      BY <3>1, FS_AddElement
    <3> QED
      BY <2>1, <3>2 DEF Put
  <2> QED
    BY <2>1, Effects DEF Finite
<1>4. IsFiniteSet(mine'[r])
  <2>1. CASE mine'[r] \in {mine[r], {}}
    BY <2>1, FS_EmptySet DEF Finite
  <2>2. CASE Flush(r) /\ Changed(r) # {}
    <3> DEFINE kept == {m \in mine[r] : m.id # Target(r)}
    <3>1. IsFiniteSet(kept)
      BY FS_Subset DEF Finite
    <3> QED
      BY <2>2, <3>1, FlushedRows, FS_AddElement
  <2> QED
    BY <2>1, <2>2, Effects
<1> QED
  BY <1>2, <1>3, <1>4, Effects DEF Finite

-----------------------------------------------------------------------------
(* Pages.                                                                  *)

\* The products of a page are distinct, after the cursor, and none is beyond
\* the last.
LEMMA PageOrder ==
  ASSUME NEW n \in Nat, NEW page \in [1..n -> Listed], NEW after, IsPage(page, after)
  PROVE  /\ \A i \in 1..n : page[i].product > after
         /\ \A i, j \in 1..n : page[i].product = page[j].product => i = j
         /\ \A i \in 1..n : page[i].product <= page[n].product
<1> DEFINE rest == {p \in Products : p > after /\ shop[p] # {}}
           below(x) == {p \in rest : p < x}
<1>1. \A i \in 1..n : page[i].product \in rest /\ Cardinality(below(page[i].product)) = i - 1
  BY DEF IsPage
<1>2. \A x : IsFiniteSet(below(x))
  BY FS_Subset, CatalogAssumption
<1>3. \A x \in rest : x \in Nat
  BY CatalogAssumption
<1>4. ASSUME NEW i \in 1..n PROVE page[i].product <= page[n].product
  <2> DEFINE x == page[i].product
             y == page[n].product
  <2>0. n \in 1..n
    OBVIOUS
  <2>1. n \in 1..n /\ x \in rest /\ y \in rest
    BY <1>1, <2>0
  <2>2. CASE y < x
    <3>1. below(y) \cup {y} \in SUBSET below(x)
      BY <1>3, <2>1, <2>2
    <3>2. Cardinality(below(y) \cup {y}) = Cardinality(below(y)) + 1
      <4>1. y \notin below(y)
        BY <1>3, <2>1
      <4> QED
        BY <1>2, <4>1, FS_AddElement
    <3>3. Cardinality(below(y) \cup {y}) <= Cardinality(below(x))
      BY <1>2, <3>1, FS_Subset
    <3>4. Cardinality(below(y)) = n - 1 /\ Cardinality(below(x)) = i - 1
      BY <1>1, <2>1
    <3> QED
      BY <3>2, <3>3, <3>4
  <2>3. CASE ~(y < x)
    BY <1>3, <2>1, <2>3
  <2> QED
    BY <2>2, <2>3
<1>5. ASSUME NEW i \in 1..n, NEW j \in 1..n, page[i].product = page[j].product
      PROVE  i = j
  <2>1. i - 1 = j - 1
    BY <1>1, <1>5
  <2> QED
    BY <2>1
<1> QED
  BY <1>1, <1>4, <1>5

LEMMA PagesInit == Init => Pages
BY DEF Init, Pages

LEMMA FetchPages ==
  ASSUME TypeInv, Pages, NEW r \in Runs, Fetch(r)
  PROVE  /\ \A i, j \in 1..Len(fetched'[r]) :
              fetched'[r][i].product = fetched'[r][j].product => i = j
         /\ pc'[r] = "fetch" =>
              \A i \in 1..Len(fetched'[r]) : fetched'[r][i].product <= since'[r]
         /\ pc'[r] = "commit" => at'[r] = Len(fetched'[r]) + 1
         /\ pc'[r] \in {"fetch", "find", "commit"}
<1>1. PICK n \in 0..PageSize : \E page \in [1..n -> Listed] :
        /\ IsPage(page, since[r])
        /\ fetched' = [fetched EXCEPT ![r] = @ \o page]
        /\ IF n < PageSize
           THEN /\ pc' = [pc EXCEPT ![r] = IF fetched'[r] = <<>> THEN "commit" ELSE "find"]
                /\ UNCHANGED since
           ELSE since' = [since EXCEPT ![r] = page[n].product] /\ UNCHANGED pc
  BY DEF Fetch
<1>2. PICK page \in [1..n -> Listed] :
        /\ IsPage(page, since[r])
        /\ fetched' = [fetched EXCEPT ![r] = @ \o page]
        /\ IF n < PageSize
           THEN /\ pc' = [pc EXCEPT ![r] = IF fetched'[r] = <<>> THEN "commit" ELSE "find"]
                /\ UNCHANGED since
           ELSE since' = [since EXCEPT ![r] = page[n].product] /\ UNCHANGED pc
  BY <1>1
<1>3. /\ n \in Nat /\ page \in Seq(Listed) /\ Len(page) = n
      /\ fetched[r] \in Seq(Listed) /\ Len(fetched[r]) \in Nat
  <2>1. n \in Nat
    BY CatalogAssumption
  <2>2. page \in Seq(Listed) /\ Len(page) = n
    BY <2>1
  <2>3. fetched[r] \in Seq(Listed)
    BY DEF TypeInv, TypeOK
  <2> QED
    BY <2>1, <2>2, <2>3
<1> DEFINE old == fetched[r]
           k == Len(old)
           new == old \o page
<1>4. /\ Len(new) = k + n
      /\ \A i \in 1..(k + n) : new[i] = IF i <= k THEN old[i] ELSE page[i - k]
  BY <1>3
<1>5. fetched'[r] = new /\ new \in Seq(Listed)
  BY <1>2, <1>3 DEF TypeInv, TypeOK
<1>6. pc[r] = "fetch" /\ at' = at /\ at[r] = 1
  BY DEF Fetch, TypeInv, Position
<1>7. /\ \A i \in 1..k : old[i].product <= since[r]
      /\ \A i, j \in 1..k : old[i].product = old[j].product => i = j
  BY <1>6 DEF Pages
<1>8. /\ \A i \in 1..n : page[i].product > since[r]
      /\ \A i, j \in 1..n : page[i].product = page[j].product => i = j
      /\ \A i \in 1..n : page[i].product <= page[n].product
  BY <1>2, <1>3, PageOrder
<1>9. /\ \A i \in 1..k : old[i].product \in Nat
      /\ \A i \in 1..n : page[i].product \in Nat
      /\ since[r] \in Nat
  <2>1. \A x \in Listed : x.product \in Nat
    BY CatalogAssumption DEF Listed
  <2>2. /\ \A i \in 1..k : old[i] \in Listed
        /\ \A i \in 1..n : page[i] \in Listed
    BY <1>3
  <2>3. since[r] \in Nat
    <3>1. since[r] \in Products \cup {0}
      BY DEF TypeInv, TypeOK
    <3> QED
      BY <3>1, CatalogAssumption
  <2>4. /\ \A i \in 1..k : old[i].product \in Nat
        /\ \A i \in 1..n : page[i].product \in Nat
    <3>1. ASSUME NEW i \in 1..k PROVE old[i].product \in Nat
      BY <2>1, <2>2
    <3>2. ASSUME NEW i \in 1..n PROVE page[i].product \in Nat
      BY <2>1, <2>2
    <3> QED
      BY <3>1, <3>2
  <2> QED
    BY <2>3, <2>4, Zenon
<1>10. ASSUME NEW i \in 1..(k + n), NEW j \in 1..(k + n), new[i].product = new[j].product
       PROVE  i = j
  <2>0. ASSUME NEW a \in 1..k, NEW b \in 1..n PROVE old[a].product # page[b].product
    <3>1. old[a].product <= since[r] /\ page[b].product > since[r]
      BY <1>7, <1>8
    <3>2. old[a].product \in Nat /\ page[b].product \in Nat /\ since[r] \in Nat
      BY <1>9
    <3> QED
      BY <3>1, <3>2
  <2>1. CASE i <= k /\ j <= k
    <3>1. i \in 1..k /\ j \in 1..k
      BY <1>3, <2>1
    <3> QED
      BY <1>4, <1>7, <1>10, <2>1, <3>1
  <2>2. CASE ~(i <= k) /\ ~(j <= k)
    <3>1. i - k \in 1..n /\ j - k \in 1..n
      BY <1>3, <2>2
    <3>2. i - k = j - k
      BY <1>4, <1>8, <1>10, <2>2, <3>1
    <3> QED
      BY <1>3, <3>2
  <2>3. CASE i <= k /\ ~(j <= k)
    <3>1. i \in 1..k /\ j - k \in 1..n
      BY <1>3, <2>3
    <3>2. old[i].product = page[j - k].product
      BY <1>4, <1>10, <2>3
    <3> QED
      BY <2>0, <3>1, <3>2
  <2>4. CASE ~(i <= k) /\ j <= k
    <3>1. j \in 1..k /\ i - k \in 1..n
      BY <1>3, <2>4
    <3>2. old[j].product = page[i - k].product
      BY <1>4, <1>10, <2>4
    <3> QED
      BY <2>0, <3>1, <3>2
  <2> QED
    BY <2>1, <2>2, <2>3, <2>4
<1>11. ASSUME n = PageSize, NEW i \in 1..(k + n)
       PROVE  new[i].product <= page[n].product
  <2>1. n \in 1..n
    BY <1>11, CatalogAssumption
  <2>2. CASE i <= k
    <3>1. i \in 1..k
      BY <1>3, <2>2
    <3>2. old[i].product <= since[r] /\ page[n].product > since[r]
      BY <1>7, <1>8, <2>1, <3>1
    <3> QED
      BY <1>4, <1>9, <2>1, <2>2, <3>1, <3>2
  <2>3. CASE ~(i <= k)
    <3>1. i - k \in 1..n
      BY <1>3, <2>3
    <3> QED
      BY <1>4, <1>8, <2>3, <3>1
  <2> QED
    BY <2>2, <2>3
<1> HIDE DEF new
<1>12. CASE n < PageSize
  <2>1. pc'[r] = IF new = <<>> THEN "commit" ELSE "find"
    BY <1>2, <1>5, <1>12 DEF TypeInv, TypeOK
  <2>2. new = <<>> => Len(new) = 0
    OBVIOUS
  <2> QED
    BY <1>4, <1>5, <1>6, <1>10, <2>1, <2>2
<1>13. CASE ~(n < PageSize)
  <2>1. n = PageSize
    BY <1>13, CatalogAssumption
  <2>2. pc' = pc /\ since'[r] = page[n].product
    BY <1>2, <1>13 DEF TypeInv, TypeOK
  <2> QED
    BY <1>4, <1>5, <1>6, <1>10, <1>11, <2>1, <2>2
<1> QED
  BY <1>12, <1>13

LEMMA PagesStep ==
  ASSUME TypeInv, Ledger, Pages, [Next]_vars
  PROVE  Pages'
<1>1. CASE Edit \/ UNCHANGED vars
  BY <1>1 DEF Edit, vars, world, run, Pages
<1> SUFFICES ASSUME NEW r \in Runs, Start(r) \/ Step(r) \/ Crash(r)
             PROVE  Pages'
  BY <1>1 DEF Next
<1> DEFINE PagesOf(q) ==
      /\ \A i, j \in 1..Len(fetched'[q]) :
           fetched'[q][i].product = fetched'[q][j].product => i = j
      /\ pc'[q] = "idle" => fetched'[q] = <<>>
      /\ pc'[q] = "fetch" =>
           \A i \in 1..Len(fetched'[q]) : fetched'[q][i].product <= since'[q]
      /\ pc'[q] = "commit" => at'[q] = Len(fetched'[q]) + 1
<1>2. \A q \in Runs \ {r} : PagesOf(q)
  BY Effects DEF Pages
<1>3. PagesOf(r)
  <2>1. CASE Start(r)
    <3>1. pc[r] = "idle" /\ pc'[r] = "fetch" /\ fetched' = fetched
      BY <2>1 DEF Start, run, TypeInv, TypeOK
    <3>2. Len(fetched[r]) = 0
      BY <3>1 DEF Pages
    <3> QED
      BY <3>1, <3>2
  <2>2. CASE Fetch(r)
    BY <2>2, FetchPages
  <2>3. CASE FetchFails(r) \/ Embed(r) \/ Crash(r) \/ Commit(r) \/ Flush(r)
    <3>1. fetched' = fetched /\ pc'[r] \in {"over", "point", "embed"}
      BY <2>3 DEF FetchFails, Embed, Crash, Commit, Flush, world, run, TypeInv, TypeOK
    <3> QED
      BY <3>1 DEF Pages
  <2>4. CASE Find(r) \/ Failure(r) \/ Upsert(r)
    <3>1. CASE pc'[r] = "flush" /\ fetched' = fetched
      BY <3>1 DEF Pages
    <3>2. CASE NextProduct(r) /\ fetched' = fetched /\ pc[r] \in {"find", "flush", "embed", "point"}
      <4>1. at'[r] = at[r] + 1 /\ pc'[r] = IF at[r] = Len(fetched[r]) THEN "commit" ELSE "find"
        BY <3>2 DEF NextProduct, TypeInv, TypeOK
      <4> QED
        BY <3>2, <4>1 DEF Pages
    <3> QED
      BY <2>4, <3>1, <3>2 DEF Find, Failure, Upsert, CountError, TypeInv, TypeOK
  <2> QED
    BY <2>1, <2>2, <2>3, <2>4, Failures DEF Step
<1> QED
  BY <1>2, <1>3 DEF Pages

-----------------------------------------------------------------------------
(* Ids name products.                                                      *)

LEMMA TargetNames ==
  ASSUME TypeInv, IdNames, NEW r \in Runs, pc[r] \in {"flush", "embed", "point"}
  PROVE  Target(r)[1] = Now(r).product
<1>1. CASE found[r] = {}
  BY <1>1 DEF Target
<1>2. CASE found[r] # {}
  <2>1. (CHOOSE c \in found[r] : TRUE) \in found[r]
    BY <1>2
  <2> QED
    BY <1>2, <2>1 DEF Target, IdNames
<1> QED
  BY <1>1, <1>2

LEMMA ViewNames ==
  ASSUME IdNames, NEW r \in Runs
  PROVE  \A c \in View(r) : c.id[1] = c.product
BY DEF IdNames, View

LEMMA FetchMoves ==
  ASSUME TypeInv, NEW r \in Runs, Fetch(r)
  PROVE  pc'[r] \in {"fetch", "find", "commit"}
BY DEF Fetch, TypeInv, TypeOK

LEMMA IdNamesInit == Init => IdNames
<1> SUFFICES ASSUME Init PROVE IdNames
  OBVIOUS
<1>1. \A c \in rows : c.id[1] = c.product
  BY InitRows
<1>2. \A r \in Runs : mine[r] = {} /\ pc[r] = "idle"
  BY DEF Init
<1> QED
  BY <1>1, <1>2 DEF IdNames

LEMMA IdNamesStep ==
  ASSUME TypeInv, Ledger, IdNames, [Next]_vars
  PROVE  IdNames'
<1>1. CASE Edit \/ UNCHANGED vars
  BY <1>1 DEF Edit, vars, world, run, IdNames, Now
<1> SUFFICES ASSUME NEW r \in Runs, Start(r) \/ Step(r) \/ Crash(r)
             PROVE  IdNames'
  BY <1>1 DEF Next
<1>2. \A c \in rows' : c.id[1] = c.product
  BY Effects, ViewNames DEF IdNames
<1>3. \A c \in mine'[r] : c.id[1] = c.product
  <2>1. CASE mine'[r] \in {mine[r], {}}
    BY <2>1 DEF IdNames
  <2>2. CASE Flush(r) /\ Changed(r) # {}
    <3>1. pc[r] = "flush"
      BY <2>2 DEF Flush
    <3>2. Written(r).id = Target(r) /\ Written(r).product = Now(r).product
      BY DEF Written, Row
    <3>3. Written(r).id[1] = Written(r).product
      BY <3>1, <3>2, TargetNames
    <3> QED
      BY <2>2, <3>3, FlushedRows DEF IdNames
  <2> QED
    BY <2>1, <2>2, Effects
<1>4. \A q \in Runs \ {r} : Now(q)' = Now(q) /\ found'[q] = found[q] /\ pc'[q] = pc[q]
                              /\ mine'[q] = mine[q]
  BY Effects DEF Now
<1>5. ASSUME pc'[r] \in {"flush", "embed", "point"}
      PROVE  \A c \in found'[r] : c.product = Now(r)'.product /\ c.id[1] = c.product
  <2>1. CASE Find(r)
    <3>1. found'[r] = {c \in View(r) : c.product = Now(r).product} /\ Now(r)' = Now(r)
      BY <1>5, <2>1 DEF Find, CountError, NextProduct, world, Now, TypeInv, TypeOK
    <3> QED
      BY <3>1, ViewNames
  <2>2. CASE Flush(r)
    <3>1. found'[r] = {Row(Target(r), Now(r).product, Now(r).offer)} /\ Now(r)' = Now(r)
          /\ pc[r] = "flush"
      BY <2>2 DEF Flush, Now, TypeInv, TypeOK
    <3>2. Target(r)[1] = Now(r).product
      BY <3>1, TargetNames
    <3> QED
      BY <3>1, <3>2 DEF Row
  <2>3. CASE Embed(r)
    <3>1. found' = found /\ Now(r)' = Now(r) /\ pc[r] = "embed"
      BY <2>3 DEF Embed, run, Now
    <3> QED
      BY <3>1 DEF IdNames
  <2>4. CASE Start(r) \/ Fetch(r) \/ FetchFails(r) \/ Crash(r) \/ Commit(r)
    <3>1. pc \in [Runs -> Labels]
      BY DEF TypeInv, TypeOK
    <3>2. CASE Fetch(r)
      BY <1>5, <3>2, FetchMoves
    <3>3. CASE Start(r)
      BY <1>5, <3>1, <3>3 DEF Start
    <3>4. CASE FetchFails(r) \/ Crash(r) \/ Commit(r)
      BY <1>5, <3>1, <3>4 DEF FetchFails, Crash, Commit
    <3> QED
      BY <2>4, <3>2, <3>3, <3>4
  <2>5. CASE Failure(r) \/ Upsert(r)
    BY <1>5, <2>5 DEF Failure, Upsert, CountError, NextProduct, TypeInv, TypeOK
  <2> QED
    BY <2>1, <2>2, <2>3, <2>4, <2>5, Failures DEF Step
<1> QED
  BY <1>2, <1>3, <1>4, <1>5 DEF IdNames

-----------------------------------------------------------------------------
(* A run that is alone.                                                    *)

LEMMA SameOffer ==
  ASSUME NEW o \in Mixed, NEW p \in Mixed, \A f \in Columns : o[f] = p[f]
  PROVE  o = p
BY DEF Mixed, Columns

\* The row a flush leaves for the product in hand is what the shop said, and no
\* row of another product changes.
LEMMA FlushMirrors ==
  ASSUME TypeInv, Ledger, IdNames, NEW r \in Runs, Flush(r),
         found[r] = {c \in View(r) : c.product = Now(r).product},
         \A c, d \in found[r] : c = d
  PROVE  /\ \E c : /\ {d \in View(r)' : d.product = Now(r).product} = {c}
                   /\ c.offer = Now(r).offer /\ c.id = Target(r)
         /\ \A p : p # Now(r).product =>
              {d \in View(r)' : d.product = p} = {d \in View(r) : d.product = p}
<1>1. pc[r] = "flush" /\ rows' = rows /\ Now(r).offer \in Mixed
  BY InHand, OfferIsMixed DEF Flush, world
<1>2. \A c \in View(r) : c.id[1] = c.product /\ c.offer \in Mixed
  BY ViewNames, ViewType DEF TypeInv, Rows
<1>3. Target(r)[1] = Now(r).product
  BY <1>1, TargetNames
<1>4. ASSUME NEW c \in found[r]
      PROVE  found[r] = {c} /\ Target(r) = c.id
  <2>1. \A d \in found[r] : d = c
    BY <1>4
  <2>2. (CHOOSE d \in found[r] : TRUE) = c
    BY <1>4, <2>1
  <2> QED
    BY <1>4, <2>1, <2>2 DEF Target
<1>5. CASE Changed(r) = {}
  <2>1. found[r] # {}
    BY <1>5 DEF Changed, Columns
  <2>2. PICK c : c \in found[r]
    BY <2>1
  <2>3. \A f \in Columns : c.offer[f] = Now(r).offer[f]
    BY <1>4, <1>5, <2>2 DEF Changed
  <2>4. c.offer = Now(r).offer
    BY <1>1, <1>2, <2>2, <2>3, SameOffer
  <2>5. View(r)' = View(r)
    BY <1>1, <1>5 DEF Flush, View
  <2> QED
    BY <1>4, <2>2, <2>4, <2>5
<1>6. CASE Changed(r) # {}
  <2>1. mine'[r] = {m \in mine[r] : m.id # Target(r)} \cup {Written(r)}
    BY <1>6, FlushedRows
  <2>2. Written(r).id = Target(r) /\ Written(r).product = Now(r).product
    BY DEF Written, Row
  <2>3. Written(r).offer = Now(r).offer
    <3> DEFINE old == CHOOSE c \in View(r) : c.id = Target(r)
               offer == [f \in Columns |-> IF f \in Changed(r) THEN Now(r).offer[f]
                                           ELSE old.offer[f]]
    <3>1. ASSUME NEW f \in Columns, f \notin Changed(r)
          PROVE  old.offer[f] = Now(r).offer[f]
      <4>1. PICK c \in found[r] : c.offer[f] = Now(r).offer[f]
        BY <3>1 DEF Changed
      <4>2. c \in View(r) /\ c.id = Target(r)
        BY <1>4
      <4>3. old \in View(r) /\ old.id = Target(r)
        BY <4>2
      <4>4. old.product = Now(r).product
        BY <1>2, <1>3, <4>3
      <4>5. old = c
        BY <4>3, <4>4
      <4> QED
        BY <4>1, <4>5
    <3>2. Written(r).offer = offer
      BY DEF Written, Row
    <3>3. \A f \in Columns : offer[f] = Now(r).offer[f]
      BY <3>1
    <3>4. Written(r) \in Rows
      BY <1>1, WrittenType DEF Ledger
    <3>5. offer \in Mixed
      BY <3>2, <3>4 DEF Rows
    <3> HIDE DEF offer
    <3> QED
      BY <1>1, <3>2, <3>3, <3>5, SameOffer
  <2>4. View(r)' = {c \in View(r) : c.id # Target(r)} \cup {Written(r)}
    <3>1. ASSUME NEW c \in View(r)'
          PROVE  c = Written(r) \/ (c \in View(r) /\ c.id # Target(r))
      <4>1. CASE c \in mine'[r]
        BY <2>1, <4>1 DEF View
      <4>2. CASE c \in rows /\ \A m \in mine'[r] : m.id # c.id
        BY <2>1, <2>2, <4>2 DEF View
      <4> QED
        BY <1>1, <3>1, <4>1, <4>2 DEF View
    <3>2. ASSUME NEW c \in View(r), c.id # Target(r)
          PROVE  c \in View(r)'
      <4>1. CASE c \in mine[r]
        BY <2>1, <3>2, <4>1 DEF View
      <4>2. CASE c \in rows /\ \A m \in mine[r] : m.id # c.id
        BY <1>1, <2>1, <2>2, <3>2, <4>2 DEF View
      <4> QED
        BY <3>2, <4>1, <4>2 DEF View
    <3>3. Written(r) \in View(r)'
      BY <2>1 DEF View
    <3> QED
      BY <3>1, <3>2, <3>3
  <2>5. \A c \in View(r) : c.product = Now(r).product => c.id = Target(r)
    BY <1>4
  <2>6. \A c \in View(r) : c.product # Now(r).product => c.id # Target(r)
    BY <1>2, <1>3
  <2>7. {d \in View(r)' : d.product = Now(r).product} = {Written(r)}
    BY <2>2, <2>4, <2>5
  <2>8. ASSUME NEW p, p # Now(r).product
        PROVE  {d \in View(r)' : d.product = p} = {d \in View(r) : d.product = p}
    BY <2>2, <2>4, <2>6, <2>8
  <2> QED
    BY <2>2, <2>3, <2>7, <2>8
<1> QED
  BY <1>5, <1>6

\* A mirrored product stays so while its rows and their points do.
LEMMA MirrorStays ==
  ASSUME NEW r \in Runs, Behind(r), at[r] \in Nat, at'[r] = at[r],
         fetched'[r] = fetched[r], points' = points, View(r)' = View(r)
  PROVE  Behind(r)'
<1> SUFFICES ASSUME NEW i \in 1..(at[r] - 1) PROVE Mirrored(r, i)'
  BY DEF Behind
<1>1. PICK c : RowFor(r, fetched[r][i], c) /\ [id |-> c.id, price |-> c.offer.price] \in points
  BY DEF Behind, Mirrored
<1>2. RowFor(r, fetched[r][i], c)'
  BY <1>1 DEF RowFor
<1> QED
  BY <1>1, <1>2 DEF Mirrored

LEMMA AtMostOne ==
  ASSUME NEW S, IsFiniteSet(S), ~(Cardinality(S) > 1)
  PROVE  \A c, d \in S : c = d
<1> SUFFICES ASSUME NEW c \in S, NEW d \in S, c # d PROVE FALSE
  OBVIOUS
<1>1. IsFiniteSet({c}) /\ Cardinality({c}) = 1
  BY FS_Singleton
<1>2. IsFiniteSet({c} \cup {d}) /\ Cardinality({c} \cup {d}) = 2
  <2>1. d \notin {c}
    OBVIOUS
  <2>2. /\ IsFiniteSet({c} \cup {d})
        /\ Cardinality({c} \cup {d}) = Cardinality({c}) + 1
    BY <1>1, <2>1, FS_AddElement
  <2> QED
    BY <1>1, <2>2
<1>3. Cardinality({c} \cup {d}) <= Cardinality(S)
  BY FS_Subset
<1>4. Cardinality(S) \in Nat
  BY FS_CardinalityType
<1> QED
  BY <1>2, <1>3, <1>4

LEMMA FlushBehind ==
  ASSUME TypeInv, Ledger, Pages, IdNames, NEW r \in Runs, Behind(r), InWork(r), Flush(r)
  PROVE  Behind(r)' /\ InWork(r)'
<1>1. /\ pc[r] = "flush" /\ pc'[r] = "embed" /\ at' = at /\ fetched' = fetched
      /\ points' = points /\ rows' = rows
      /\ found'[r] = {Row(Target(r), Now(r).product, Now(r).offer)}
  BY DEF Flush, world, TypeInv, TypeOK
<1>2. Now(r)' = Now(r)
  BY <1>1 DEF Now
<1>3. /\ \E c : /\ {d \in View(r)' : d.product = Now(r).product} = {c}
                /\ c.offer = Now(r).offer /\ c.id = Target(r)
      /\ \A p : p # Now(r).product =>
           {d \in View(r)' : d.product = p} = {d \in View(r) : d.product = p}
  BY <1>1, FlushMirrors DEF InWork
<1>4. (CHOOSE c \in found'[r] : TRUE).id = Target(r)
  <2>1. (CHOOSE c \in found'[r] : TRUE) \in found'[r]
    BY <1>1
  <2> QED
    BY <1>1, <2>1 DEF Row
<1>5. Target(r)' = Target(r)
  <2>1. found'[r] # {}
    BY <1>1
  <2>2. Target(r)' = (CHOOSE c \in found'[r] : TRUE).id
    BY <2>1 DEF Target
  <2> QED
    BY <1>4, <2>2
<1>6. InWork(r)'
  <2>1. PICK c : /\ {d \in View(r)' : d.product = Now(r).product} = {c}
                 /\ c.offer = Now(r).offer /\ c.id = Target(r)
    BY <1>3
  <2>2. RowFor(r, Now(r), c)'
    BY <1>2, <2>1 DEF RowFor
  <2> QED
    BY <1>1, <1>5, <2>1, <2>2 DEF InWork
<1>7. ASSUME NEW i \in 1..(at[r] - 1) PROVE Mirrored(r, i)'
  <2>1. PICK c : RowFor(r, fetched[r][i], c) /\ [id |-> c.id, price |-> c.offer.price] \in points
    BY DEF Behind, Mirrored
  <2>2. fetched[r][i].product # Now(r).product
    <3>1. at[r] \in 1..Len(fetched[r]) /\ Len(fetched[r]) \in Nat
      BY <1>1, InHand
    <3>2. i \in 1..Len(fetched[r]) /\ i # at[r]
      BY <3>1
    <3> QED
      BY <3>1, <3>2 DEF Pages, Now
  <2>3. RowFor(r, fetched[r][i], c)'
    BY <1>1, <1>3, <2>1, <2>2 DEF RowFor
  <2> QED
    BY <1>1, <2>1, <2>3 DEF Mirrored
<1> QED
  BY <1>1, <1>6, <1>7 DEF Behind

LEMMA UpsertBehind ==
  ASSUME TypeInv, Ledger, Pages, IdNames, NEW r \in Runs, Behind(r), InWork(r), Upsert(r)
  PROVE  Behind(r)' /\ InWork(r)'
<1>1. /\ pc[r] = "point" /\ pc'[r] \in {"find", "commit"} /\ at'[r] = at[r] + 1
      /\ fetched' = fetched /\ rows' = rows /\ mine' = mine /\ Put(r)
  BY DEF Upsert, NextProduct, TypeInv, TypeOK
<1>2. View(r)' = View(r)
  BY <1>1 DEF View
<1>3. at[r] \in 1..Len(fetched[r]) /\ Len(fetched[r]) \in Nat
  BY <1>1, InHand
<1>4. ASSUME NEW i \in 1..at[r] PROVE Mirrored(r, i)'
  <2>1. CASE i = at[r]
    <3>1. PICK c : RowFor(r, Now(r), c) /\ c.id = Target(r)
      BY <1>1 DEF InWork
    <3>2. RowFor(r, fetched[r][i], c)'
      BY <1>1, <1>2, <2>1, <3>1 DEF RowFor, Now
    <3>3. [id |-> c.id, price |-> c.offer.price] \in points'
      BY <1>1, <3>1 DEF RowFor, Put
    <3> QED
      BY <3>2, <3>3 DEF Mirrored
  <2>2. CASE i # at[r]
    <3>1. i \in 1..(at[r] - 1) /\ i \in 1..Len(fetched[r])
      BY <1>3, <2>2
    <3>2. PICK c : RowFor(r, fetched[r][i], c) /\ [id |-> c.id, price |-> c.offer.price] \in points
      BY <3>1 DEF Behind, Mirrored
    <3>3. RowFor(r, fetched[r][i], c)'
      BY <1>1, <1>2, <3>2 DEF RowFor
    <3>4. fetched[r][i].product # Now(r).product
      BY <1>3, <2>2, <3>1 DEF Pages, Now
    <3>5. c \in View(r) /\ c.product = fetched[r][i].product
      BY <3>2 DEF RowFor
    <3>6. c.id[1] # Target(r)[1]
      BY <1>1, <3>4, <3>5, TargetNames, ViewNames
    <3>7. [id |-> c.id, price |-> c.offer.price] \in points'
      BY <1>1, <3>2, <3>6 DEF Put
    <3> QED
      BY <3>3, <3>7 DEF Mirrored
  <2> QED
    BY <2>1, <2>2
<1> QED
  BY <1>1, <1>3, <1>4 DEF Behind, InWork

LEMMA CleanWork ==
  ASSUME TypeInv, Ledger, Finite, Pages, IdNames, NEW r \in Runs,
         Behind(r), InWork(r), Step(r), Active(r)', errors'[r] = 0
  PROVE  Behind(r)' /\ InWork(r)'
<1>1. CASE Fetch(r)
  <2>1. at' = at /\ pc[r] = "fetch"
    BY <1>1 DEF Fetch
  <2>2. at'[r] = 1
    BY <2>1 DEF TypeInv, Position
  <2>3. pc'[r] \in {"fetch", "find", "commit"}
    BY <1>1, FetchMoves
  <2> QED
    BY <2>2, <2>3 DEF Behind, InWork
<1>2. CASE Find(r)
  <2>1. ~CountError(r)
    BY DEF CountError, TypeInv, TypeOK
  <2>2. LET same == {c \in View(r) : c.product = Now(r).product}
        IN ~(Cardinality(same) > 1) /\ found'[r] = same
    BY <1>2, <2>1 DEF Find, TypeInv, TypeOK
  <2>3. /\ pc'[r] = "flush" /\ at' = at /\ fetched' = fetched /\ points' = points
        /\ rows' = rows /\ mine' = mine
    BY <1>2, <2>1 DEF Find, world, TypeInv, TypeOK
  <2>4. View(r)' = View(r) /\ Now(r)' = Now(r)
    BY <2>3 DEF View, Now
  <2>5. IsFiniteSet({c \in View(r) : c.product = Now(r).product})
    BY ViewFinite, FS_Subset
  <2>6. \A c, d \in found'[r] : c = d
    BY <2>2, <2>5, AtMostOne
  <2>7. InWork(r)'
    BY <2>2, <2>3, <2>4, <2>6 DEF InWork
  <2>8. Behind(r)'
    BY <2>3, <2>4, MirrorStays DEF TypeInv, TypeOK
  <2> QED
    BY <2>7, <2>8
<1>3. CASE Flush(r)
  BY <1>3, FlushBehind
<1>4. CASE Embed(r)
  <2>1. /\ pc[r] = "embed" /\ pc'[r] = "point" /\ rows' = rows /\ points' = points
        /\ UNCHANGED <<fetched, at, found, mine>>
    BY <1>4 DEF Embed, world, run, TypeInv, TypeOK
  <2>2. View(r)' = View(r) /\ Now(r)' = Now(r)
    BY <2>1 DEF View, Now
  <2>3. Target(r)' = Target(r)
    BY <2>1, <2>2 DEF Target
  <2>4. PICK c : RowFor(r, Now(r), c) /\ c.id = Target(r)
    BY <2>1 DEF InWork
  <2>5. RowFor(r, Now(r), c)' /\ c.id = Target(r)'
    BY <2>2, <2>3, <2>4 DEF RowFor
  <2>6. InWork(r)'
    BY <2>1, <2>5 DEF InWork
  <2>7. Behind(r)'
    BY <2>1, <2>2, MirrorStays DEF TypeInv, TypeOK
  <2> QED
    BY <2>6, <2>7
<1>5. CASE Upsert(r)
  BY <1>5, UpsertBehind
<1>6. CASE Failure(r)
  BY <1>6 DEF Failure, CountError, TypeInv, TypeOK
<1>7. CASE FetchFails(r) \/ Commit(r)
  BY <1>7 DEF FetchFails, Commit, Active, TypeInv, TypeOK
<1> QED
  BY <1>1, <1>2, <1>3, <1>4, <1>5, <1>6, <1>7, Failures DEF Step

LEMMA CleanInit == Init => \A r \in Runs : Clean(r)
BY DEF Init, Clean, Active

\* No step lowers the errors of a run, and only a start changes who is alone.
LEMMA StepKeeps ==
  ASSUME TypeInv, NEW r \in Runs, Step(r) \/ Crash(r)
  PROVE  alone' = alone /\ Active(r) /\ (errors'[r] = 0 => errors[r] = 0)
<1>1. CASE Fetch(r)
  BY <1>1 DEF Fetch, world, Active
<1>2. CASE Find(r)
  BY <1>2 DEF Find, CountError, world, Active, TypeInv, TypeOK
<1>3. CASE Failure(r)
  BY <1>3 DEF Failure, CountError, Active, TypeInv, TypeOK
<1>4. CASE FetchFails(r) \/ Flush(r) \/ Embed(r) \/ Commit(r) \/ Crash(r) \/ Upsert(r)
  BY <1>4 DEF FetchFails, Flush, Embed, Commit, Crash, Upsert, world, run, Active
<1> QED
  BY <1>1, <1>2, <1>3, <1>4, Failures DEF Step

LEMMA CleanStep ==
  ASSUME TypeInv, Ledger, MirrorInv, [Next]_vars
  PROVE  \A r \in Runs : Clean(r)'
<1> USE DEF MirrorInv
<1> SUFFICES ASSUME NEW q \in Runs, q \in alone', Active(q)' PROVE Clean(q)'
  BY DEF Clean
<1>1. CASE UNCHANGED vars \/ Edit
  <2>1. UNCHANGED <<rows, points, alone, pc, run>>
    BY <1>1 DEF vars, world, Edit
  <2>2. Active(q) /\ q \in alone /\ \A s \in Runs : Active(s)' = Active(s)
    BY <2>1 DEF Active
  <2>3. View(q)' = View(q) /\ Now(q)' = Now(q) /\ Target(q)' = Target(q)
    BY <2>1 DEF View, Now, Target, run
  <2>4. Behind(q) => Behind(q)'
    BY <2>1, <2>3, MirrorStays DEF run, TypeInv, TypeOK
  <2>5. \A c : RowFor(q, Now(q), c)' = RowFor(q, Now(q), c)
    BY <2>3 DEF RowFor
  <2>6. InWork(q) => InWork(q)'
    BY <2>1, <2>3, <2>5 DEF InWork, run
  <2> QED
    BY <2>1, <2>2, <2>4, <2>6 DEF Clean, run
<1> SUFFICES ASSUME NEW r \in Runs, Start(r) \/ Step(r) \/ Crash(r)
             PROVE  Clean(q)'
  BY <1>1 DEF Next
<1>2. \A s \in Runs \ {r} : Active(s)' = Active(s)
  BY Effects DEF Active
<1>3. CASE Start(r)
  <2>1. ~ \E s \in Runs \ {r} : Active(s)
    BY <1>2, <1>3 DEF Start
  <2>2. q = r
    BY <1>2, <2>1
  <2>3. pc[r] = "idle" /\ pc'[r] = "fetch" /\ at' = at
    BY <1>3 DEF Start, run, TypeInv, TypeOK
  <2>4. at'[r] = 1
    BY <2>3 DEF TypeInv, Position
  <2>5. Behind(r)' /\ InWork(r)'
    BY <2>3, <2>4 DEF Behind, InWork
  <2> QED
    BY <1>2, <2>1, <2>2, <2>5 DEF Clean
<1>4. CASE Step(r) \/ Crash(r)
  <2>1. q \in alone /\ Active(r) /\ (errors'[r] = 0 => errors[r] = 0)
    BY <1>4, StepKeeps
  <2>2. q = r
    <3>1. ASSUME q # r PROVE FALSE
      <4>1. Active(q)
        BY <1>2, <3>1
      <4> QED
        BY <2>1, <3>1, <4>1 DEF Clean
    <3> QED
      BY <3>1
  <2>3. ~Crash(r)
    BY <2>2 DEF Crash, Active, TypeInv, TypeOK
  <2>4. errors'[r] = 0 => Behind(r)' /\ InWork(r)'
    BY <1>4, <2>1, <2>2, <2>3, CleanWork DEF Clean
  <2>5. \A s \in Runs \ {r} : ~Active(s)
    BY <2>1, <2>2 DEF Clean
  <2> QED
    BY <1>2, <2>2, <2>4, <2>5 DEF Clean
<1> QED
  BY <1>3, <1>4

-----------------------------------------------------------------------------
(* The theorems.                                                           *)

LEMMA MirrorInvariance == Spec => [](TypeInv /\ Ledger /\ MirrorInv)
<1>1. Init => MirrorInv
  BY FiniteInit, PagesInit, IdNamesInit, CleanInit DEF MirrorInv
<1>2. TypeInv /\ Ledger /\ MirrorInv /\ [Next]_vars => MirrorInv'
  BY FiniteStep, PagesStep, IdNamesStep, CleanStep DEF MirrorInv
<1> QED
  BY <1>1, <1>2, Invariance, PTL DEF Spec

\* The step with which a run reports is its commit; without errors its
\* transaction is open, so what it could see is what is committed.
LEMMA CommitMirrors ==
  ASSUME TypeInv, Ledger, MirrorInv, [Next]_vars, NEW r \in alone,
         report[r] = "none", report'[r] = "done", errors[r] = 0,
         NEW i \in DOMAIN fetched[r]
  PROVE  \E c \in rows' :
           /\ {d \in rows' : d.product = fetched[r][i].product} = {c}
           /\ c.offer = fetched[r][i].offer
           /\ [id |-> c.id, price |-> c.offer.price] \in points'
<1>1. r \in Runs
  BY DEF TypeInv, TypeOK
<1>2. Commit(r)
  <2>1. ~(Edit \/ UNCHANGED vars)
    BY DEF Edit, vars, run
  <2>2. PICK q \in Runs : Start(q) \/ Step(q) \/ Crash(q)
    BY <2>1 DEF Next
  <2>3. q = r
    BY <1>1, <2>2, Effects
  <2>4. ~Start(r) /\ ~Crash(r) /\ ~FetchFails(r)
    BY <1>1 DEF Start, run, Crash, FetchFails, TypeInv, TypeOK
  <2>5. ~Fetch(r) /\ ~Find(r) /\ ~Flush(r) /\ ~Embed(r) /\ ~Upsert(r) /\ ~Failure(r)
    BY DEF Fetch, Find, Flush, Embed, run, Upsert, Failure
  <2> QED
    BY <1>1, <2>2, <2>3, <2>4, <2>5, Failures DEF Step
<1>3. pc[r] = "commit" /\ tx[r] = "open" /\ rows' = View(r) /\ points' = points
  BY <1>1, <1>2 DEF Commit, Ledger, Charged, TypeInv, TypeOK
<1>4. Active(r)
  BY <1>3 DEF Active
<1>5. Behind(r)
  BY <1>1, <1>4 DEF MirrorInv, Clean
<1>6. i \in 1..(at[r] - 1)
  <2>1. fetched[r] \in Seq(Listed)
    BY <1>1 DEF TypeInv, TypeOK
  <2>2. i \in 1..Len(fetched[r]) /\ Len(fetched[r]) \in Nat
    BY <2>1
  <2>3. at[r] = Len(fetched[r]) + 1
    BY <1>1, <1>3 DEF MirrorInv, Pages
  <2> QED
    BY <2>2, <2>3
<1>7. PICK c : RowFor(r, fetched[r][i], c) /\ [id |-> c.id, price |-> c.offer.price] \in points
  BY <1>5, <1>6 DEF Behind, Mirrored
<1> QED
  BY <1>3, <1>7 DEF RowFor

\* For any shop and any number of runs: what a run reports that was alone and
\* counted no error is so.
THEOREM CleanRunsMirror == Spec => CleanRunMirrors
<1>1. TypeInv /\ Ledger /\ MirrorInv /\ [Next]_vars =>
        \A r \in alone : report[r] = "none" /\ report'[r] = "done" /\ errors[r] = 0 =>
          \A i \in DOMAIN fetched[r] :
            \E c \in rows' :
              /\ {d \in rows' : d.product = fetched[r][i].product} = {c}
              /\ c.offer = fetched[r][i].offer
              /\ [id |-> c.id, price |-> c.offer.price] \in points'
  BY CommitMirrors
<1> QED
  BY <1>1, MirrorInvariance, PTL DEF Spec, CleanRunMirrors
-----------------------------------------------------------------------------
(* Searching.                                                              *)

LEMMA SomeIsPart ==
  ASSUME NEW S, IsFiniteSet(S), NEW n \in Nat, NEW m \in Some(n, S)
  PROVE  /\ m \subseteq S /\ Cardinality(m) <= n
         /\ n > 0 /\ S # {} => m # {}
         /\ Cardinality(S) <= n => m = S
<1>1. m \subseteq S /\ Cardinality(m) = Smaller(n, Cardinality(S))
  BY DEF Some
<1>2. Cardinality(S) \in Nat /\ (Cardinality(S) = 0 <=> S = {})
  BY FS_CardinalityType, FS_EmptySet
<1>3. Cardinality({}) = 0
  BY FS_EmptySet
<1>4. Cardinality(m) = Cardinality(S) => m = S
  BY <1>1, FS_Subset
<1> QED
  BY <1>1, <1>2, <1>3, <1>4 DEF Smaller

\* Every match is live and fits; when Qdrant gives none, the fallback gives all
\* there are among those it reads, which is all of a term's rows when they are
\* no more than its limit.
LEMMA Matches ==
  ASSUME Finite, NEW q, q.words \in SUBSET SUBSET Live,
         NEW m \in (Semantic(q) \ {{}}) \cup Fallback(q)
  PROVE  /\ m \subseteq Fit(q)
         /\ \A w \in q.words : w \cap Fit(q) # {} /\ Cardinality(w) <= 3 * Limit => m # {}
<1>1. CASE m \in Semantic(q) \ {{}}
  BY <1>1 DEF Semantic
<1>2. CASE m \in Fallback(q)
  <2>1. PICK f \in [q.words -> SUBSET UNION q.words] :
          /\ \A w \in q.words : f[w] \in Some(3 * Limit, w)
          /\ m = Fit(q) \cap UNION {f[w] : w \in q.words}
    BY <1>2 DEF Fallback
  <2>2. ASSUME NEW w \in q.words, w \cap Fit(q) # {}, Cardinality(w) <= 3 * Limit
        PROVE  m # {}
    <3>1. IsFiniteSet(w) /\ 3 * Limit \in Nat
      <4>1. w \in SUBSET rows
        BY DEF Live
      <4> QED
        BY <4>1, FS_Subset, CatalogAssumption DEF Finite
    <3>2. f[w] = w
      BY <2>1, <2>2, <3>1, SomeIsPart
    <3>3. w \subseteq UNION {f[v] : v \in q.words}
      BY <3>2
    <3> QED
      BY <2>1, <2>2, <3>3
  <2> QED
    BY <2>1, <2>2
<1> QED
  BY <1>1, <1>2

LEMMA SearchKeeps ==
  ASSUME Finite
  PROVE  SearchFinds
<1> SUFFICES ASSUME NEW q \in Queries, NEW m \in Search(q)
             PROVE  /\ m \subseteq Live /\ Cardinality(m) <= Limit
                    /\ IF Named(q) # {}
                       THEN \E c \in Named(q) : m = {c}
                       ELSE /\ m \subseteq Fit(q)
                            /\ m = {} => \A w \in q.words :
                                 w \cap Fit(q) = {} \/ Cardinality(w) > 3 * Limit
  BY DEF SearchFinds
<1>1. Limit \in Nat /\ Limit > 0
  BY CatalogAssumption
<1>2. CASE Named(q) # {}
  <2>1. PICK c \in Named(q) : m = {c}
    BY <1>2 DEF Search
  <2>2. Cardinality(m) = 1
    BY <2>1, FS_Singleton
  <2>3. m \subseteq Live
    BY <2>1 DEF Named
  <2> QED
    BY <1>1, <1>2, <2>1, <2>2, <2>3
<1>3. CASE Named(q) = {}
  <2>1. PICK all \in (Semantic(q) \ {{}}) \cup Fallback(q) : m \in Some(Limit, all)
    BY <1>3 DEF Search
  <2>2. q.words \in SUBSET SUBSET Live
    BY DEF Queries, Topics
  <2>3. /\ all \subseteq Fit(q)
        /\ \A w \in q.words : w \cap Fit(q) # {} /\ Cardinality(w) <= 3 * Limit => all # {}
    BY <2>1, <2>2, Matches
  <2>4. all \subseteq Live
    BY <2>3 DEF Fit
  <2>5. IsFiniteSet(all)
    <3>1. all \in SUBSET rows
      BY <2>4 DEF Live
    <3> QED
      BY <3>1, FS_Subset DEF Finite
  <2>6. m \subseteq all /\ Cardinality(m) <= Limit /\ (all # {} => m # {})
    BY <1>1, <2>1, <2>5, SomeIsPart
  <2>7. ASSUME m = {}, NEW w \in q.words
        PROVE  w \cap Fit(q) = {} \/ Cardinality(w) > 3 * Limit
    <3>1. IsFiniteSet(w) /\ 3 * Limit \in Nat
      <4>1. w \in SUBSET rows
        BY <2>2 DEF Live
      <4> QED
        BY <4>1, FS_Subset, CatalogAssumption DEF Finite
    <3>2. Cardinality(w) \in Nat
      BY <3>1, FS_CardinalityType
    <3>3. ~(w \cap Fit(q) # {} /\ Cardinality(w) <= 3 * Limit)
      BY <2>3, <2>6, <2>7
    <3> QED
      BY <3>1, <3>2, <3>3
  <2> QED
    BY <1>3, <2>3, <2>4, <2>6, <2>7
<1> QED
  BY <1>2, <1>3

\* Whatever the index holds, a search offers only what is for sale, and at most
\* as many products as asked for.  The product whose SKU is in the text comes
\* alone, with no regard to price and occasion; otherwise all that is offered
\* fits both, and something is when a term finds it within its limit.
THEOREM SearchesFind == Spec => []SearchFinds
<1>1. MirrorInv => SearchFinds
  BY SearchKeeps DEF MirrorInv
<1> QED
  BY <1>1, MirrorInvariance, PTL
=============================================================================
