----------------------------- MODULE CatalogProofs -----------------------------
(***************************************************************************)
(* Proofs about Catalog, for any products, offers and number of runs: its  *)
(* type, and that a point without a row never comes from a run that        *)
(* reported no error.                                                      *)
(***************************************************************************)
EXTENDS Catalog, TLAPS

IdsOf(set) == {c.id : c \in set}

Answers(r, i) ==
  r \in Runs /\ (i \in IdsOf(mine[r]) \/ errors[r] > 0 \/ report[r] = "failed")

\* Where a run is with its products: what its program counter tells of its
\* position, of its session and of its report.
Position ==
  \A r \in Runs :
    /\ pc[r] \in {"idle", "fetch"} => at[r] = 1 /\ mine[r] = {}
    /\ pc[r] \in {"find", "flush", "embed", "point"} => at[r] <= Len(fetched[r])
    /\ pc[r] \in {"flush", "embed", "point"} => tx[r] = "open"

\* What a run has found is a row it can see; what it writes is committed, or
\* has the id of a row of its own.
FoundStands ==
  \A r \in Runs : pc[r] \in {"flush", "embed", "point"} =>
    /\ pc[r] # "flush" => found[r] # {}
    /\ \A c \in found[r] : c.id \in IdsOf(rows) \cup IdsOf(mine[r])

OwnRows ==
  \A r \in Runs : \A m \in mine[r] : m.id \in IdsOf(rows) \/ m.id[2] = r

\* A session that is lost was charged to the run, and a failure is its end.
Charged ==
  \A r \in Runs :
    /\ tx[r] # "open" => errors[r] > 0
    /\ report[r] = "failed" => pc[r] = "over"

\* The row of a point is committed, or written by the run whose id it has, or
\* that run has an error or a failure to show for it.
Accounted ==
  \A v \in points : \/ v.id \in IdsOf(rows)
                    \/ Answers(v.id[2], v.id)

TypeInv == TypeOK /\ Position

Ledger == FoundStands /\ OwnRows /\ Charged /\ Accounted

\* What the shop says is a row's offer.
LEMMA OfferIsMixed ==
  ASSUME NEW o \in Offers
  PROVE  o \in Mixed
BY CatalogAssumption DEF Mixed

LEMMA TypeInit == Init => TypeInv
<1> SUFFICES ASSUME Init PROVE TypeInv
  OBVIOUS
<1>1. shop \in [Products -> SUBSET Offers]
  BY CatalogAssumption DEF Init
<1>2. rows \subseteq Rows
  <2>1. PICK known \in Known : rows = UNION {{Row(<<p, Earlier>>, p, o) : o \in shop[p]} : p \in known}
    BY DEF Init
  <2>2. ASSUME NEW p \in known, NEW o \in shop[p]
        PROVE  Row(<<p, Earlier>>, p, o) \in Rows
    <3>1. p \in Products /\ o \in Offers /\ <<p, Earlier>> \in Ids
      BY <2>2, <1>1, CatalogAssumption DEF Ids
    <3> QED
      BY <3>1, OfferIsMixed DEF Row, Rows
  <2>3. ASSUME NEW c \in rows
        PROVE  \E p \in known : \E o \in shop[p] : c = Row(<<p, Earlier>>, p, o)
    BY <2>1
  <2> QED
    BY <2>2, <2>3
<1>3. points \subseteq [id : Ids, price : Nat]
  <2>1. ASSUME NEW c \in rows
        PROVE  [id |-> c.id, price |-> c.offer.price] \in [id : Ids, price : Nat]
    <3>1. c.id \in Ids /\ c.offer \in Mixed
      BY <1>2 DEF Rows
    <3>2. c.offer.price \in Nat
      BY <3>1, CatalogAssumption DEF Mixed
    <3> QED
      BY <3>1, <3>2
  <2>2. points = {[id |-> c.id, price |-> c.offer.price] : c \in rows}
    BY DEF Init
  <2> QED
    BY <2>1, <2>2
<1>4. fetched \in [Runs -> Seq(Listed)] /\ \A r \in Runs : Len(fetched[r]) = 0
  BY DEF Init
<1>5. /\ pc \in [Runs -> Labels]
      /\ since \in [Runs -> Products \cup {0}]
      /\ at \in [Runs -> Nat] /\ \A r \in Runs : at[r] \in 1..(Len(fetched[r]) + 1)
      /\ found \in [Runs -> SUBSET Rows] /\ mine \in [Runs -> SUBSET Rows]
      /\ tx \in [Runs -> {"open", "aborted", "broken"}]
      /\ report \in [Runs -> {"none", "done", "failed"}]
  BY <1>4 DEF Init, Labels
<1>6. /\ \A r \in Runs : mine[r] = {}
      /\ errors \in [Runs -> Nat] /\ \A r \in Runs : errors[r] < at[r]
      /\ alone \subseteq Runs /\ edits \in 0..MaxEdits
  BY CatalogAssumption DEF Init
<1>7. Position
  BY DEF Init, Position
<1> QED
  BY <1>1, <1>2, <1>3, <1>4, <1>5, <1>6, <1>7 DEF TypeInv, TypeOK

-----------------------------------------------------------------------------
\* The product in hand.
LEMMA InHand ==
  ASSUME TypeInv, NEW r \in Runs, pc[r] \in {"find", "flush", "embed", "point"}
  PROVE  /\ at[r] \in 1..Len(fetched[r]) /\ Len(fetched[r]) \in Nat
         /\ Now(r) \in Listed /\ Now(r).product \in Products /\ Now(r).offer \in Offers
<1>1. at[r] \in 1..Len(fetched[r]) /\ fetched[r] \in Seq(Listed)
  BY DEF TypeInv, TypeOK, Position
<1>2. Now(r) \in Listed
  BY <1>1 DEF Now
<1> QED
  BY <1>1, <1>2 DEF Listed

LEMMA ViewType ==
  ASSUME TypeOK, NEW r \in Runs
  PROVE  View(r) \subseteq Rows
BY DEF TypeOK, View

LEMMA TargetType ==
  ASSUME TypeInv, NEW r \in Runs, pc[r] \in {"flush", "embed", "point"}
  PROVE  Target(r) \in Ids
<1>1. CASE found[r] = {}
  BY <1>1, InHand DEF Target, Ids
<1>2. CASE found[r] # {}
  <2>1. (CHOOSE c \in found[r] : TRUE) \in found[r]
    BY <1>2
  <2>2. found[r] \subseteq Rows
    BY DEF TypeInv, TypeOK
  <2>3. (CHOOSE c \in found[r] : TRUE).id \in Ids
    BY <2>1, <2>2 DEF Rows
  <2> QED
    BY <1>2, <2>3 DEF Target
<1> QED
  BY <1>1, <1>2

\* The row a run writes has the id of the row it found, or a new one of its own.
LEMMA TargetStands ==
  ASSUME TypeInv, FoundStands, NEW r \in Runs, pc[r] \in {"flush", "embed", "point"}
  PROVE  \/ found[r] = {} /\ pc[r] = "flush" /\ Target(r) = <<Now(r).product, r>>
         \/ found[r] # {} /\ Target(r) \in IdsOf(rows) \cup IdsOf(mine[r])
<1>1. CASE found[r] = {}
  BY <1>1 DEF Target, FoundStands
<1>2. CASE found[r] # {}
  <2>1. (CHOOSE c \in found[r] : TRUE) \in found[r]
    BY <1>2
  <2> QED
    BY <1>2, <2>1 DEF Target, FoundStands
<1> QED
  BY <1>1, <1>2

LEMMA ViewIds ==
  ASSUME NEW r \in Runs
  PROVE  IdsOf(View(r)) = IdsOf(rows) \cup IdsOf(mine[r])
BY DEF IdsOf, View

\* A column is written with what the shop said or stays what it was in a row.
LEMMA WrittenType ==
  ASSUME TypeInv, FoundStands, NEW r \in Runs, pc[r] = "flush"
  PROVE  Written(r) \in Rows /\ Written(r).id = Target(r)
<1> DEFINE old == CHOOSE c \in View(r) : c.id = Target(r)
           offer == [f \in Columns |-> IF f \in Changed(r) THEN Now(r).offer[f] ELSE old.offer[f]]
<1>1. Now(r).product \in Products /\ Now(r).offer \in Mixed
  BY InHand, OfferIsMixed
<1>2. ASSUME NEW f \in Columns, f \notin Changed(r)
      PROVE  old \in Rows
  <2>1. found[r] # {}
    BY <1>2 DEF Changed
  <2>2. Target(r) \in IdsOf(View(r))
    BY <2>1, TargetStands, ViewIds
  <2>3. PICK c \in View(r) : c.id = Target(r)
    BY <2>2 DEF IdsOf
  <2>4. old \in View(r)
    BY <2>3
  <2> QED
    BY <2>4, ViewType DEF TypeInv
<1>3. ASSUME NEW f \in Columns
      PROVE  offer[f] \in {o[f] : o \in Offers}
  <2>1. Now(r).offer \in Offers
    BY InHand
  <2>2. CASE f \in Changed(r)
    BY <2>1, <2>2
  <2>3. CASE f \notin Changed(r)
    <3>1. old.offer \in Mixed
      BY <1>2, <2>3 DEF Rows
    <3> QED
      BY <2>3, <3>1 DEF Mixed, Columns
  <2> QED
    BY <2>2, <2>3
<1>4. offer \in Mixed
  <2>1. offer = [sku |-> offer["sku"], price |-> offer["price"], live |-> offer["live"]]
    BY DEF Columns
  <2>2. /\ offer["sku"] \in {o.sku : o \in Offers}
        /\ offer["price"] \in {o.price : o \in Offers}
        /\ offer["live"] \in {o.live : o \in Offers}
    BY <1>3 DEF Columns
  <2> QED
    BY <2>1, <2>2 DEF Mixed
<1>5. Target(r) \in Ids
  BY TargetType
<1> QED
  BY <1>1, <1>4, <1>5 DEF Written, Row, Rows

-----------------------------------------------------------------------------
\* What is left of a product when the loop goes on to the next one.
LEMMA NextProductType ==
  ASSUME TypeInv, NEW r \in Runs, pc[r] \in {"find", "flush", "embed", "point"},
         NextProduct(r), fetched' = fetched
  PROVE  /\ at' \in [Runs -> Nat] /\ at'[r] = at[r] + 1
         /\ \A q \in Runs : at'[q] \in 1..(Len(fetched'[q]) + 1)
         /\ pc' \in [Runs -> Labels] /\ pc'[r] \in {"find", "commit"}
         /\ pc'[r] = "find" => at'[r] <= Len(fetched'[r])
         /\ found' \in [Runs -> SUBSET Rows] /\ found'[r] = {}
         /\ \A q \in Runs \ {r} : pc'[q] = pc[q] /\ at'[q] = at[q] /\ found'[q] = found[q]
<1>1. at[r] \in 1..Len(fetched[r]) /\ Len(fetched[r]) \in Nat
  BY InHand
<1> QED
  BY <1>1 DEF NextProduct, TypeInv, TypeOK, Labels

LEMMA PutType ==
  ASSUME TypeInv, NEW r \in Runs, pc[r] = "point", Put(r)
  PROVE  points' \subseteq [id : Ids, price : Nat]
<1>1. Target(r) \in Ids /\ Now(r).offer \in Offers
  BY TargetType, InHand
<1>2. Now(r).offer.price \in Nat
  BY <1>1, CatalogAssumption
<1> QED
  BY <1>1, <1>2 DEF Put, TypeInv, TypeOK

\* The point of a product in hand has a row behind it, or the run that has
\* written the row.
LEMMA PutAccounted ==
  ASSUME TypeInv, Ledger, NEW r \in Runs, pc[r] = "point", Put(r)
  PROVE  \A v \in points' : \/ v.id \in IdsOf(rows)
                            \/ Answers(v.id[2], v.id)
<1>1. found[r] # {}
  BY DEF Ledger, FoundStands
<1>2. Target(r) \in IdsOf(rows) \cup IdsOf(mine[r])
  BY <1>1, TargetStands DEF Ledger
<1>3. \/ Target(r) \in IdsOf(rows)
      \/ Target(r)[2] = r /\ Target(r) \in IdsOf(mine[r])
  <2>1. CASE Target(r) \in IdsOf(mine[r])
    <3>1. PICK m \in mine[r] : m.id = Target(r)
      BY <2>1 DEF IdsOf
    <3> QED
      BY <2>1, <3>1 DEF Ledger, OwnRows
  <2> QED
    BY <1>2, <2>1
<1>4. Target(r) \in IdsOf(rows) \/ Answers(Target(r)[2], Target(r))
  BY <1>3 DEF Answers
<1>5. ASSUME NEW v \in points' PROVE v \in points \/ v.id = Target(r)
  BY <1>5 DEF Put
<1> QED
  BY <1>4, <1>5 DEF Ledger, Accounted

\* What every handler of a failed product does: the error is counted, and the
\* session is as it was or has lost the rows of the run.
Failure(r) ==
  /\ pc[r] \in {"find", "flush", "embed", "point"}
  /\ CountError(r)
  /\ UNCHANGED points \/ (pc[r] = "point" /\ Put(r))
  /\ \/ UNCHANGED <<tx, mine>>
     \/ \E t \in {"aborted", "broken"} :
          tx' = [tx EXCEPT ![r] = t] /\ mine' = [mine EXCEPT ![r] = {}]
  /\ UNCHANGED <<shop, rows, edits, alone, since, fetched, report>>

LEMMA Failures ==
  ASSUME TypeInv, NEW r \in Runs,
         FindFails(r) \/ FlushFails(r) \/ Deadlock(r) \/ EmbedFails(r) \/ UpsertFails(r)
  PROVE  Failure(r)
<1>1. CASE FindFails(r)
  <2>1. (IF tx[r] = "open" THEN "aborted" ELSE tx[r]) \in {"aborted", "broken"}
    BY DEF TypeInv, TypeOK
  <2> QED
    BY <1>1, <2>1 DEF FindFails, Failure, world
<1>2. CASE FlushFails(r)
  BY <1>2 DEF FlushFails, Failure, world
<1>3. CASE Deadlock(r)
  BY <1>3 DEF Deadlock, Failure, world
<1>4. CASE EmbedFails(r)
  BY <1>4 DEF EmbedFails, Failure, world
<1>5. CASE UpsertFails(r)
  BY <1>5 DEF UpsertFails, Failure
<1> QED
  BY <1>1, <1>2, <1>3, <1>4, <1>5

LEMMA FailureType ==
  ASSUME TypeInv, NEW r \in Runs, Failure(r)
  PROVE  TypeInv'
<1>1. /\ NextProduct(r) /\ errors' = [errors EXCEPT ![r] = @ + 1]
      /\ pc[r] \in {"find", "flush", "embed", "point"}
      /\ shop' = shop /\ rows' = rows /\ edits' = edits /\ alone' = alone
      /\ since' = since /\ fetched' = fetched /\ report' = report
  BY DEF Failure, CountError
<1>2. points' \subseteq [id : Ids, price : Nat]
  <2>1. points \subseteq [id : Ids, price : Nat]
    BY DEF TypeInv, TypeOK
  <2> QED
    BY <2>1, PutType DEF Failure
<1>3. /\ mine' \in [Runs -> SUBSET Rows] /\ tx' \in [Runs -> {"open", "aborted", "broken"}]
      /\ \A q \in Runs : mine'[q] \in {mine[q], {}}
      /\ \A q \in Runs \ {r} : tx'[q] = tx[q] /\ mine'[q] = mine[q]
      /\ tx'[r] # "open" => mine'[r] = {}
  <2>1. /\ mine \in [Runs -> SUBSET Rows] /\ tx \in [Runs -> {"open", "aborted", "broken"}]
        /\ tx[r] # "open" => mine[r] = {}
    BY DEF TypeInv, TypeOK
  <2>2. CASE tx' = tx /\ mine' = mine
    BY <2>1, <2>2
  <2>3. ASSUME NEW t \in {"aborted", "broken"}, tx' = [tx EXCEPT ![r] = t], mine' = [mine EXCEPT ![r] = {}]
        PROVE  /\ mine' \in [Runs -> SUBSET Rows] /\ tx' \in [Runs -> {"open", "aborted", "broken"}]
               /\ \A q \in Runs \ {r} : tx'[q] = tx[q] /\ mine'[q] = mine[q]
               /\ mine'[r] = {}
    BY <2>1, <2>3
  <2> QED
    BY <2>2, <2>3 DEF Failure
<1>4. /\ at' \in [Runs -> Nat] /\ at'[r] = at[r] + 1
      /\ \A q \in Runs : at'[q] \in 1..(Len(fetched'[q]) + 1)
      /\ pc' \in [Runs -> Labels] /\ pc'[r] \in {"find", "commit"}
      /\ pc'[r] = "find" => at'[r] <= Len(fetched'[r])
      /\ found' \in [Runs -> SUBSET Rows]
      /\ \A q \in Runs \ {r} : pc'[q] = pc[q] /\ at'[q] = at[q]
  BY <1>1, NextProductType
<1>5. \A q \in Runs : tx'[q] # "open" \/ pc'[q] = "over" => mine'[q] = {}
  <2>1. \A q \in Runs : tx[q] # "open" \/ pc[q] = "over" => mine[q] = {}
    BY DEF TypeInv, TypeOK
  <2> QED
    BY <1>3, <1>4, <2>1
<1>6. errors' \in [Runs -> Nat] /\ \A q \in Runs : errors'[q] < at'[q]
  <2>1. errors \in [Runs -> Nat] /\ \A q \in Runs : errors[q] < at[q] /\ at[q] \in Nat
    BY DEF TypeInv, TypeOK
  <2>2. /\ errors' \in [Runs -> Nat] /\ errors'[r] = errors[r] + 1
        /\ \A q \in Runs \ {r} : errors'[q] = errors[q]
    BY <1>1, <2>1
  <2>3. at'[r] = at[r] + 1 /\ \A q \in Runs \ {r} : at'[q] = at[q]
    BY <1>4
  <2> QED
    BY <2>1, <2>2, <2>3
<1>7. TypeOK'
  <2>1. /\ shop' \in [Products -> SUBSET Offers] /\ rows' \subseteq Rows
        /\ since' \in [Runs -> Products \cup {0}] /\ fetched' \in [Runs -> Seq(Listed)]
        /\ report' \in [Runs -> {"none", "done", "failed"}]
        /\ alone' \subseteq Runs /\ edits' \in 0..MaxEdits
    BY <1>1 DEF TypeInv, TypeOK
  <2> QED
    BY <1>2, <1>3, <1>4, <1>5, <1>6, <2>1 DEF TypeOK
<1>8. Position'
  <2>1. \A q \in Runs : /\ pc[q] \in {"idle", "fetch"} => at[q] = 1 /\ mine[q] = {}
                        /\ pc[q] \in {"find", "flush", "embed", "point"} => at[q] <= Len(fetched[q])
                        /\ pc[q] \in {"flush", "embed", "point"} => tx[q] = "open"
    BY DEF TypeInv, Position
  <2>2. ASSUME NEW q \in Runs
        PROVE  /\ pc'[q] \in {"idle", "fetch"} => at'[q] = 1 /\ mine'[q] = {}
               /\ pc'[q] \in {"find", "flush", "embed", "point"} => at'[q] <= Len(fetched'[q])
               /\ pc'[q] \in {"flush", "embed", "point"} => tx'[q] = "open"
    <3>1. CASE q = r
      BY <1>4, <3>1
    <3>2. CASE q # r
      <4>1. /\ pc'[q] = pc[q] /\ at'[q] = at[q] /\ fetched'[q] = fetched[q]
            /\ mine'[q] = mine[q] /\ tx'[q] = tx[q]
        BY <1>1, <1>3, <1>4, <3>2
      <4> QED
        BY <2>1, <4>1
    <3> QED
      BY <3>1, <3>2
  <2> QED
    BY <2>2 DEF Position
<1> QED
  BY <1>7, <1>8 DEF TypeInv

LEMMA FailureLedger ==
  ASSUME TypeInv, Ledger, NEW r \in Runs, Failure(r)
  PROVE  Ledger'
<1> USE DEF Failure
<1>1. /\ NextProduct(r) /\ errors' = [errors EXCEPT ![r] = @ + 1]
      /\ pc[r] \in {"find", "flush", "embed", "point"}
      /\ UNCHANGED <<shop, rows, edits, alone, since, fetched, report>>
  BY DEF CountError
<1>2. /\ \A q \in Runs : mine'[q] \in {mine[q], {}}
      /\ \A q \in Runs \ {r} : tx'[q] = tx[q] /\ mine'[q] = mine[q] /\ errors'[q] = errors[q]
      /\ errors'[r] > 0
  BY <1>1 DEF TypeInv, TypeOK
<1>3. FoundStands'
  BY <1>1, <1>2, NextProductType DEF Ledger, FoundStands
<1>4. OwnRows'
  BY <1>1, <1>2 DEF Ledger, OwnRows
<1>5. Charged'
  BY <1>1, <1>2, NextProductType DEF Ledger, Charged
<1>6. ASSUME NEW q, NEW i, Answers(q, i) PROVE Answers(q, i)'
  BY <1>1, <1>2, <1>6 DEF Answers
<1>7. Accounted'
  BY <1>1, <1>6, PutAccounted DEF Ledger, Accounted
<1> QED
  BY <1>3, <1>4, <1>5, <1>7 DEF Ledger

-----------------------------------------------------------------------------
\* The other steps: the type.
LEMMA StepType ==
  ASSUME TypeInv, Ledger, [Next]_vars
  PROVE  TypeInv'
<1> USE DEF TypeInv
<1>1. CASE UNCHANGED vars
  BY <1>1 DEF vars, world, run, TypeOK, Position
<1>2. CASE Edit
  <2>1. shop' \in [Products -> SUBSET Offers]
    <3>1. shop' \in [Products -> {{}} \cup {{o} : o \in Offers}]
      BY <1>2 DEF Edit
    <3>2. {{}} \cup {{o} : o \in Offers} \subseteq SUBSET Offers
      OBVIOUS
    <3> QED
      BY <3>1, <3>2
  <2>2. edits' \in 0..MaxEdits
    BY <1>2, CatalogAssumption DEF Edit, TypeOK
  <2> QED
    BY <1>2, <2>1, <2>2 DEF Edit, run, TypeOK, Position
<1> SUFFICES ASSUME NEW r \in Runs, Start(r) \/ Step(r) \/ Crash(r)
             PROVE  TypeInv'
  BY <1>1, <1>2 DEF Next
<1>3. CASE Start(r)
  <2>1. pc' \in [Runs -> Labels] /\ alone' \subseteq Runs
    BY <1>3 DEF Start, TypeOK, Labels
  <2>2. \A q \in Runs : pc'[q] = pc[q] \/ (pc[q] = "idle" /\ pc'[q] = "fetch")
    BY <1>3 DEF Start, TypeOK
  <2> QED
    BY <1>3, <2>1, <2>2 DEF Start, run, TypeOK, Position
<1>4. CASE Fetch(r)
  <2>1. PICK n \in 0..PageSize : \E page \in [1..n -> Listed] :
          /\ IsPage(page, since[r])
          /\ fetched' = [fetched EXCEPT ![r] = @ \o page]
          /\ IF n < PageSize
             THEN /\ pc' = [pc EXCEPT ![r] = IF fetched'[r] = <<>> THEN "commit" ELSE "find"]
                  /\ UNCHANGED since
             ELSE since' = [since EXCEPT ![r] = page[n].product] /\ UNCHANGED pc
    BY <1>4 DEF Fetch
  <2>2. PICK page \in [1..n -> Listed] :
          /\ fetched' = [fetched EXCEPT ![r] = @ \o page]
          /\ IF n < PageSize
             THEN /\ pc' = [pc EXCEPT ![r] = IF fetched'[r] = <<>> THEN "commit" ELSE "find"]
                  /\ UNCHANGED since
             ELSE since' = [since EXCEPT ![r] = page[n].product] /\ UNCHANGED pc
    BY <2>1
  <2>3. page \in Seq(Listed) /\ fetched[r] \in Seq(Listed)
    BY CatalogAssumption DEF TypeOK
  <2>4. fetched[r] \o page \in Seq(Listed)
    BY <2>3
  <2>5. fetched' \in [Runs -> Seq(Listed)] /\ \A q \in Runs \ {r} : fetched'[q] = fetched[q]
    BY <2>2, <2>4 DEF TypeOK
  <2>6. Len(fetched'[r]) \in Nat /\ (fetched'[r] # <<>> => Len(fetched'[r]) > 0)
    BY <2>5
  <2>7. at[r] = 1 /\ mine[r] = {} /\ pc[r] = "fetch"
    BY <1>4 DEF Fetch, Position
  <2>8. since' \in [Runs -> Products \cup {0}]
    <3>1. CASE n < PageSize
      BY <2>2, <3>1 DEF TypeOK
    <3>2. CASE ~(n < PageSize)
      <4>1. n \in 1..n
        BY <3>2, CatalogAssumption
      <4>2. page[n].product \in Products
        BY <4>1, <2>2 DEF Listed
      <4> QED
        BY <2>2, <3>2, <4>2 DEF TypeOK
    <3> QED
      BY <3>1, <3>2
  <2>9. /\ pc' \in [Runs -> Labels] /\ \A q \in Runs \ {r} : pc'[q] = pc[q]
        /\ \/ pc'[r] = "fetch" \/ pc'[r] = "commit"
           \/ pc'[r] = "find" /\ fetched'[r] # <<>>
    BY <2>2, <2>7 DEF TypeOK, Labels
  <2>10. \A q \in Runs : at[q] \in 1..(Len(fetched'[q]) + 1)
    <3>1. \A q \in Runs \ {r} : at[q] \in 1..(Len(fetched'[q]) + 1)
      BY <2>5 DEF TypeOK
    <3>2. at[r] \in 1..(Len(fetched'[r]) + 1)
      BY <2>6, <2>7
    <3> QED
      BY <3>1, <3>2
  <2>11. TypeOK'
    BY <1>4, <2>5, <2>7, <2>8, <2>9, <2>10 DEF Fetch, world, TypeOK
  <2>12. Position'
    BY <1>4, <2>5, <2>6, <2>7, <2>9 DEF Fetch, world, Position
  <2> QED
    BY <2>11, <2>12
<1>5. CASE FetchFails(r)
  <2>1. mine[r] = {} /\ at[r] = 1
    BY <1>5 DEF FetchFails, Position
  <2>2. /\ pc' \in [Runs -> Labels] /\ report' \in [Runs -> {"none", "done", "failed"}]
        /\ pc'[r] = "over" /\ \A q \in Runs \ {r} : pc'[q] = pc[q]
    BY <1>5 DEF FetchFails, TypeOK, Labels
  <2> QED
    BY <1>5, <2>1, <2>2 DEF FetchFails, world, TypeOK, Position
<1>6. CASE Find(r)
  <2> DEFINE same == {c \in View(r) : c.product = Now(r).product}
  <2>1. CASE Cardinality(same) > 1
    <3>1. Failure(r)
      BY <1>6, <2>1 DEF Find, Failure, world
    <3> QED
      BY <3>1, FailureType
  <2>2. CASE ~(Cardinality(same) > 1)
    <3>1. same \in SUBSET Rows
      BY ViewType
    <3>2. /\ found' = [found EXCEPT ![r] = same] /\ pc' = [pc EXCEPT ![r] = "flush"]
          /\ UNCHANGED <<at, errors, world, since, fetched, mine, tx, report>>
          /\ pc[r] = "find" /\ tx[r] = "open"
      BY <1>6, <2>2 DEF Find
    <3> HIDE DEF same
    <3>3. /\ found' \in [Runs -> SUBSET Rows] /\ pc' \in [Runs -> Labels]
          /\ pc'[r] = "flush" /\ \A q \in Runs \ {r} : pc'[q] = pc[q]
      BY <3>1, <3>2 DEF TypeOK, Labels
    <3> QED
      BY <3>2, <3>3 DEF world, TypeOK, Position
  <2> QED
    BY <2>1, <2>2
<1>7. CASE Flush(r)
  <2> DEFINE now == Row(Target(r), Now(r).product, Now(r).offer)
  <2>1. pc[r] = "flush" /\ tx[r] = "open"
    BY <1>7 DEF Flush, Position
  <2>2. now \in Rows
    BY <2>1, TargetType, InHand, OfferIsMixed DEF Row, Rows
  <2>3. Written(r) \in Rows
    BY <2>1, WrittenType DEF Ledger
  <2>4. mine' \in [Runs -> SUBSET Rows] /\ \A q \in Runs \ {r} : mine'[q] = mine[q]
    BY <1>7, <2>3 DEF Flush, TypeOK
  <2>5. /\ found' = [found EXCEPT ![r] = {now}] /\ pc' = [pc EXCEPT ![r] = "embed"]
        /\ UNCHANGED <<world, since, fetched, at, tx, errors, report>>
    BY <1>7 DEF Flush
  <2> HIDE DEF now
  <2>6. /\ found' \in [Runs -> SUBSET Rows] /\ pc' \in [Runs -> Labels]
        /\ pc'[r] = "embed" /\ \A q \in Runs \ {r} : pc'[q] = pc[q]
    BY <2>2, <2>5 DEF TypeOK, Labels
  <2> QED
    BY <2>1, <2>4, <2>5, <2>6 DEF world, TypeOK, Position
<1>8. CASE Embed(r)
  <2>1. /\ pc' \in [Runs -> Labels]
        /\ pc[r] = "embed" /\ pc'[r] = "point" /\ \A q \in Runs \ {r} : pc'[q] = pc[q]
    BY <1>8 DEF Embed, TypeOK, Labels
  <2> QED
    BY <1>8, <2>1 DEF Embed, world, run, TypeOK, Position
<1>9. CASE Upsert(r)
  <2>1. pc[r] = "point" /\ NextProduct(r) /\ Put(r)
        /\ UNCHANGED <<shop, rows, edits, alone, since, fetched, mine, tx, errors, report>>
    BY <1>9 DEF Upsert
  <2>2. points' \subseteq [id : Ids, price : Nat]
    BY <2>1, PutType
  <2>3. tx[r] = "open"
    BY <2>1 DEF Position
  <2>4. /\ at' \in [Runs -> Nat] /\ at'[r] = at[r] + 1
        /\ \A q \in Runs : at'[q] \in 1..(Len(fetched'[q]) + 1)
        /\ pc' \in [Runs -> Labels] /\ pc'[r] \in {"find", "commit"}
        /\ pc'[r] = "find" => at'[r] <= Len(fetched'[r])
        /\ found' \in [Runs -> SUBSET Rows]
        /\ \A q \in Runs \ {r} : pc'[q] = pc[q] /\ at'[q] = at[q]
    BY <2>1, NextProductType
  <2>5. \A q \in Runs : errors[q] < at'[q]
    <3>1. \A q \in Runs : errors[q] < at[q] /\ errors[q] \in Nat /\ at[q] \in Nat
      BY DEF TypeOK
    <3> QED
      BY <2>4, <3>1
  <2>6. TypeOK'
    BY <2>1, <2>2, <2>4, <2>5 DEF TypeOK
  <2>7. Position'
    BY <2>1, <2>3, <2>4 DEF Position
  <2> QED
    BY <2>6, <2>7
<1>10. CASE Commit(r)
  <2>1. rows' \subseteq Rows
    BY <1>10, ViewType DEF Commit, TypeOK
  <2>2. /\ pc' \in [Runs -> Labels] /\ report' \in [Runs -> {"none", "done", "failed"}]
        /\ mine' \in [Runs -> SUBSET Rows]
        /\ pc'[r] = "over" /\ mine'[r] = {}
        /\ \A q \in Runs \ {r} : pc'[q] = pc[q] /\ mine'[q] = mine[q]
    BY <1>10 DEF Commit, TypeOK, Labels
  <2> QED
    BY <1>10, <2>1, <2>2 DEF Commit, TypeOK, Position
<1>11. CASE Crash(r)
  <2>1. /\ pc' \in [Runs -> Labels] /\ report' \in [Runs -> {"none", "done", "failed"}]
        /\ mine' \in [Runs -> SUBSET Rows]
        /\ pc'[r] = "over" /\ mine'[r] = {}
        /\ \A q \in Runs \ {r} : pc'[q] = pc[q] /\ mine'[q] = mine[q]
    BY <1>11 DEF Crash, TypeOK, Labels
  <2> QED
    BY <1>11, <2>1 DEF Crash, world, TypeOK, Position
<1>12. CASE FindFails(r) \/ FlushFails(r) \/ Deadlock(r) \/ EmbedFails(r) \/ UpsertFails(r)
  BY <1>12, Failures, FailureType
<1> QED
  BY <1>3, <1>4, <1>5, <1>6, <1>7, <1>8, <1>9, <1>10, <1>11, <1>12 DEF Step

-----------------------------------------------------------------------------
LEMMA LedgerInit == Init => Ledger
<1> SUFFICES ASSUME Init PROVE Ledger
  OBVIOUS
<1>1. ASSUME NEW v \in points PROVE v.id \in IdsOf(rows)
  <2>1. points = {[id |-> c.id, price |-> c.offer.price] : c \in rows}
    BY DEF Init
  <2> QED
    BY <2>1 DEF IdsOf
<1> QED
  BY <1>1 DEF Init, Ledger, FoundStands, OwnRows, Charged, Accounted

\* A step that moves program counters and fetches, and touches no row, keeps
\* the ledger.
LEMMA LedgerKept ==
  ASSUME Ledger, UNCHANGED <<rows, points, mine, tx, errors, report>>,
         \A r \in Runs :
           /\ pc'[r] \in {"flush", "embed", "point"} =>
                /\ pc[r] \in {"flush", "embed", "point"} /\ found'[r] = found[r]
                /\ pc'[r] # "flush" => pc[r] # "flush"
           /\ pc[r] = "over" => pc'[r] = "over"
  PROVE  Ledger'
<1>1. FoundStands'
  BY DEF Ledger, FoundStands
<1>2. OwnRows' /\ Charged'
  BY DEF Ledger, OwnRows, Charged
<1>3. Accounted'
  BY DEF Ledger, Accounted, Answers
<1> QED
  BY <1>1, <1>2, <1>3 DEF Ledger

\* A run that ends without a commit leaves its points to its failure.
LEMMA LedgerFailed ==
  ASSUME TypeInv, Ledger, NEW r \in Runs,
         UNCHANGED <<rows, points, found, tx, errors>>,
         pc' = [pc EXCEPT ![r] = "over"], report' = [report EXCEPT ![r] = "failed"],
         \A q \in Runs \ {r} : mine'[q] = mine[q], mine'[r] \subseteq mine[r]
  PROVE  Ledger'
<1>1. /\ pc'[r] = "over" /\ report'[r] = "failed"
      /\ \A q \in Runs \ {r} : pc'[q] = pc[q] /\ report'[q] = report[q]
  BY DEF TypeInv, TypeOK
<1>2. FoundStands'
  BY <1>1 DEF Ledger, FoundStands
<1>3. OwnRows' /\ Charged'
  BY <1>1 DEF Ledger, OwnRows, Charged
<1>4. ASSUME NEW q, NEW i, Answers(q, i) PROVE Answers(q, i)'
  BY <1>1, <1>4 DEF Answers
<1>5. Accounted'
  BY <1>4 DEF Ledger, Accounted
<1> QED
  BY <1>2, <1>3, <1>5 DEF Ledger

LEMMA StepLedger ==
  ASSUME TypeInv, Ledger, [Next]_vars
  PROVE  Ledger'
<1>1. CASE UNCHANGED vars
  BY <1>1, LedgerKept DEF vars, world, run
<1>2. CASE Edit
  BY <1>2, LedgerKept DEF Edit, run
<1> SUFFICES ASSUME NEW r \in Runs, Start(r) \/ Step(r) \/ Crash(r)
             PROVE  Ledger'
  BY <1>1, <1>2 DEF Next
<1>3. CASE Start(r)
  <2>1. \A q \in Runs : pc'[q] = pc[q] \/ (pc[q] = "idle" /\ pc'[q] = "fetch")
    BY <1>3 DEF Start, TypeInv, TypeOK
  <2> QED
    BY <1>3, <2>1, LedgerKept DEF Start, run
<1>4. CASE Fetch(r)
  <2>1. \A q \in Runs : pc'[q] = pc[q] \/ (pc[q] = "fetch" /\ pc'[q] \in {"commit", "find"})
    BY <1>4 DEF Fetch, TypeInv, TypeOK
  <2> QED
    BY <1>4, <2>1, LedgerKept DEF Fetch, world
<1>5. CASE FetchFails(r)
  BY <1>5, LedgerFailed DEF FetchFails, world
<1>6. CASE Find(r)
  <2> DEFINE same == {c \in View(r) : c.product = Now(r).product}
  <2>1. CASE Cardinality(same) > 1
    <3>1. Failure(r)
      BY <1>6, <2>1 DEF Find, Failure, world
    <3> QED
      BY <3>1, FailureLedger
  <2>2. CASE ~(Cardinality(same) > 1)
    <3>1. /\ found' = [found EXCEPT ![r] = same] /\ pc' = [pc EXCEPT ![r] = "flush"]
          /\ UNCHANGED <<rows, points, mine, tx, errors, report>> /\ pc[r] = "find"
      BY <1>6, <2>2 DEF Find, world
    <3>2. \A c \in same : c.id \in IdsOf(rows) \cup IdsOf(mine[r])
      <4>1. \A c \in same : c.id \in IdsOf(View(r))
        BY DEF IdsOf
      <4> QED
        BY <4>1, ViewIds
    <3> HIDE DEF same
    <3>3. /\ pc'[r] = "flush" /\ found'[r] = same
          /\ \A q \in Runs \ {r} : pc'[q] = pc[q] /\ found'[q] = found[q]
      BY <3>1 DEF TypeInv, TypeOK
    <3>4. FoundStands'
      BY <3>1, <3>2, <3>3 DEF Ledger, FoundStands
    <3>5. OwnRows' /\ Charged'
      BY <3>1, <3>3 DEF Ledger, OwnRows, Charged
    <3>6. Accounted'
      BY <3>1 DEF Ledger, Accounted, Answers
    <3> QED
      BY <3>4, <3>5, <3>6 DEF Ledger
  <2> QED
    BY <2>1, <2>2
<1>7. CASE Flush(r)
  <2> DEFINE now == Row(Target(r), Now(r).product, Now(r).offer)
  <2>1. /\ pc[r] = "flush" /\ found' = [found EXCEPT ![r] = {now}]
        /\ pc' = [pc EXCEPT ![r] = "embed"]
        /\ UNCHANGED <<rows, points, tx, errors, report>>
    BY <1>7 DEF Flush, world
  <2>2. Written(r).id = Target(r) /\ now.id = Target(r)
    BY <2>1, WrittenType DEF Ledger, Row
  <2>3. \/ mine' = mine /\ found[r] # {}
        \/ mine' = [mine EXCEPT ![r] = {m \in @ : m.id # Target(r)} \cup {Written(r)}]
    <3>1. Changed(r) = {} => found[r] # {}
      BY DEF Changed, Columns
    <3> QED
      BY <1>7, <3>1 DEF Flush
  <2>4. /\ \A q \in Runs \ {r} : mine'[q] = mine[q]
        /\ \/ mine'[r] = mine[r] /\ found[r] # {}
           \/ mine'[r] = {m \in mine[r] : m.id # Target(r)} \cup {Written(r)}
    BY <2>3 DEF TypeInv, TypeOK
  <2>5. IdsOf(mine[r]) \subseteq IdsOf(mine'[r])
    BY <2>2, <2>4 DEF IdsOf
  <2>6. Target(r) \in IdsOf(rows) \cup IdsOf(mine'[r])
    <3>1. CASE mine'[r] = mine[r] /\ found[r] # {}
      BY <2>1, <3>1, TargetStands DEF Ledger
    <3>2. CASE mine'[r] = {m \in mine[r] : m.id # Target(r)} \cup {Written(r)}
      BY <2>2, <3>2 DEF IdsOf
    <3> QED
      BY <2>4, <3>1, <3>2
  <2>7. Target(r) \in IdsOf(rows) \/ Target(r)[2] = r
    <3>1. CASE found[r] = {}
      BY <2>1, <3>1, TargetStands DEF Ledger
    <3>2. CASE found[r] # {}
      <4>1. Target(r) \in IdsOf(rows) \cup IdsOf(mine[r])
        BY <2>1, <3>2, TargetStands DEF Ledger
      <4>2. ASSUME Target(r) \in IdsOf(mine[r]) PROVE \E m \in mine[r] : m.id = Target(r)
        BY <4>2 DEF IdsOf
      <4> QED
        BY <4>1, <4>2 DEF Ledger, OwnRows
    <3> QED
      BY <3>1, <3>2
  <2> HIDE DEF now
  <2>8. /\ pc'[r] = "embed" /\ found'[r] = {now}
        /\ \A q \in Runs \ {r} : pc'[q] = pc[q] /\ found'[q] = found[q]
    BY <2>1 DEF TypeInv, TypeOK
  <2>9. FoundStands'
    BY <2>1, <2>2, <2>4, <2>6, <2>8 DEF Ledger, FoundStands
  <2>10. OwnRows'
    <3>1. ASSUME NEW m \in mine'[r] PROVE m \in mine[r] \/ m = Written(r)
      BY <2>4, <3>1
    <3> QED
      BY <2>1, <2>2, <2>4, <2>7, <3>1 DEF Ledger, OwnRows
  <2>11. Charged'
    BY <2>1, <2>8 DEF Ledger, Charged
  <2>12. ASSUME NEW q, NEW i, Answers(q, i) PROVE Answers(q, i)'
    BY <2>1, <2>4, <2>5, <2>12 DEF Answers
  <2>13. Accounted'
    BY <2>1, <2>12 DEF Ledger, Accounted
  <2> QED
    BY <2>9, <2>10, <2>11, <2>13 DEF Ledger
<1>8. CASE Embed(r)
  <2>1. /\ pc[r] = "embed" /\ pc'[r] = "point"
        /\ \A q \in Runs \ {r} : pc'[q] = pc[q]
    BY <1>8 DEF Embed, TypeInv, TypeOK
  <2> QED
    BY <1>8, <2>1, LedgerKept DEF Embed, world, run
<1>9. CASE Upsert(r)
  <2>1. pc[r] = "point" /\ NextProduct(r) /\ Put(r)
        /\ UNCHANGED <<shop, rows, edits, alone, since, fetched, mine, tx, errors, report>>
    BY <1>9 DEF Upsert
  <2>2. pc'[r] \in {"find", "commit"} /\ \A q \in Runs \ {r} : pc'[q] = pc[q] /\ found'[q] = found[q]
    BY <2>1, NextProductType
  <2>3. FoundStands'
    BY <2>1, <2>2 DEF Ledger, FoundStands
  <2>4. OwnRows' /\ Charged'
    BY <2>1, <2>2 DEF Ledger, OwnRows, Charged
  <2>5. Accounted'
    BY <2>1, PutAccounted DEF Accounted, Answers
  <2> QED
    BY <2>3, <2>4, <2>5 DEF Ledger
<1>10. CASE Commit(r)
  <2>1. /\ pc[r] = "commit" /\ rows' = IF tx[r] = "open" THEN View(r) ELSE rows
        /\ UNCHANGED <<points, found, tx, errors>>
    BY <1>10 DEF Commit
  <2>2. /\ pc'[r] = "over" /\ mine'[r] = {}
        /\ report'[r] = IF tx[r] = "broken" THEN "failed" ELSE "done"
        /\ \A q \in Runs \ {r} : pc'[q] = pc[q] /\ mine'[q] = mine[q] /\ report'[q] = report[q]
    BY <1>10 DEF Commit, TypeInv, TypeOK
  <2>3. /\ IdsOf(rows) \subseteq IdsOf(rows')
        /\ tx[r] = "open" => IdsOf(mine[r]) \subseteq IdsOf(rows')
    <3>1. CASE tx[r] = "open"
      BY <2>1, <3>1, ViewIds
    <3>2. CASE tx[r] # "open"
      BY <2>1, <3>2
    <3> QED
      BY <3>1, <3>2
  <2>4. FoundStands'
    BY <2>1, <2>2, <2>3 DEF Ledger, FoundStands
  <2>5. OwnRows'
    BY <2>2, <2>3 DEF Ledger, OwnRows
  <2>6. Charged'
    BY <2>1, <2>2 DEF Ledger, Charged
  <2>7. ASSUME NEW q, NEW i, Answers(q, i) PROVE i \in IdsOf(rows') \/ Answers(q, i)'
    <3>1. CASE q = r
      <4>1. tx[r] # "open" => errors[r] > 0
        BY DEF Ledger, Charged
      <4>2. report[r] # "failed"
        BY <2>1 DEF Ledger, Charged
      <4> QED
        BY <2>1, <2>3, <2>7, <3>1, <4>1, <4>2 DEF Answers
    <3>2. CASE q # r
      BY <2>1, <2>2, <2>7, <3>2 DEF Answers
    <3> QED
      BY <3>1, <3>2
  <2>8. Accounted'
    BY <2>1, <2>3, <2>7 DEF Ledger, Accounted, IdsOf
  <2> QED
    BY <2>4, <2>5, <2>6, <2>8 DEF Ledger
<1>11. CASE Crash(r)
  <2>1. mine'[r] = {} /\ \A q \in Runs \ {r} : mine'[q] = mine[q]
    BY <1>11 DEF Crash, TypeInv, TypeOK
  <2> QED
    BY <1>11, <2>1, LedgerFailed DEF Crash, world
<1>12. CASE FindFails(r) \/ FlushFails(r) \/ Deadlock(r) \/ EmbedFails(r) \/ UpsertFails(r)
  BY <1>12, Failures, FailureLedger
<1> QED
  BY <1>3, <1>4, <1>5, <1>6, <1>7, <1>8, <1>9, <1>10, <1>11, <1>12 DEF Step

-----------------------------------------------------------------------------
\* The inductive invariant: the type, and the ledger of rows, points and errors.
THEOREM Invariance == Spec => [](TypeInv /\ Ledger)
<1>1. Init => TypeInv /\ Ledger
  BY TypeInit, LedgerInit
<1>2. TypeInv /\ Ledger /\ [Next]_vars => (TypeInv /\ Ledger)'
  BY StepType, StepLedger
<1> QED
  BY <1>1, <1>2, PTL DEF Spec

\* The type of the sync's state, whatever the runs do to each other.
THEOREM CatalogTypes == Spec => []TypeOK
<1>1. TypeInv /\ Ledger => TypeOK
  BY DEF TypeInv
<1> QED
  BY <1>1, Invariance, PTL

\* A point of Qdrant without a row in Postgres always belongs to a run that is
\* at work, failed, or counted an error: product_sync never leaves one behind
\* and reports a run without errors.
THEOREM OrphansAreReported == Spec => []OrphansReported
<1>1. ASSUME TypeInv, Ledger, NEW r, NEW i, Answers(r, i)
      PROVE  r \in Runs /\ (Active(r) \/ report[r] = "failed" \/ errors[r] > 0)
  <2>1. ASSUME i \in IdsOf(mine[r]), r \in Runs PROVE Active(r)
    <3>1. mine[r] # {}
      BY <2>1 DEF IdsOf
    <3>2. pc[r] # "over"
      BY <1>1, <2>1, <3>1 DEF TypeInv, TypeOK
    <3>3. pc[r] # "idle"
      BY <1>1, <2>1, <3>1 DEF TypeInv, Position
    <3> QED
      BY <3>2, <3>3 DEF Active
  <2> QED
    BY <1>1, <2>1 DEF Answers
<1>2. TypeInv /\ Ledger => OrphansReported
  <2> SUFFICES ASSUME TypeInv, Ledger, NEW v \in points,
                      ~ \E c \in rows : c.id = v.id
               PROVE  \E r \in Runs :
                        v.id[2] = r /\ (Active(r) \/ report[r] = "failed" \/ errors[r] > 0)
    BY DEF OrphansReported
  <2>1. v.id \notin IdsOf(rows)
    BY DEF IdsOf
  <2>2. Answers(v.id[2], v.id)
    BY <2>1 DEF Ledger, Accounted
  <2> QED
    BY <1>1, <2>2
<1> QED
  BY <1>2, Invariance, PTL

-----------------------------------------------------------------------------
(* One row for each product, while no two runs overlap.                    *)

OneEach(set) == \A c, d \in set : c.product = d.product => c = d

Unshared ==
  /\ \A r, q \in Runs : Active(r) /\ Active(q) => r = q
  /\ OneEach(rows)
  /\ \A r \in Runs :
       /\ OneEach(View(r))
       /\ pc[r] = "flush" => found[r] = {c \in View(r) : c.product = Now(r).product}

Solitude == alone = Runs => Unshared

LEMMA ViewOfIdle ==
  ASSUME NEW r \in Runs, mine[r] = {}
  PROVE  View(r) = rows
BY DEF View

LEMMA SolitudeInit == Init => Solitude
<1> SUFFICES ASSUME Init PROVE Unshared
  BY DEF Solitude
<1>1. OneEach(rows)
  <2>1. PICK known \in Known : rows = UNION {{Row(<<p, Earlier>>, p, o) : o \in shop[p]} : p \in known}
    BY DEF Init
  <2>2. \A c \in rows : \E p \in known : \E o \in shop[p] : c = Row(<<p, Earlier>>, p, o)
    BY <2>1
  <2>3. \A p \in Products : \A o1, o2 \in shop[p] : o1 = o2
    <3>1. shop \in [Products -> {{}} \cup {{o} : o \in Offers}]
      BY CatalogAssumption DEF Init
    <3>2. ASSUME NEW p \in Products
          PROVE  shop[p] = {} \/ \E o \in Offers : shop[p] = {o}
      BY <3>1
    <3> QED
      BY <3>2
  <2>4. known \subseteq Products
    BY CatalogAssumption
  <2> QED
    BY <2>2, <2>3, <2>4 DEF OneEach, Row
<1>2. \A r \in Runs : mine[r] = {} /\ pc[r] = "idle"
  BY DEF Init
<1> QED
  BY <1>1, <1>2, ViewOfIdle DEF Unshared, Active

\* A step of a run that is alone: the others are not at work, so what they see
\* is what is committed.
LEMMA UnsharedStep ==
  ASSUME TypeInv, TypeInv', Unshared, NEW r \in Runs, Active(r),
         \A q \in Runs \ {r} : pc'[q] = pc[q],
         OneEach(rows'), OneEach(View(r)'),
         pc'[r] = "flush" => found'[r] = {c \in View(r)' : c.product = Now(r)'.product}
  PROVE  Unshared'
<1>1. \A q \in Runs \ {r} : pc'[q] \in {"idle", "over"}
  BY DEF Unshared, Active
<1>2. \A q \in Runs \ {r} : mine'[q] = {}
  BY <1>1 DEF TypeInv, TypeOK, Position
<1>3. \A q \in Runs \ {r} : View(q)' = rows'
  BY <1>2 DEF View
<1>4. \A q, s \in Runs : Active(q)' /\ Active(s)' => q = s
  BY <1>1 DEF Active
<1> QED
  BY <1>1, <1>3, <1>4 DEF Unshared

\* The row a run writes takes the place of the one row it saw of the product.
LEMMA FlushKeepsOne ==
  ASSUME TypeInv, Ledger, Unshared, NEW r \in Runs, Flush(r)
  PROVE  OneEach(View(r)')
<1>1. pc[r] = "flush" /\ rows' = rows
  BY DEF Flush, world
<1>2. CASE Changed(r) = {}
  <2>1. mine' = mine
    BY <1>2 DEF Flush
  <2> QED
    BY <1>1, <2>1 DEF Unshared, View, OneEach
<1>3. CASE Changed(r) # {}
  <2>1. mine'[r] = {m \in mine[r] : m.id # Target(r)} \cup {Written(r)}
    BY <1>3 DEF Flush, TypeInv, TypeOK
  <2>2. Written(r).id = Target(r) /\ Written(r).product = Now(r).product
    BY DEF Written, Row
  <2>3. ASSUME NEW c \in View(r)'
        PROVE  c = Written(r) \/ (c \in View(r) /\ c.id # Target(r))
    <3>1. CASE c \in mine'[r]
      BY <2>1, <3>1 DEF View
    <3>2. CASE c \in rows /\ \A m \in mine'[r] : m.id # c.id
      BY <2>1, <2>2, <3>2 DEF View
    <3> QED
      BY <1>1, <2>3, <3>1, <3>2 DEF View
  <2>4. ASSUME NEW c \in View(r), c.product = Now(r).product
        PROVE  c.id = Target(r)
    <3>1. c \in found[r] /\ \A d \in found[r] : d = c
      BY <1>1, <2>4 DEF Unshared, OneEach
    <3>2. (CHOOSE d \in found[r] : TRUE) = c
      BY <3>1
    <3> QED
      BY <3>1, <3>2 DEF Target
  <2>5. OneEach(View(r))
    BY DEF Unshared
  <2> QED
    BY <2>2, <2>3, <2>4, <2>5 DEF OneEach
<1> QED
  BY <1>2, <1>3

LEMMA OthersStay ==
  ASSUME TypeInv, NEW r \in Runs, Step(r) \/ Crash(r)
  PROVE  \A q \in Runs \ {r} : pc'[q] = pc[q]
<1>1. CASE Fetch(r)
  BY <1>1 DEF Fetch, TypeInv, TypeOK
<1>2. CASE Find(r)
  BY <1>2 DEF Find, CountError, NextProduct, TypeInv, TypeOK
<1>3. CASE Failure(r)
  BY <1>3 DEF Failure, CountError, NextProduct, TypeInv, TypeOK
<1>4. CASE FetchFails(r) \/ Flush(r) \/ Embed(r) \/ Commit(r) \/ Crash(r)
  BY <1>4 DEF FetchFails, Flush, Embed, Commit, Crash, TypeInv, TypeOK
<1>5. CASE Upsert(r)
  BY <1>5 DEF Upsert, NextProduct, TypeInv, TypeOK
<1> QED
  BY <1>1, <1>2, <1>3, <1>4, <1>5, Failures DEF Step

LEMMA StepSolitude ==
  ASSUME TypeInv, Ledger, Solitude, [Next]_vars, TypeInv'
  PROVE  Solitude'
<1> SUFFICES ASSUME alone' = Runs PROVE Unshared'
  BY DEF Solitude
<1>1. CASE UNCHANGED vars
  BY <1>1 DEF vars, world, run, Solitude, Unshared, Active, View, Now
<1>2. CASE Edit
  BY <1>2 DEF Edit, run, Solitude, Unshared, Active, View, Now
<1> SUFFICES ASSUME NEW r \in Runs, Start(r) \/ Step(r) \/ Crash(r)
             PROVE  Unshared'
  BY <1>1, <1>2 DEF Next
<1>3. CASE Start(r)
  <2>1. alone = Runs /\ ~ \E q \in Runs \ {r} : Active(q)
    BY <1>3 DEF Start, TypeInv, TypeOK
  <2>2. /\ pc'[r] = "fetch" /\ \A q \in Runs \ {r} : pc'[q] = pc[q]
        /\ UNCHANGED <<rows, mine, found, fetched, at>>
    BY <1>3 DEF Start, run, TypeInv, TypeOK
  <2>3. Unshared
    BY <2>1 DEF Solitude
  <2>4. \A q, s \in Runs : Active(q)' /\ Active(s)' => q = s
    BY <2>1, <2>2 DEF Active
  <2> QED
    BY <2>2, <2>3, <2>4 DEF Unshared, View, Now
<1>4. CASE Step(r) \/ Crash(r)
  <2>1. Active(r) /\ alone' = alone
    BY <1>4 DEF Step, Crash, Active, world, Fetch, FetchFails, Find, FindFails, Flush,
       FlushFails, Deadlock, Embed, EmbedFails, Upsert, UpsertFails, Commit
  <2>2. Unshared
    BY <2>1 DEF Solitude
  <2>3. \A q \in Runs \ {r} : pc'[q] = pc[q]
    BY <1>4, OthersStay
  <2>4. CASE Flush(r)
    <3>1. rows' = rows /\ pc'[r] = "embed"
      BY <2>4 DEF Flush, world, TypeInv, TypeOK
    <3> QED
      BY <2>1, <2>2, <2>3, <2>4, <3>1, FlushKeepsOne, UnsharedStep DEF Unshared
  <2>5. CASE Find(r)
    <3> DEFINE same == {c \in View(r) : c.product = Now(r).product}
    <3>1. UNCHANGED <<rows, mine, fetched>>
      BY <2>5 DEF Find, world
    <3>2. View(r)' = View(r)
      BY <3>1 DEF View
    <3>3. pc'[r] = "flush" => found'[r] = same /\ at' = at
      BY <2>5 DEF Find, CountError, NextProduct, TypeInv, TypeOK
    <3>4. at' = at => Now(r)' = Now(r)
      BY <3>1 DEF Now
    <3> QED
      BY <2>1, <2>2, <2>3, <3>1, <3>2, <3>3, <3>4, UnsharedStep DEF Unshared
  <2>6. CASE Commit(r)
    <3>1. (rows' = rows \/ rows' = View(r)) /\ mine'[r] = {} /\ pc'[r] = "over"
      BY <2>6 DEF Commit, TypeInv, TypeOK
    <3>2. View(r)' = rows'
      BY <3>1 DEF View
    <3> QED
      BY <2>1, <2>2, <2>3, <3>1, <3>2, UnsharedStep DEF Unshared
  <2>7. CASE ~ (Flush(r) \/ Find(r) \/ Commit(r))
    <3>1. /\ rows' = rows /\ pc'[r] # "flush"
          /\ mine'[r] = mine[r] \/ mine'[r] = {}
      <4>1. CASE Failure(r)
        <5>1. NextProduct(r) /\ fetched' = fetched /\ rows' = rows
          BY <4>1 DEF Failure, CountError
        <5>2. mine'[r] = mine[r] \/ mine'[r] = {}
          BY <4>1 DEF Failure, TypeInv, TypeOK
        <5> QED
          BY <4>1, <5>1, <5>2, NextProductType DEF Failure
      <4>2. CASE Upsert(r)
        BY <4>2, NextProductType DEF Upsert
      <4>3. CASE Fetch(r)
        BY <4>3 DEF Fetch, world, TypeInv, TypeOK
      <4>4. CASE FetchFails(r) \/ Embed(r) \/ Crash(r)
        BY <4>4 DEF FetchFails, Embed, Crash, world, run, TypeInv, TypeOK
      <4> QED
        BY <1>4, <2>7, <4>1, <4>2, <4>3, <4>4, Failures DEF Step
    <3>2. View(r)' = View(r) \/ View(r)' = rows
      BY <3>1 DEF View
    <3> QED
      BY <2>1, <2>2, <2>3, <3>1, <3>2, UnsharedStep DEF Unshared
  <2> QED
    BY <2>4, <2>5, <2>6, <2>7
<1> QED
  BY <1>3, <1>4

\* upsert's key (product_repo.py:150) holds without a constraint as long as no
\* two runs of the sync overlap: no product has two rows then.
THEOREM RowsAreUnique == Spec => []OneRowEach
<1>1. Solitude => OneRowEach
  BY DEF Solitude, Unshared, OneRowEach, OneEach
<1>2. TypeInv /\ Ledger /\ (TypeInv /\ Ledger)' /\ Solitude /\ [Next]_vars => Solitude'
  BY StepSolitude
<1> QED
  BY <1>1, <1>2, SolitudeInit, Invariance, PTL DEF Spec
-----------------------------------------------------------------------------
(* Runs do not keep each other for ever.                                   *)

\* How far a run is from the end of a product, and of itself.
Distance ==
  [l \in Labels |->
     CASE l = "idle" -> 7 [] l = "fetch" -> 6 [] l = "find" -> 5 [] l = "flush" -> 4
       [] l = "embed" -> 3 [] l = "point" -> 2 [] l = "commit" -> 1 [] l = "over" -> 0]

LEMMA Distances ==
  /\ Distance \in [Labels -> 0..7]
  /\ Distance["idle"] = 7 /\ Distance["fetch"] = 6 /\ Distance["find"] = 5
  /\ Distance["flush"] = 4 /\ Distance["embed"] = 3 /\ Distance["point"] = 2
  /\ Distance["commit"] = 1 /\ Distance["over"] = 0
BY DEF Distance, Labels

\* A run goes on: its cursor over Shopify's pages, its position among the
\* products it fetched, or its place in the work on one product.
GoesOn(r) ==
  \/ pc[r] = "fetch" /\ pc'[r] = "fetch" /\ since'[r] > since[r]
  \/ at'[r] > at[r]
  \/ at'[r] = at[r] /\ Distance[pc'[r]] < Distance[pc[r]]

SomeRunGoesOn ==
  \/ edits' > edits
  \/ \E r \in Runs :
       /\ GoesOn(r)
       /\ \A q \in Runs \ {r} : pc'[q] = pc[q] /\ since'[q] = since[q] /\ at'[q] = at[q]

LEMMA NextProductGoesOn ==
  ASSUME TypeInv, NEW r \in Runs, NextProduct(r), since' = since
  PROVE  /\ GoesOn(r)
         /\ \A q \in Runs \ {r} : pc'[q] = pc[q] /\ since'[q] = since[q] /\ at'[q] = at[q]
BY DEF TypeInv, TypeOK, NextProduct, GoesOn

\* A full page moves the cursor.
LEMMA FetchGoesOn ==
  ASSUME TypeInv, NEW r \in Runs, Fetch(r)
  PROVE  /\ GoesOn(r)
         /\ \A q \in Runs \ {r} : pc'[q] = pc[q] /\ since'[q] = since[q] /\ at'[q] = at[q]
<1>1. pc[r] = "fetch" /\ at' = at
  BY DEF Fetch
<1>2. PICK n \in 0..PageSize : \E page \in [1..n -> Listed] :
        /\ IsPage(page, since[r])
        /\ IF n < PageSize
           THEN /\ pc' = [pc EXCEPT ![r] = IF fetched'[r] = <<>> THEN "commit" ELSE "find"]
                /\ since' = since
           ELSE since' = [since EXCEPT ![r] = page[n].product] /\ pc' = pc
  BY DEF Fetch
<1>3. PICK page \in [1..n -> Listed] :
        /\ IsPage(page, since[r])
        /\ IF n < PageSize
           THEN /\ pc' = [pc EXCEPT ![r] = IF fetched'[r] = <<>> THEN "commit" ELSE "find"]
                /\ since' = since
           ELSE since' = [since EXCEPT ![r] = page[n].product] /\ pc' = pc
  BY <1>2
<1>4. CASE n < PageSize
  <2>1. since' = since /\ \/ pc' = [pc EXCEPT ![r] = "commit"]
                          \/ pc' = [pc EXCEPT ![r] = "find"]
    BY <1>3, <1>4
  <2>2. pc'[r] \in {"commit", "find"} /\ \A q \in Runs \ {r} : pc'[q] = pc[q]
    BY <2>1 DEF TypeInv, TypeOK
  <2>3. Distance[pc'[r]] < Distance[pc[r]]
    BY <1>1, <2>2, Distances
  <2> QED
    BY <1>1, <2>1, <2>2, <2>3 DEF GoesOn
<1>5. CASE ~(n < PageSize)
  <2>1. n = PageSize /\ n \in 1..n
    BY <1>5, CatalogAssumption
  <2>2. since' = [since EXCEPT ![r] = page[n].product] /\ pc' = pc
    BY <1>3, <1>5
  <2>3. page[n].product > since[r]
    BY <1>3, <2>1 DEF IsPage
  <2>4. since'[r] > since[r] /\ \A q \in Runs \ {r} : since'[q] = since[q]
    BY <2>2, <2>3 DEF TypeInv, TypeOK
  <2> QED
    BY <1>1, <2>2, <2>4 DEF GoesOn
<1> QED
  BY <1>4, <1>5

LEMMA RunStepGoesOn ==
  ASSUME TypeInv, [Next]_vars
  PROVE  [SomeRunGoesOn]_vars
<1> SUFFICES ASSUME Next PROVE SomeRunGoesOn
  OBVIOUS
<1>1. CASE Edit
  BY <1>1 DEF Edit, SomeRunGoesOn, TypeInv, TypeOK
<1> SUFFICES ASSUME NEW r \in Runs, Start(r) \/ Step(r) \/ Crash(r)
             PROVE  /\ GoesOn(r)
                    /\ \A q \in Runs \ {r} :
                         pc'[q] = pc[q] /\ since'[q] = since[q] /\ at'[q] = at[q]
  BY <1>1 DEF Next, SomeRunGoesOn
<1>2. ASSUME NEW l \in Labels, pc' = [pc EXCEPT ![r] = l], since' = since, at' = at,
             Distance[l] < Distance[pc[r]]
      PROVE  /\ GoesOn(r)
             /\ \A q \in Runs \ {r} : pc'[q] = pc[q] /\ since'[q] = since[q] /\ at'[q] = at[q]
  BY <1>2 DEF GoesOn, TypeInv, TypeOK
<1>3. CASE Start(r)
  <2>1. pc[r] = "idle" /\ pc' = [pc EXCEPT ![r] = "fetch"] /\ since' = since /\ at' = at
    BY <1>3 DEF Start, run
  <2> QED
    BY <1>2, <2>1, Distances DEF Labels
<1>4. CASE Fetch(r)
  BY <1>4, FetchGoesOn
<1>5. CASE FetchFails(r) \/ Commit(r)
  <2>1. /\ pc[r] \in {"fetch", "commit"} /\ pc' = [pc EXCEPT ![r] = "over"]
        /\ since' = since /\ at' = at
    BY <1>5 DEF FetchFails, Commit
  <2> QED
    BY <1>2, <2>1, Distances DEF Labels
<1>6. CASE Find(r)
  <2>1. CASE NextProduct(r)
    BY <1>6, <2>1, NextProductGoesOn DEF Find
  <2>2. CASE pc' = [pc EXCEPT ![r] = "flush"] /\ at' = at
    <3>1. pc[r] = "find" /\ since' = since
      BY <1>6 DEF Find
    <3> QED
      BY <1>2, <2>2, <3>1, Distances DEF Labels
  <2> QED
    BY <1>6, <2>1, <2>2 DEF Find, CountError
<1>7. CASE Flush(r)
  <2>1. pc[r] = "flush" /\ pc' = [pc EXCEPT ![r] = "embed"] /\ since' = since /\ at' = at
    BY <1>7 DEF Flush
  <2> QED
    BY <1>2, <2>1, Distances DEF Labels
<1>8. CASE Embed(r)
  <2>1. pc[r] = "embed" /\ pc' = [pc EXCEPT ![r] = "point"] /\ since' = since /\ at' = at
    BY <1>8 DEF Embed, run
  <2> QED
    BY <1>2, <2>1, Distances DEF Labels
<1>9. CASE Upsert(r) \/ Failure(r)
  <2>1. NextProduct(r) /\ since' = since
    BY <1>9 DEF Upsert, Failure, CountError
  <2> QED
    BY <2>1, NextProductGoesOn
<1>10. CASE Crash(r)
  <2>1. /\ pc[r] \in Labels \ {"idle", "over"} /\ pc' = [pc EXCEPT ![r] = "over"]
        /\ since' = since /\ at' = at
    BY <1>10 DEF Crash, Active, TypeInv, TypeOK
  <2>2. Distance["over"] < Distance[pc[r]]
    BY <2>1, Distances DEF Labels
  <2> QED
    BY <1>2, <2>1, <2>2 DEF Labels
<1> QED
  BY <1>3, <1>4, <1>5, <1>6, <1>7, <1>8, <1>9, <1>10, Failures DEF Step

\* No run goes over a page or a product again: every step of the sync takes
\* one run on and leaves the others where they are, unless the shop changes.
THEOREM RunsGoOn == Spec => [][SomeRunGoesOn]_vars
<1> QED
  BY RunStepGoesOn, Invariance, PTL DEF Spec

\* The runs whose next statement can be taken: the guards of Step.
Ready(r) ==
  \/ pc[r] \in {"fetch", "find", "embed", "point", "commit"}
  \/ /\ pc[r] = "flush"
     /\ ~Blocked(r) \/ \E q \in Runs \ {r} : pc[q] = "flush" /\ Blocked(q)

\* A run that is at work can go on, or waits for one that can.
WaitsForTheReady ==
  \A r \in Runs : Active(r) =>
    Ready(r) \/ \E q \in Runs \ {r} : mine[q] # {} /\ Ready(q)

\* The locks of a run's rows and SKUs are never waited for in vain, for any
\* number of runs: whoever holds them can go on, or is in a deadlock with the
\* one who waits, which Postgres ends.
THEOREM LocksAreReleased == Spec => []WaitsForTheReady
<1>1. TypeInv => WaitsForTheReady
  <2> SUFFICES ASSUME TypeInv, NEW r \in Runs, Active(r), ~Ready(r)
               PROVE  \E q \in Runs \ {r} : mine[q] # {} /\ Ready(q)
    BY DEF WaitsForTheReady
  <2>1. pc[r] = "flush" /\ Blocked(r) /\ ~ \E q \in Runs \ {r} : pc[q] = "flush" /\ Blocked(q)
    BY DEF TypeInv, TypeOK, Labels, Active, Ready
  <2>2. PICK q \in Runs \ {r} : mine[q] # {}
    BY <2>1 DEF Blocked
  <2>3. pc[q] \in {"find", "flush", "embed", "point", "commit"}
    BY <2>2 DEF TypeInv, TypeOK, Position, Labels
  <2>4. pc[q] = "flush" => ~Blocked(q)
    BY <2>1
  <2> QED
    BY <2>2, <2>3, <2>4 DEF Ready
<1> QED
  BY <1>1, Invariance, PTL
=============================================================================
