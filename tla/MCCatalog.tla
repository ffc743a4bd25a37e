------------------------------ MODULE MCCatalog ------------------------------
(* Two products, two runs, three offers: the SKU, the price and the status *)
(* change, and a SKU moves from one product to the other.                  *)
EXTENDS Catalog

CONSTANTS a, b

ThreeOffers ==
  {[sku |-> a, price |-> 1, live |-> TRUE],
   [sku |-> b, price |-> 2, live |-> TRUE],
   [sku |-> b, price |-> 1, live |-> FALSE]}

\* Each product with a SKU of its own.
TwoProducts ==
  {[p \in Products |->
      {o \in ThreeOffers : o.live /\ o.sku = (IF p = 1 THEN a ELSE b)}]}
\* The first product is new, or an earlier run has stored it.
OneOrNone == {{}, {1}}
=============================================================================
