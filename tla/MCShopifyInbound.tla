--------------------------- MODULE MCShopifyInbound ---------------------------
(* Instances of ShopifyInbound for TLC: one listing with two inventory     *)
(* items, quantities up to two, two versions of the product.               *)
EXTENDS ShopifyInbound, Functions, TLC

CONSTANTS w1, w2, e1, e2, e3, i1, i2, v1, v2

(* The reduce() over variant quantities that catalogPlan and               *)
(* buildWebhookPlan compute.                                               *)
SumOfQuantities(v) ==
  FoldFunction(LAMBDA q, sum : IF q = Absent THEN sum ELSE q + sum, 0, v)

Product(version) == [topic |-> "products/update", version |-> version]
Level(item, q) ==
  [topic |-> "inventory_levels/update", item |-> item, available |-> q]
Delivery(e, p) == [event |-> e, payload |-> p]

(* An import, and a level that a second body under its identity            *)
(* contradicts.                                                            *)
StockDeliveries ==
  {Delivery(e1, Product(v1)), Delivery(e2, Level(i1, 0)), Delivery(e2, Level(i2, 0))}

(* An import and a level of each item.                                     *)
TwoLevels ==
  {Delivery(e1, Product(v1)), Delivery(e2, Level(i1, 0)), Delivery(e3, Level(i2, 0))}

(* Two versions of one product, and a level under the second identity.     *)
ProductAndLevel ==
  {Delivery(e1, Product(v1)), Delivery(e2, Product(v2)), Delivery(e2, Level(i1, 0)),
   Delivery(e2, [topic |-> "other"])}

OneOfEach == {[i \in Items |-> 1]}
=============================================================================
