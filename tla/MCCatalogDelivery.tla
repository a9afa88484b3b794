------------------------- MODULE MCCatalogDelivery --------------------------
(* A file that the first scripts share, one that is pinned as it is read,  *)
(* selections of several scripts, and one that is packed.  Three commerce  *)
(* cases, of which the first and the last are the pilot.                   *)
EXTENDS CatalogDelivery
CONSTANTS direct, assets
Files == {"source", "findings", "component selection", "completion selection",
          "module"}
ThreeCases == <<"sale", "second sale", "backorder">>
OneOfEachKind == <<"sale", "backorder">>
=============================================================================
