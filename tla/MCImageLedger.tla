--------------------------- MODULE MCImageLedger ---------------------------
(***************************************************************************)
(* A product's standalone picture and a variant of it in another color.    *)
(***************************************************************************)
EXTENDS ImageLedger

CONSTANTS product, variant

MCJobs == {product, variant}
MCSource == [j \in MCJobs |-> IF j = variant THEN product ELSE None]
=============================================================================
