--------------------------- MODULE MCRemoteBatch ---------------------------
(***************************************************************************)
(* A product's standalone picture with other machines at work; a variant   *)
(* of it in another color may be added to Jobs.                            *)
(***************************************************************************)
EXTENDS RemoteBatch

CONSTANTS product, variant, mini, laptop

MCSource == [j \in Jobs |-> IF j = variant THEN product ELSE None]
=============================================================================
