-------------------------- MODULE MCEmbeddingModel --------------------------
(***************************************************************************)
(* Instances of EmbeddingModel: two models whose vectors have the same     *)
(* length, and one whose vectors are longer.                               *)
(***************************************************************************)
EXTENDS EmbeddingModel

CONSTANTS nomic, other, large

Lengths == [m \in Models |-> IF m = large THEN 2 ELSE 1]
=============================================================================
