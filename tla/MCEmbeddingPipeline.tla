------------------------ MODULE MCEmbeddingPipeline ------------------------
(* EmbeddingPipeline on small instances.                                    *)
EXTENDS EmbeddingPipeline, TLC

(* Items, requests and workers are interchangeable.                         *)
Symmetry == Permutations(Items) \cup Permutations(Requests) \cup Permutations(Workers)
=============================================================================
