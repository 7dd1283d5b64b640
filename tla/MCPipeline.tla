----------------------------- MODULE MCPipeline -----------------------------
(* Small instances of Pipeline for TLC. *)
EXTENDS Pipeline, TLC

CONSTANTS RestMax, GrpcMax

MCMax == [c \in Channels |-> IF c = "rest" THEN RestMax ELSE GrpcMax]

Symmetry == Permutations(Items) \cup Permutations(Workers)
=============================================================================
