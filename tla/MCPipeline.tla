----------------------------- MODULE MCPipeline -----------------------------
(* Model checking of Pipeline: the clients are interchangeable.            *)
EXTENDS Pipeline, TLC

ClientSymmetry == Permutations(Clients)
=============================================================================
