---------------------------- MODULE MCEnginePool ----------------------------
(* A small pool for TLC.  Engines, requests and generations are            *)
(* interchangeable.                                                        *)
EXTENDS EnginePool, TLC

Symmetry == Permutations(Engines) \cup Permutations(Requests)
=============================================================================
