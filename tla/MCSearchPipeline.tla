-------------------------- MODULE MCSearchPipeline --------------------------
(* Values for the constants of SearchPipeline that a .cfg cannot write.    *)
EXTENDS SearchPipeline, TLC

CONSTANTS e1, e2, e3, n1, n2

\* Two engines on one network and, if there is a third, one of its own.
MCNetworkOf == [e \in Engines |-> IF e = e3 THEN n2 ELSE n1]

\* The first engine is slower than the others.
MCEngineTimeout == [e \in Engines |-> IF e = e1 THEN 2 ELSE 1]

=============================================================================
