------------------------------ MODULE MCFabric ------------------------------
(* Fabric with one token for all Workers.                                  *)
EXTENDS Fabric, TLC

CONSTANTS
    a,      \* the token
    Cap     \* its max_workers

MCMaxWorkers == [t \in Tokens |-> Cap]
MCTokenOf == [w \in Workers |-> a]
FabricSymmetry == Permutations(Conns) \cup Permutations(Workers) \cup Permutations(WorkerIds)
=============================================================================
