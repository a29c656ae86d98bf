-------------------------- MODULE MCControlServer --------------------------
(* ControlServer with a token that is capped and others that are not.      *)
EXTENDS ControlServer, TLC

CONSTANTS
    a,      \* the capped token
    Cap     \* its max_workers

MCMaxWorkers == [t \in Tokens |-> IF t = a THEN Cap ELSE Unlimited]
ConnSymmetry == Permutations(Conns)
=============================================================================
