------------------------------ MODULE MCMaster ------------------------------
(* Master with a token for two Workers and one for any number.             *)
EXTENDS Master, TLC

CONSTANTS a, u

MCMaxWorkers == (a :> 2) @@ (u :> Unlimited)
=============================================================================
