------------------------------ MODULE SlotPool ------------------------------
(***************************************************************************)
(* What the Master promises about Worker slots (tokens.py: max_workers,    *)
(* revoke; server.py: class docstring), with no tasks, sockets or tables:  *)
(* each token has a pool of at most Limit members, a member is in one pool *)
(* and leaves it only for good, and a withdrawn token (expired or revoked) *)
(* takes nobody in again, ever.                                            *)
(***************************************************************************)
EXTENDS Integers, FiniteSets

CONSTANTS Tokens, Conns, Unlimited, Limit

VARIABLES
    members,    \* who is in the pool of each token
    withdrawn   \* tokens that take nobody in any more

poolVars == <<members, withdrawn>>

HasPlace(t) == Limit[t] # Unlimited => Cardinality(members[t]) < Limit[t]

PoolInit ==
    /\ members = [t \in Tokens |-> {}]
    /\ withdrawn = {}

Enter(c, t) ==
    /\ t \notin withdrawn
    /\ HasPlace(t)
    /\ \A s \in Tokens : c \notin members[s]
    /\ members' = [members EXCEPT ![t] = @ \cup {c}]
    /\ UNCHANGED withdrawn

\* One member goes, or all do when the Master dies.
Leave(gone) ==
    /\ members' = [t \in Tokens |-> members[t] \ gone]
    /\ UNCHANGED withdrawn

Withdraw(t) ==
    /\ withdrawn' = withdrawn \cup {t}
    /\ UNCHANGED members

PoolNext ==
    \/ \E c \in Conns, t \in Tokens : Enter(c, t)
    \/ \E c \in Conns : Leave({c})
    \/ Leave(Conns)
    \/ \E t \in Tokens : Withdraw(t)

PoolSpec == PoolInit /\ [][PoolNext]_poolVars
=============================================================================
