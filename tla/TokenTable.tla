----------------------------- MODULE TokenTable -----------------------------
(***************************************************************************)
(* What the state store promises about its `tokens` table, the only one    *)
(* that anybody reads back while the Master runs or at its start.          *)
(*                                                                         *)
(* The store has one connection and every save is a statement and a        *)
(* commit.  A save that raises may have failed in the statement (nothing   *)
(* of it happened), in the commit (SQLITE_BUSY, as under the online backup *)
(* of operations.md: the statement stays in the open transaction, which    *)
(* the next commit of any save makes durable), or in a way that made       *)
(* SQLite roll the whole transaction back (disk full, I/O error).          *)
(*                                                                         *)
(* TokenService uses the table through these definitions; StateStore, in   *)
(* which the other tables share the transaction, implements TableSpec.     *)
(***************************************************************************)
CONSTANTS
    Tokens,        \* the primary keys
    StoreErrors    \* the ways in which a save may fail

ASSUME StoreErrorsAssumption == StoreErrors \subseteq {"statement", "commit", "rollback"}

VARIABLES
    row,    \* durable: the committed row of each jti
    tx      \* the rows as the Master's connection sees them

tableVars == <<row, tx>>

RowState == {"absent", "valid", "revoked"}

\* save_token(): the row the minted token gets.
RowAfterIssue_NotSaved(t) == tx
RowAfterIssue(t) == [tx EXCEPT ![t] = "valid"]

\* set_token_revoked(jti): an UPDATE, which touches no row if the jti is unknown.
RowAfterRevoke_Lost(t) == tx
RowAfterRevoke(t) ==
    IF tx[t] = "absent" THEN tx ELSE [tx EXCEPT ![t] = "revoked"]

\* A save that returns: all the transaction holds is durable with it.
Commits(tab) == row' = tab /\ tx' = tab

\* A save of `tab` over the committed rows `done` that raises.
StoreFails(done, tab) ==
    /\ row' = done
    /\ \/ "statement" \in StoreErrors /\ tx' = tx
       \/ "commit" \in StoreErrors /\ tx' = tab
       \/ "rollback" \in StoreErrors /\ tx' = done

\* The process dies: SQLite drops what was not committed.
TransactionLost == row' = row /\ tx' = row

TableInit ==
    /\ row = [t \in Tokens |-> "absent"]
    /\ tx = row

\* The rows of tokens that a save of any table may leave.
Writes == {tx} \cup {RowAfterIssue(t) : t \in Tokens} \cup {RowAfterRevoke(t) : t \in Tokens}

\* One call, and so one step, may be two saves (the room and the token) of
\* which the second fails.
TableNext ==
    \/ \E tab \in Writes : Commits(tab) \/ StoreFails(row, tab) \/ StoreFails(tx, tab)
    \/ TransactionLost

TableSpec == TableInit /\ [][TableNext]_tableVars
=============================================================================
