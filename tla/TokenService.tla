---------------------------- MODULE TokenService ----------------------------
(***************************************************************************)
(* The Master's Invite Token service: master/tokens.py, class              *)
(* TokenService, over the `tokens` table of master/state.py (TokenTable).  *)
(*                                                                         *)
(* A member of Tokens stands for one signed token and for the jti inside   *)
(* it.  A token that has not been handed out stands for a string the       *)
(* Master's key did not sign: jwt.decode refuses it.  The signing key is   *)
(* injected and is the same after a restart.                               *)
(*                                                                         *)
(* The module is written to be extended: every action leaves the state of  *)
(* other components alone and does not mention it, so its names start      *)
(* with Tok where a composing module has a formula of the same kind.       *)
(***************************************************************************)
EXTENDS Integers, TokenTable

CONSTANTS
    Unlimited,   \* max_workers=None
    MaxWorkers,  \* the max_workers claim of each token
    LiveBound    \* bound: TokNext admits no further once a count is this high

ASSUME UnlimitedAssumption == Unlimited \notin Nat
ASSUME MaxWorkersAssumption == MaxWorkers \in [Tokens -> Nat \cup {Unlimited}]
ASSUME LiveBoundAssumption == LiveBound \in Nat

VARIABLES
    up,          \* the Master process runs
    revoked,     \* in memory: TokenService._revoked
    live,        \* in memory: TokenService._live
    handedOut,   \* history: tokens whose issue() returned to its caller
    expired,     \* tokens whose `exp` has passed
    revokeDone   \* history: jtis for which a revoke() call has returned

tokVars == <<up, row, tx, revoked, live, handedOut, expired, revokeDone>>

TokTypeOK ==
    /\ up \in BOOLEAN
    /\ row \in [Tokens -> RowState]
    /\ tx \in [Tokens -> RowState]
    /\ revoked \subseteq Tokens
    /\ live \in [Tokens -> Nat]
    /\ handedOut \subseteq Tokens
    /\ expired \subseteq Tokens
    /\ revokeDone \subseteq Tokens

-----------------------------------------------------------------------------
(* What the methods compute.                                               *)

\* verify() succeeds: signed by the Master, not expired, jti not in _revoked.
Verifies_NoRevocationCheck(t) == t \in handedOut /\ t \notin expired
Verifies(t) == t \in handedOut /\ t \notin expired /\ t \notin revoked

\* admit() has a free slot: unlimited, or fewer live Workers than the claim.
HasRoom_OffByOne(t) == MaxWorkers[t] # Unlimited => live[t] <= MaxWorkers[t]
HasRoom_NoneIsZero(t) == MaxWorkers[t] # Unlimited /\ live[t] < MaxWorkers[t]
HasRoom(t) == MaxWorkers[t] # Unlimited => live[t] < MaxWorkers[t]

\* The count after admit() took a slot, and after release() gave one back:
\* release floors at zero, so that a stray call cannot make room for one more.
LiveAfterAdmit(t) == [live EXCEPT ![t] = @ + 1]
LiveAfterRelease_NoFloor(t) == [live EXCEPT ![t] = @ - 1]
LiveAfterRelease(t) == [live EXCEPT ![t] = IF @ > 0 THEN @ - 1 ELSE 0]

\* _revoked after revoke(): the set is changed first, so that a failing UPDATE
\* (ok = FALSE), which may still be committed later, is covered by it.
RevokedAfter_TableFirst(t, ok) == IF ok THEN revoked \cup {t} ELSE revoked
RevokedAfter(t, ok) == revoked \cup {t}

\* load_revoked_jtis(): what __init__ rebuilds the in-memory set from.
LoadRevokedJtis_Forgets == {}
LoadRevokedJtis == {t \in Tokens : row[t] = "revoked"}

\* uuid4 mints a jti nobody has stored or named before.
Fresh_Retried(t) == t \notin handedOut
Fresh(t) == tx[t] = "absent" /\ t \notin revokeDone /\ t \notin revoked

NoneLive == [t \in Tokens |-> 0]

-----------------------------------------------------------------------------
(* A fresh database and a Master that has not started.                     *)
TokInit ==
    /\ up = FALSE
    /\ TableInit
    /\ revoked = {}
    /\ live = NoneLive
    /\ handedOut = {}
    /\ expired = {}
    /\ revokeDone = {}

\* __init__: the revocation set comes back from the rows, the counts do not.
TokStart ==
    /\ ~up
    /\ up' = TRUE
    /\ revoked' = LoadRevokedJtis
    /\ live' = NoneLive
    /\ TransactionLost         \* the store opens a new connection
    /\ UNCHANGED <<handedOut, expired, revokeDone>>

\* The memory of a process that dies is gone.
MemoryLost ==
    /\ up' = FALSE
    /\ revoked' = {}
    /\ live' = NoneLive

\* The process dies: committed rows stay.
TokCrash ==
    /\ up
    /\ MemoryLost
    /\ TransactionLost
    /\ UNCHANGED <<handedOut, expired, revokeDone>>

\* issue(): the room and the row are committed before the string is returned.
Issue(t) ==
    /\ up
    /\ Fresh(t)
    /\ Commits(RowAfterIssue(t))
    /\ handedOut' = handedOut \cup {t}
    /\ UNCHANGED <<up, revoked, live, expired, revokeDone>>

\* issue() that raises: in save_room, or in save_token after save_room has
\* committed what the transaction held.
IssueFails(t) ==
    /\ up
    /\ Fresh(t)
    /\ StoreFails(row, tx) \/ StoreFails(tx, RowAfterIssue(t))
    /\ UNCHANGED <<up, revoked, live, handedOut, expired, revokeDone>>

\* issue() dies after the commit of the room or of the row, before it returns.
IssueThenCrash(t) ==
    /\ up
    /\ Fresh(t)
    /\ Commits(tx) \/ Commits(RowAfterIssue(t))
    /\ MemoryLost
    /\ UNCHANGED <<handedOut, expired, revokeDone>>

\* revoke(): the in-memory set, then the row; then the call returns.
Revoke(t) ==
    /\ up
    /\ revoked' = RevokedAfter(t, TRUE)
    /\ Commits(RowAfterRevoke(t))
    /\ revokeDone' = revokeDone \cup {t}
    /\ UNCHANGED <<up, live, handedOut, expired>>

\* revoke() whose save raises: memory has it, the caller does not know.
RevokeStoreError(t) ==
    /\ up
    /\ revoked' = RevokedAfter(t, FALSE)
    /\ StoreFails(row, RowAfterRevoke(t))
    /\ UNCHANGED <<up, live, handedOut, expired, revokeDone>>

\* revoke() dies between the commit of the row and the return.
RevokeThenCrash(t) ==
    /\ up
    /\ Commits(RowAfterRevoke(t))
    /\ MemoryLost
    /\ UNCHANGED <<handedOut, expired, revokeDone>>

\* The clock passes the `exp` of a minted token, whether or not the Master runs.
Expire(t) ==
    /\ tx[t] # "absent"
    /\ t \notin expired
    /\ expired' = expired \cup {t}
    /\ UNCHANGED <<up, row, tx, revoked, live, handedOut, revokeDone>>

\* admit() that returns True, and the save its caller may then ask for in
\* another table; an admit() that returns False changes nothing.
Admit(t) ==
    /\ up
    /\ HasRoom(t)
    /\ live' = LiveAfterAdmit(t)
    /\ UNCHANGED <<row, tx>> \/ Commits(tx) \/ StoreFails(row, tx)
    /\ UNCHANGED <<up, revoked, handedOut, expired, revokeDone>>

Release(t) ==
    /\ up
    /\ live' = LiveAfterRelease(t)
    /\ UNCHANGED <<up, row, tx, revoked, handedOut, expired, revokeDone>>

\* The operator's calls and the passing of time, the same in every composition.
TokAdmin ==
    \E t \in Tokens :
        Issue(t) \/ IssueFails(t) \/ Revoke(t) \/ RevokeStoreError(t) \/ Expire(t)

\* The steps at which the process dies in the middle of an operator's call.
TokCrashInCall == \E t \in Tokens : IssueThenCrash(t) \/ RevokeThenCrash(t)

\* The service under any caller: claims verified at some time may be admitted
\* later, and release may be called more often than admit.
TokNext ==
    \/ TokStart
    \/ TokCrash
    \/ TokAdmin
    \/ TokCrashInCall
    \/ \E t \in handedOut : live[t] < LiveBound /\ Admit(t)
    \/ \E t \in Tokens : Release(t)

TokSpec == TokInit /\ [][TokNext]_tokVars

-----------------------------------------------------------------------------
(* The count never passes the claim, however admit and release are called. *)
(* (TokenService.admit: "True if under the cap, else False".)              *)
LiveWithinCap == \A t \in Tokens : MaxWorkers[t] # Unlimited => live[t] <= MaxWorkers[t]

(* A token whose revoke() returned never verifies again, not after any     *)
(* number of crashes and restarts either.  (TokenService.revoke: "durable  *)
(* and effective for all future verify calls".)                            *)
RevocationIsForever == up => \A t \in revokeDone : ~Verifies(t)

(* While the Master runs, memory knows every revocation the table has, be  *)
(* it durable or still in the open transaction: verify() consults memory   *)
(* only, and a failed revoke() may become durable with a later save.       *)
(* (__init__ rebuilds the set, revoke adds to it before the UPDATE.)       *)
MemoryCoversTable ==
    up => \A t \in Tokens : "revoked" \in {row[t], tx[t]} => t \in revoked

(* A token somebody holds has a row: set_token_revoked then has something  *)
(* to update, and save_worker's REFERENCES tokens(jti) cannot fail on it.  *)
(* (issue() commits the row before it returns the string.)                 *)
HandedOutHasRow == \A t \in handedOut : row[t] # "absent"

(* A row that is durably revoked stays revoked: no failed, retried or      *)
(* rolled back save brings it back, although save_token's upsert would set *)
(* revoked to 0 on a jti that is stored already.                           *)
RevokedRowStays ==
    [][\A t \in Tokens : row[t] = "revoked" => row'[t] = "revoked"]_tokVars
=============================================================================
