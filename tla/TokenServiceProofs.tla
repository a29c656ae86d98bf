------------------------- MODULE TokenServiceProofs -------------------------
(***************************************************************************)
(* Theorems about TokenService, for every set of tokens and every claim.   *)
(* The lemmas are stated for TokStep, which is TokNext without its bound   *)
(* on the counts, so that a composing module can cite them too.            *)
(***************************************************************************)
EXTENDS TokenService, TLAPS

TokStep ==
    \/ TokStart
    \/ TokCrash
    \/ TokAdmin
    \/ TokCrashInCall
    \/ \E t \in handedOut : Admit(t)
    \/ \E t \in Tokens : Release(t)

\* A finished revoke() of a minted token is in the table for good.
RevocationsInTable ==
    \A t \in revokeDone :
        /\ row[t] # "absent" => row[t] = "revoked"
        /\ tx[t] # "absent" => tx[t] = "revoked"

\* The open transaction adds to the committed rows and takes nothing back.
TxExtendsRow ==
    \A t \in Tokens :
        /\ row[t] # "absent" => tx[t] # "absent"
        /\ row[t] = "revoked" => tx[t] = "revoked"

\* The inductive invariant: RevocationIsForever alone says nothing of a Master
\* that is down, so it must be carried through the restart by the table.
TableInv ==
    /\ MemoryCoversTable
    /\ RevocationsInTable
    /\ TxExtendsRow
    /\ HandedOutHasRow
TokInv == TokTypeOK /\ LiveWithinCap /\ TableInv

(* A claim is a number or is absent.                                       *)
LEMMA CapFacts ==
    \A t \in Tokens : MaxWorkers[t] \in Nat \/ MaxWorkers[t] = Unlimited
BY MaxWorkersAssumption

(* With nobody live, as after a crash, no cap is exceeded.                 *)
LEMMA NoneLiveFacts ==
    /\ NoneLive \in [Tokens -> Nat]
    /\ live' = NoneLive => LiveWithinCap'
<1>1. NoneLive \in [Tokens -> Nat]
    BY DEF NoneLive
<1>2. ASSUME live' = NoneLive PROVE LiveWithinCap'
    BY <1>2, CapFacts DEF LiveWithinCap, NoneLive
<1> QED BY <1>1, <1>2

(* Every initial state satisfies the invariant.                            *)
LEMMA TokInvInit == TokInit => TokInv
<1> SUFFICES ASSUME TokInit PROVE TokInv
    OBVIOUS
<1> USE DEF TokInit, TableInit
<1>1. TokTypeOK
    BY DEF TokTypeOK, RowState, NoneLive
<1>2. LiveWithinCap
    BY CapFacts DEF LiveWithinCap, NoneLive
<1>3. TableInv
    BY DEF TableInv, MemoryCoversTable, RevocationsInTable, TxExtendsRow, HandedOutHasRow
<1> QED BY <1>1, <1>2, <1>3 DEF TokInv

(* A call of issue, in any of its outcomes, leaves rows of known kinds: it *)
(* commits what is pending, adds the one row, or fails on the way.         *)
LEMMA IssueRows ==
    ASSUME TokTypeOK, TxExtendsRow, NEW t \in Tokens, Fresh(t),
           \/ Commits(tx) \/ Commits(RowAfterIssue(t))
           \/ StoreFails(row, tx) \/ StoreFails(tx, RowAfterIssue(t))
    PROVE  /\ row' \in [Tokens -> RowState] /\ tx' \in [Tokens -> RowState]
           /\ \A s \in Tokens \ {t} : row'[s] \in {row[s], tx[s]} /\ tx'[s] \in {row[s], tx[s]}
           /\ row'[t] \in {"absent", "valid"} /\ tx'[t] \in {"absent", "valid"}
           /\ TxExtendsRow'
           /\ \A s \in Tokens : row[s] # "absent" => row'[s] # "absent"
BY DEF TokTypeOK, TxExtendsRow, Fresh, Commits, StoreFails, RowAfterIssue, RowState

(* A call of revoke, in any of its outcomes, changes no other row and adds *)
(* none; when it commits, the row it changes is revoked for good.          *)
LEMMA RevokeRows ==
    ASSUME TokTypeOK, TxExtendsRow, NEW t \in Tokens,
           Commits(RowAfterRevoke(t)) \/ StoreFails(row, RowAfterRevoke(t))
    PROVE  /\ row' \in [Tokens -> RowState] /\ tx' \in [Tokens -> RowState]
           /\ \A s \in Tokens \ {t} : row'[s] \in {row[s], tx[s]} /\ tx'[s] \in {row[s], tx[s]}
           /\ TxExtendsRow'
           /\ \A s \in Tokens : row[s] # "absent" => row'[s] # "absent"
           /\ row[t] = "revoked" => row'[t] = "revoked" /\ tx'[t] = "revoked"
           /\ tx[t] = "absent" => row'[t] = "absent" /\ tx'[t] = "absent"
           /\ Commits(RowAfterRevoke(t)) =>
                row'[t] \in {"absent", "revoked"} /\ tx'[t] \in {"absent", "revoked"}
BY DEF TokTypeOK, TxExtendsRow, Commits, StoreFails, RowAfterRevoke, RowState

(* A save of another table commits what is pending, or fails.              *)
LEMMA OtherRows ==
    ASSUME TokTypeOK, TxExtendsRow,
           UNCHANGED <<row, tx>> \/ Commits(tx) \/ StoreFails(row, tx) \/ TransactionLost
    PROVE  /\ row' \in [Tokens -> RowState] /\ tx' \in [Tokens -> RowState]
           /\ \A s \in Tokens : row'[s] \in {row[s], tx[s]} /\ tx'[s] \in {row[s], tx[s]}
           /\ TxExtendsRow'
           /\ \A s \in Tokens : row[s] # "absent" => row'[s] # "absent"
BY DEF TokTypeOK, TxExtendsRow, Commits, StoreFails, TransactionLost, RowState

(* Every call, crash and restart preserves it.                             *)
LEMMA TokInvStep == TokInv /\ [TokStep]_tokVars => TokInv'
<1> SUFFICES ASSUME TokInv, [TokStep]_tokVars PROVE TokInv'
    OBVIOUS
<1> USE DEF TokInv, TableInv, TokTypeOK
<1> DEFINE Agree == MemoryCoversTable /\ RevocationsInTable /\ HandedOutHasRow
<1>1. CASE TokStart
    <2>1. TokTypeOK' /\ LiveWithinCap' /\ TxExtendsRow'
        BY <1>1, NoneLiveFacts, OtherRows DEF TokStart, LoadRevokedJtis
    <2>2. Agree'
        BY <1>1 DEF TokStart, TransactionLost, LoadRevokedJtis, MemoryCoversTable,
                    RevocationsInTable, HandedOutHasRow
    <2> QED BY <2>1, <2>2
<1>2. CASE TokCrash
    <2>1. TokTypeOK' /\ LiveWithinCap' /\ TxExtendsRow'
        BY <1>2, NoneLiveFacts, OtherRows DEF TokCrash, MemoryLost
    <2>2. Agree'
        BY <1>2 DEF TokCrash, MemoryLost, TransactionLost, MemoryCoversTable,
                    RevocationsInTable, HandedOutHasRow
    <2> QED BY <2>1, <2>2
<1>3. ASSUME NEW t \in Tokens, Issue(t) \/ IssueFails(t) PROVE TokInv'
    <2>1. /\ row' \in [Tokens -> RowState] /\ tx' \in [Tokens -> RowState]
          /\ \A s \in Tokens \ {t} : row'[s] \in {row[s], tx[s]} /\ tx'[s] \in {row[s], tx[s]}
          /\ row'[t] \in {"absent", "valid"} /\ tx'[t] \in {"absent", "valid"}
          /\ TxExtendsRow'
          /\ \A s \in Tokens : row[s] # "absent" => row'[s] # "absent"
        BY <1>3, IssueRows DEF Issue, IssueFails
    <2>2. TokTypeOK' /\ LiveWithinCap'
        BY <1>3, <2>1 DEF Issue, IssueFails, LiveWithinCap
    <2>3. MemoryCoversTable' /\ RevocationsInTable'
        BY <1>3, <2>1 DEF Issue, IssueFails, Fresh, MemoryCoversTable, RevocationsInTable
    <2>4. HandedOutHasRow'
        BY <1>3, <2>1 DEF Issue, IssueFails, Commits, RowAfterIssue, HandedOutHasRow
    <2> QED BY <2>1, <2>2, <2>3, <2>4
<1>4. ASSUME NEW t \in Tokens, Revoke(t) \/ RevokeStoreError(t) PROVE TokInv'
    <2>1. /\ row' \in [Tokens -> RowState] /\ tx' \in [Tokens -> RowState]
          /\ \A s \in Tokens \ {t} : row'[s] \in {row[s], tx[s]} /\ tx'[s] \in {row[s], tx[s]}
          /\ TxExtendsRow'
          /\ \A s \in Tokens : row[s] # "absent" => row'[s] # "absent"
          /\ row[t] = "revoked" => row'[t] = "revoked" /\ tx'[t] = "revoked"
          /\ tx[t] = "absent" => row'[t] = "absent" /\ tx'[t] = "absent"
        BY <1>4, RevokeRows DEF Revoke, RevokeStoreError
    <2>2. TokTypeOK' /\ LiveWithinCap'
        BY <1>4, <2>1 DEF Revoke, RevokeStoreError, RevokedAfter, LiveWithinCap
    <2>3. MemoryCoversTable' /\ HandedOutHasRow'
        BY <1>4, <2>1 DEF Revoke, RevokeStoreError, RevokedAfter, MemoryCoversTable,
                          HandedOutHasRow
    <2>4. RevocationsInTable'
        <3>1. CASE Revoke(t)
            <4>1. row'[t] \in {"absent", "revoked"} /\ tx'[t] \in {"absent", "revoked"}
                BY <3>1, RevokeRows DEF Revoke
            <4> QED BY <3>1, <2>1, <4>1 DEF Revoke, RevocationsInTable, RowState
        <3>2. CASE RevokeStoreError(t)
            BY <3>2, <2>1
            DEF RevokeStoreError, RevocationsInTable, StoreFails, RowAfterRevoke, TxExtendsRow
        <3> QED BY <1>4, <3>1, <3>2
    <2> QED BY <2>1, <2>2, <2>3, <2>4
<1>5. ASSUME NEW t \in Tokens, Expire(t) PROVE TokInv'
    BY <1>5 DEF Expire, LiveWithinCap, MemoryCoversTable, RevocationsInTable,
                TxExtendsRow, HandedOutHasRow
<1>6. ASSUME NEW t \in Tokens, IssueThenCrash(t) PROVE TokInv'
    <2>1. /\ row' \in [Tokens -> RowState] /\ tx' \in [Tokens -> RowState]
          /\ \A s \in Tokens \ {t} : row'[s] \in {row[s], tx[s]} /\ tx'[s] \in {row[s], tx[s]}
          /\ TxExtendsRow'
          /\ \A s \in Tokens : row[s] # "absent" => row'[s] # "absent"
        BY <1>6, IssueRows DEF IssueThenCrash
    <2>2. TokTypeOK' /\ LiveWithinCap'
        BY <1>6, <2>1, NoneLiveFacts DEF IssueThenCrash, MemoryLost
    <2>3. Agree'
        BY <1>6, <2>1 DEF IssueThenCrash, MemoryLost, Fresh, MemoryCoversTable,
                          RevocationsInTable, HandedOutHasRow
    <2> QED BY <2>1, <2>2, <2>3
<1>7. ASSUME NEW t \in Tokens, RevokeThenCrash(t) PROVE TokInv'
    <2>1. /\ row' \in [Tokens -> RowState] /\ tx' \in [Tokens -> RowState]
          /\ \A s \in Tokens \ {t} : row'[s] \in {row[s], tx[s]} /\ tx'[s] \in {row[s], tx[s]}
          /\ row'[t] \in {"absent", "revoked"} /\ tx'[t] \in {"absent", "revoked"}
          /\ TxExtendsRow'
          /\ \A s \in Tokens : row[s] # "absent" => row'[s] # "absent"
        BY <1>7, RevokeRows DEF RevokeThenCrash
    <2>2. TokTypeOK' /\ LiveWithinCap'
        BY <1>7, <2>1, NoneLiveFacts DEF RevokeThenCrash, MemoryLost
    <2>3. Agree'
        BY <1>7, <2>1 DEF RevokeThenCrash, MemoryLost, MemoryCoversTable,
                          RevocationsInTable, HandedOutHasRow
    <2> QED BY <2>1, <2>2, <2>3
<1>8. ASSUME NEW t \in handedOut, Admit(t) PROVE TokInv'
    <2>1. /\ row' \in [Tokens -> RowState] /\ tx' \in [Tokens -> RowState]
          /\ \A s \in Tokens : row'[s] \in {row[s], tx[s]} /\ tx'[s] \in {row[s], tx[s]}
          /\ TxExtendsRow'
          /\ \A s \in Tokens : row[s] # "absent" => row'[s] # "absent"
        BY <1>8, OtherRows DEF Admit
    <2>2. t \in Tokens /\ HasRoom(t) /\ live' = LiveAfterAdmit(t)
        BY <1>8 DEF Admit
    <2>3. UNCHANGED <<up, revoked, handedOut, expired, revokeDone>>
        BY <1>8 DEF Admit
    <2>4. live' \in [Tokens -> Nat] /\ LiveWithinCap'
        BY <2>2, CapFacts DEF LiveAfterAdmit, HasRoom, LiveWithinCap
    <2>5. Agree'
        BY <2>1, <2>3 DEF MemoryCoversTable, RevocationsInTable, HandedOutHasRow
    <2> QED BY <2>1, <2>3, <2>4, <2>5
<1>9. ASSUME NEW t \in Tokens, Release(t) PROVE TokInv'
    <2>1. TokTypeOK' /\ LiveWithinCap'
        BY <1>9, CapFacts DEF Release, LiveAfterRelease, LiveWithinCap
    <2>2. TableInv'
        BY <1>9 DEF Release, MemoryCoversTable, RevocationsInTable, TxExtendsRow,
                    HandedOutHasRow
    <2> QED BY <2>1, <2>2
<1>10. CASE UNCHANGED tokVars
    BY <1>10 DEF tokVars, LiveWithinCap, MemoryCoversTable, RevocationsInTable,
                 TxExtendsRow, HandedOutHasRow
<1> QED
    BY <1>1, <1>2, <1>3, <1>4, <1>5, <1>6, <1>7, <1>8, <1>9, <1>10
    DEF TokStep, TokAdmin, TokCrashInCall

(* What the invariant is for.                                              *)
LEMMA TokInvImplies == TokInv => LiveWithinCap /\ RevocationIsForever
<1> SUFFICES ASSUME TokInv PROVE LiveWithinCap /\ RevocationIsForever
    OBVIOUS
<1>1. RevocationIsForever
    BY DEF TokInv, TableInv, TokTypeOK, RevocationIsForever, Verifies, MemoryCoversTable,
           RevocationsInTable, HandedOutHasRow
<1> QED BY <1>1 DEF TokInv

(* The bounded next-state relation takes no other steps.                   *)
LEMMA TokNextIsStep == [TokNext]_tokVars => [TokStep]_tokVars
BY DEF TokNext, TokStep

(* TokInv holds in every reachable state: the state keeps its types, and   *)
(* memory, table and finished revoke() calls agree as far as they must.    *)
THEOREM TokInvariant == TokSpec => []TokInv
<1>1. TokInv /\ [TokNext]_tokVars => TokInv'
    BY TokInvStep, TokNextIsStep
<1> QED BY <1>1, TokInvInit, PTL DEF TokSpec

(* TokenService.admit never lets the count pass max_workers, for every     *)
(* claim and every order of admit and release.                             *)
THEOREM TokCap == TokSpec => []LiveWithinCap
BY TokInvariant, TokInvImplies, PTL

(* TokenService.revoke is durable and final: once it returned, verify()    *)
(* refuses the token for ever, through crashes at any point and restarts.  *)
THEOREM TokRevocation == TokSpec => []RevocationIsForever
BY TokInvariant, TokInvImplies, PTL

(* While the Master runs, the in-memory revocation set never lacks a row   *)
(* that is revoked, durably or in the open transaction.                    *)
THEOREM MemoryTheorem == TokSpec => []MemoryCoversTable
<1>1. TokInv => MemoryCoversTable
    BY DEF TokInv, TableInv
<1> QED BY <1>1, TokInvariant, PTL

(* A token in somebody's hands has its row, whatever revoke() calls, saves *)
(* and crashes came after issue() returned it: the row a later revoke()    *)
(* must update, and the one that save_worker's REFERENCES looks for.       *)
THEOREM HandedOutTheorem == TokSpec => []HandedOutHasRow
<1>1. TokInv => HandedOutHasRow
    BY DEF TokInv, TableInv
<1> QED BY <1>1, TokInvariant, PTL

-----------------------------------------------------------------------------
(* A save, whatever becomes of it, is one that TokenTable knows.           *)
LEMMA StepIsTableStep == [TokStep]_tokVars => [TableNext]_tableVars
<1> SUFFICES ASSUME [TokStep]_tokVars PROVE [TableNext]_tableVars
    OBVIOUS
<1>1. tx \in Writes
    BY DEF Writes
<1>2. \A t \in Tokens : RowAfterIssue(t) \in Writes /\ RowAfterRevoke(t) \in Writes
    BY DEF Writes
<1>3. CASE TokStart \/ TokCrash
    BY <1>3 DEF TokStart, TokCrash, TableNext
<1>4. ASSUME NEW t \in Tokens, Issue(t) \/ IssueThenCrash(t) \/ IssueFails(t)
      PROVE  [TableNext]_tableVars
    BY <1>1, <1>2, <1>4 DEF Issue, IssueThenCrash, IssueFails, TableNext
<1>5. ASSUME NEW t \in Tokens, Revoke(t) \/ RevokeThenCrash(t) \/ RevokeStoreError(t)
      PROVE  [TableNext]_tableVars
    BY <1>2, <1>5 DEF Revoke, RevokeThenCrash, RevokeStoreError, TableNext
<1>6. ASSUME NEW t \in handedOut, Admit(t) PROVE [TableNext]_tableVars
    BY <1>1, <1>6 DEF Admit, TableNext, tableVars
<1>7. ASSUME NEW t \in Tokens, Expire(t) \/ Release(t) PROVE [TableNext]_tableVars
    BY <1>7 DEF Expire, Release, tableVars
<1>8. CASE UNCHANGED tokVars
    BY <1>8 DEF tokVars, tableVars
<1> QED
    BY <1>3, <1>4, <1>5, <1>6, <1>7, <1>8 DEF TokStep, TokAdmin, TokCrashInCall

(* The service uses the table only as the store allows, so what the store  *)
(* is shown to implement is all the service relies on.                     *)
THEOREM UsesTokenTable == TokSpec => TableSpec
<1>1. TokInit => TableInit
    BY DEF TokInit
<1>2. [TokNext]_tokVars => [TableNext]_tableVars
    BY StepIsTableStep, TokNextIsStep
<1> QED BY <1>1, <1>2, PTL DEF TokSpec, TableSpec

(* No step of the service brings a durably revoked row back: only issue    *)
(* writes "valid", and it does so for a jti that has no row.               *)
LEMMA RevokedRowStep ==
    ASSUME TokInv, [TokStep]_tokVars, NEW s \in Tokens, row[s] = "revoked"
    PROVE  row'[s] = "revoked"
<1>1. tx[s] = "revoked"
    BY DEF TokInv, TableInv, TxExtendsRow
<1> USE DEF TokInv, TokTypeOK
<1>2. CASE TokStart \/ TokCrash
    BY <1>2 DEF TokStart, TokCrash, TransactionLost
<1>3. ASSUME NEW t \in Tokens, Issue(t) \/ IssueThenCrash(t) \/ IssueFails(t)
      PROVE  row'[s] = "revoked"
    <2>1. s # t
        BY <1>1, <1>3 DEF Issue, IssueThenCrash, IssueFails, Fresh
    <2> QED
        BY <1>1, <1>3, <2>1
        DEF Issue, IssueThenCrash, IssueFails, Commits, StoreFails, RowAfterIssue
<1>4. ASSUME NEW t \in Tokens, Revoke(t) \/ RevokeThenCrash(t) \/ RevokeStoreError(t)
      PROVE  row'[s] = "revoked"
    BY <1>1, <1>4
    DEF Revoke, RevokeThenCrash, RevokeStoreError, Commits, StoreFails, RowAfterRevoke
<1>5. ASSUME NEW t \in handedOut, Admit(t) PROVE row'[s] = "revoked"
    BY <1>1, <1>5 DEF Admit, Commits, StoreFails
<1>6. ASSUME NEW t \in Tokens, Expire(t) \/ Release(t) PROVE row'[s] = "revoked"
    BY <1>6 DEF Expire, Release
<1>7. CASE UNCHANGED tokVars
    BY <1>7 DEF tokVars
<1> QED
    BY <1>2, <1>3, <1>4, <1>5, <1>6, <1>7 DEF TokStep, TokAdmin, TokCrashInCall

(* A revocation that is durable once is durable for ever: no failed or     *)
(* rolled back save, crash or later upsert takes it back.                  *)
THEOREM RevokedRowTheorem == TokSpec => RevokedRowStays
<1> DEFINE Stays == \A t \in Tokens : row[t] = "revoked" => row'[t] = "revoked"
<1>1. TokInv /\ [TokNext]_tokVars => [Stays]_tokVars
    BY RevokedRowStep, TokNextIsStep
<1> QED BY <1>1, TokInvariant, PTL DEF TokSpec, RevokedRowStays
=============================================================================
