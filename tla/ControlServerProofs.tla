------------------------ MODULE ControlServerProofs ------------------------
(***************************************************************************)
(* Theorems about ControlServer for every finite set of connections, every *)
(* set of tokens, every claim and every bound.                             *)
(***************************************************************************)
EXTENDS ControlServer, TokenServiceProofs, FiniteSetTheorems

-----------------------------------------------------------------------------
(* The inductive invariant.  CapHolds is not inductive: an admission looks *)
(* at the count, not at the connections.  What carries it is that the      *)
(* count is never below the number of holders (HoldersCounted), which in   *)
(* turn needs a restart, where the counts go to zero, to find no           *)
(* connection (DownIsEmpty) and a new connection to hold nothing           *)
(* (IdleHoldsNothing).                                                     *)
DownIsEmpty == ~up => ~serving /\ Registered = {}
IdleHoldsNothing == \A c \in Conns : handler[c] = "none" => jti[c] = None
HoldersCounted == \A t \in Tokens : Cardinality(Holders(t)) <= live[t]

SlotInv ==
    /\ TypeOK
    /\ TokInv
    /\ DownIsEmpty
    /\ IdleHoldsNothing
    /\ HoldersCounted

(* The connections that hold a slot of one token are finitely many.        *)
LEMMA HoldersFinite ==
    /\ \A t \in Tokens : IsFiniteSet(Holders(t)) /\ Cardinality(Holders(t)) \in Nat
    /\ \A t \in Tokens : IsFiniteSet(Holders(t)') /\ Cardinality(Holders(t)') \in Nat
<1>1. \A t \in Tokens : Holders(t) \in SUBSET Conns /\ Holders(t)' \in SUBSET Conns
    BY DEF Holders
<1> QED BY <1>1, ConnsAssumption, FS_Subset, FS_CardinalityType

(* When jti and the counts stay, so do the holders and their number.       *)
LEMMA HoldersStay == HoldersCounted /\ UNCHANGED <<jti, live>> => HoldersCounted'
BY DEF HoldersCounted, Holders

(* When no connection holds anything, any counts will do.                  *)
LEMMA NobodyHolds ==
    ASSUME \A c \in Conns : jti'[c] = None, live' \in [Tokens -> Nat]
    PROVE  HoldersCounted'
<1> SUFFICES ASSUME NEW t \in Tokens PROVE Cardinality(Holders(t)') <= live'[t]
    BY DEF HoldersCounted
<1>1. Holders(t)' = {}
    BY SentinelAssumption DEF Holders
<1>2. Cardinality(Holders(t)') = 0
    BY <1>1, FS_EmptySet
<1> QED BY <1>2

-----------------------------------------------------------------------------
(* Every step of the server is a step of its token service, or none of it. *)
LEMMA StepIsTokStep == SlotInv /\ [CSNext]_vars => [TokStep]_tokVars
<1> SUFFICES ASSUME SlotInv, [CSNext]_vars PROVE [TokStep]_tokVars
    OBVIOUS
<1>1. CASE Start \/ Crash \/ Admin
    BY <1>1 DEF Start, Crash, Admin, TokStep
<1>2. CASE Serve \/ Close
    BY <1>2 DEF Serve, Close, tokVars
<1>3. ASSUME NEW c \in Conns, Accept(c) \/ (\E f \in Frames : Receive(c, f)) \/ Lose(c)
      PROVE  [TokStep]_tokVars
    BY <1>3 DEF Accept, Receive, Lose, tokVars
<1>4. ASSUME NEW c \in Conns, Dispatch(c) PROVE [TokStep]_tokVars
    <2>1. CASE DispatchOther(c) \/ DecodeFails(c) \/ \E t \in Tokens : RejectJoin(c, t)
        BY <2>1 DEF DispatchOther, DecodeFails, RejectJoin, tokVars
    <2>2. ASSUME NEW t \in Tokens, TakeSlot(c, t) PROVE [TokStep]_tokVars
        BY <2>2 DEF TakeSlot, Verifies, TokStep
    <2> QED BY <1>4, <2>1, <2>2 DEF Dispatch, DispatchDone, DispatchRaises, AckJoin, SaveWorkerFails
<1>5. ASSUME NEW c \in Conns,
             WriterSend(c) \/ WriterFails(c) \/ Push(c) \/ ReadEnd(c) \/ DieOnWriterError(c)
      PROVE  [TokStep]_tokVars
    BY <1>5 DEF WriterSend, WriterFails, Push, ReadEnd, DieOnWriterError, tokVars
<1>6. ASSUME NEW c \in Conns, Deregister(c) PROVE [TokStep]_tokVars
    <2>1. up
        BY <1>6 DEF SlotInv, DownIsEmpty, Registered, Deregister, TypeOK, TokTypeOK
    <2>2. CASE jti[c] = None
        BY <1>6, <2>2 DEF Deregister, ReleaseSlot, tokVars
    <2>3. CASE jti[c] # None
        <3>1. jti[c] \in Tokens
            BY <2>3 DEF SlotInv, TypeOK
        <3>2. Release(jti[c])
            BY <1>6, <2>1, <2>3 DEF Deregister, ReleaseSlot, Release
        <3> QED BY <3>1, <3>2 DEF TokStep
    <2> QED BY <2>2, <2>3
<1>7. CASE UNCHANGED vars
    BY <1>7 DEF vars, tokVars
<1> QED BY <1>1, <1>2, <1>3, <1>4, <1>5, <1>6, <1>7 DEF CSNext, ConnNext

-----------------------------------------------------------------------------
(* The types.                                                              *)
LEMMA TypeInit == CSInit => TypeOK
<1> SUFFICES ASSUME CSInit PROVE TypeOK
    OBVIOUS
<1>1. TokTypeOK
    BY TokInvInit DEF CSInit, TokInv
<1>2. serving \in BOOLEAN
    BY DEF CSInit
<1>3. /\ inbox \in [Conns -> Seq(Frames)] /\ joins \in [Conns -> Nat]
      /\ sendq \in [Conns -> Seq(Messages)] /\ wire \in [Conns -> Seq(Messages)]
    BY DEF CSInit
<1> QED BY <1>1, <1>2, <1>3 DEF CSInit, TypeOK, HandlerState, WriterState

(* Every step keeps the types; those of the token service are its own.     *)
LEMMA TypeStep == TypeOK /\ TokTypeOK' /\ [CSNext]_vars => TypeOK'
<1> SUFFICES ASSUME TypeOK, TokTypeOK', [CSNext]_vars PROVE TypeOK'
    OBVIOUS
<1> USE DEF TypeOK, HandlerState, WriterState
<1>1. CASE Start \/ Admin \/ Serve \/ Close
    BY <1>1 DEF Start, Admin, Serve, Close, connVars
<1>2. CASE Crash
    <2>1. serving' \in BOOLEAN
        BY <1>2 DEF Crash, Forget
    <2>2. /\ sock' \in [Conns -> {"none", "open", "closed"}]
          /\ handler' \in [Conns -> HandlerState]
          /\ writer' \in [Conns -> WriterState]
        BY <1>2 DEF Crash, Forget
    <2>3. /\ inbox' \in [Conns -> Seq(Frames)] /\ joins' \in [Conns -> Nat]
          /\ sendq' \in [Conns -> Seq(Messages)] /\ wire' \in [Conns -> Seq(Messages)]
        BY <1>2 DEF Crash, Forget
    <2>4. jti' \in [Conns -> Tokens \cup {None}] /\ saved' \in [Conns -> Tokens \cup {None}]
        BY <1>2 DEF Crash, Forget
    <2> QED BY <2>1, <2>2, <2>3, <2>4
<1>3. ASSUME NEW c \in Conns, Accept(c) \/ Lose(c) PROVE TypeOK'
    BY <1>3 DEF Accept, Lose
<1>4. ASSUME NEW c \in Conns, NEW f \in Frames, Receive(c, f) PROVE TypeOK'
    <2>1. inbox' \in [Conns -> Seq(Frames)]
        BY <1>4 DEF Receive
    <2>2. joins' \in [Conns -> Nat]
        BY <1>4 DEF Receive
    <2> QED BY <1>4, <2>1, <2>2 DEF Receive
<1>5. ASSUME NEW c \in Conns, NEW m \in Messages PROVE Reply(c, m) \in [Conns -> Seq(Messages)]
    BY DEF Reply
<1>6. ASSUME NEW c \in Conns, Read(c) PROVE inbox' \in [Conns -> Seq(Frames)]
    <2>1. Tail(inbox[c]) \in Seq(Frames)
        BY <1>6 DEF Read
    <2> QED BY <1>6, <2>1 DEF Read
<1>7. ASSUME NEW c \in Conns, Dispatch(c) PROVE TypeOK'
    <2>1. CASE DispatchOther(c) \/ DecodeFails(c)
        BY <2>1, <1>6 DEF DispatchOther, DecodeFails, WriterAfterCancel
    <2>2. ASSUME NEW t \in Tokens, RejectJoin(c, t) PROVE TypeOK'
        BY <2>2, <1>5, <1>6 DEF RejectJoin, Messages
    <2>3. ASSUME NEW t \in Tokens, AckJoin(c, t) PROVE TypeOK'
        BY <2>3, <1>5, <1>6
        DEF AckJoin, TakeSlot, JtiAfterAdmit, SavedAfterAdmit, Messages
    <2>4. ASSUME NEW t \in Tokens, SaveWorkerFails(c, t) PROVE TypeOK'
        BY <2>4, <1>6
        DEF SaveWorkerFails, TakeSlot, JtiAfterAdmit, WriterAfterCancel
    <2> QED BY <1>7, <2>1, <2>2, <2>3, <2>4 DEF Dispatch, DispatchDone, DispatchRaises
<1>8. ASSUME NEW c \in Conns, WriterSend(c) PROVE TypeOK'
    <2>1. Tail(sendq[c]) \in Seq(Messages)
        BY <1>8 DEF WriterSend
    <2>2. Head(sendq[c]) \in Messages
        <3>1. sendq[c] \in Seq(Messages) /\ sendq[c] # <<>>
            BY <1>8 DEF WriterSend
        <3> QED BY <3>1
    <2>3. Append(wire[c], Head(sendq[c])) \in Seq(Messages)
        BY <2>2
    <2> QED BY <1>8, <2>1, <2>3 DEF WriterSend
<1>9. ASSUME NEW c \in Conns, WriterFails(c) PROVE TypeOK'
    <2>1. Tail(sendq[c]) \in Seq(Messages)
        BY <1>9 DEF WriterFails
    <2> QED BY <1>9, <2>1 DEF WriterFails
<1>10. ASSUME NEW c \in Conns, Push(c) PROVE TypeOK'
    BY <1>10, <1>5 DEF Push, Messages
<1>11. ASSUME NEW c \in Conns, ReadEnd(c) \/ DieOnWriterError(c) PROVE TypeOK'
    BY <1>11 DEF ReadEnd, DieOnWriterError, WriterAfterCancel
<1>12. ASSUME NEW c \in Conns, Deregister(c) PROVE TypeOK'
    BY <1>12 DEF Deregister
<1>13. CASE UNCHANGED vars
    BY <1>13 DEF vars
<1> QED
    BY <1>1, <1>2, <1>3, <1>4, <1>7, <1>8, <1>9, <1>10, <1>11, <1>12, <1>13
    DEF CSNext, ConnNext

-----------------------------------------------------------------------------
(* An admission takes one slot for one connection: no pool grows by more   *)
(* than its count does.                                                    *)
LEMMA AdmissionCounted ==
    ASSUME SlotInv, NEW c \in Conns, NEW t \in Tokens,
           jti' = [jti EXCEPT ![c] = t], live' = LiveAfterAdmit(t)
    PROVE  HoldersCounted'
<1> SUFFICES ASSUME NEW s \in Tokens PROVE Cardinality(Holders(s)') <= live'[s]
    BY DEF HoldersCounted
<1>1. live \in [Tokens -> Nat] /\ jti \in [Conns -> Tokens \cup {None}]
    BY DEF SlotInv, TypeOK, TokTypeOK
<1>2. Cardinality(Holders(s)) <= live[s]
    BY DEF SlotInv, HoldersCounted
<1>3. IsFiniteSet(Holders(s)) /\ Cardinality(Holders(s)) \in Nat
    BY HoldersFinite
<1>4. CASE s = t
    <2>1. Holders(s)' \in SUBSET (Holders(s) \cup {c})
        BY <1>1, <1>4 DEF Holders
    <2>2. /\ IsFiniteSet(Holders(s) \cup {c})
          /\ Cardinality(Holders(s) \cup {c}) <= Cardinality(Holders(s)) + 1
        <3> DEFINE H == Holders(s)
        <3>1. IsFiniteSet(H) /\ Cardinality(H) \in Nat
            BY <1>3
        <3> HIDE DEF H
        <3>2. /\ IsFiniteSet(H \cup {c})
              /\ Cardinality(H \cup {c}) = IF c \in H THEN Cardinality(H) ELSE Cardinality(H) + 1
            BY <3>1, FS_AddElement
        <3>3. Cardinality(H \cup {c}) <= Cardinality(H) + 1
            BY <3>1, <3>2
        <3> QED BY <3>2, <3>3 DEF H
    <2>3. Cardinality(Holders(s)') <= Cardinality(Holders(s) \cup {c})
        BY <2>1, <2>2, FS_Subset
    <2>4. live'[s] = live[s] + 1
        BY <1>1, <1>4 DEF LiveAfterAdmit
    <2>5. Cardinality(Holders(s)') \in Nat /\ Cardinality(Holders(s) \cup {c}) \in Nat
        BY <2>2, HoldersFinite, FS_CardinalityType
    <2> QED BY <1>1, <1>2, <1>3, <2>2, <2>3, <2>4, <2>5
<1>5. CASE s # t
    <2>1. Holders(s)' \in SUBSET Holders(s)
        BY <1>1, <1>5 DEF Holders
    <2>2. Cardinality(Holders(s)') <= Cardinality(Holders(s))
        BY <2>1, <1>3, FS_Subset
    <2>3. live'[s] = live[s]
        BY <1>1, <1>5 DEF LiveAfterAdmit
    <2> QED BY <1>1, <1>2, <1>3, <2>2, <2>3, HoldersFinite
<1> QED BY <1>4, <1>5

(* A connection that goes away gives back exactly the slot it held.        *)
LEMMA DepartureCounted ==
    ASSUME SlotInv, NEW c \in Conns,
           jti' = [jti EXCEPT ![c] = None], live' = ReleaseSlot(c)
    PROVE  HoldersCounted'
<1> SUFFICES ASSUME NEW s \in Tokens PROVE Cardinality(Holders(s)') <= live'[s]
    BY DEF HoldersCounted
<1>1. live \in [Tokens -> Nat] /\ jti \in [Conns -> Tokens \cup {None}]
    BY DEF SlotInv, TypeOK, TokTypeOK
<1>2. Cardinality(Holders(s)) <= live[s]
    BY DEF SlotInv, HoldersCounted
<1>3. IsFiniteSet(Holders(s)) /\ Cardinality(Holders(s)) \in Nat
    BY HoldersFinite
<1>4. Holders(s)' = Holders(s) \ {c}
    BY <1>1, SentinelAssumption DEF Holders
<1>5. Cardinality(Holders(s)') =
          IF c \in Holders(s) THEN Cardinality(Holders(s)) - 1 ELSE Cardinality(Holders(s))
    BY <1>3, <1>4, FS_RemoveElement
<1>6. CASE jti[c] = s
    <2>1. c \in Holders(s) /\ s # None
        BY <1>6, SentinelAssumption DEF Holders
    <2>2. Cardinality(Holders(s)') = Cardinality(Holders(s)) - 1
        BY <2>1, <1>5
    <2>3. Cardinality(Holders(s)') \in Nat
        BY HoldersFinite
    <2>4. live'[s] = live[s] - 1
        <3>1. live[s] > 0
            BY <1>1, <1>2, <1>3, <2>2, <2>3
        <3> QED BY <1>1, <1>6, <2>1, <3>1 DEF ReleaseSlot, LiveAfterRelease
    <2> QED BY <1>1, <1>2, <1>3, <2>2, <2>4
<1>7. CASE jti[c] # s
    <2>1. c \notin Holders(s)
        BY <1>7 DEF Holders
    <2>2. live'[s] = live[s]
        BY <1>1, <1>7 DEF ReleaseSlot, LiveAfterRelease
    <2> QED BY <1>2, <1>5, <2>1, <2>2
<1> QED BY <1>6, <1>7

-----------------------------------------------------------------------------
(* Every initial state satisfies the invariant.                            *)
LEMMA SlotInvInit == CSInit => SlotInv
<1> SUFFICES ASSUME CSInit PROVE SlotInv
    OBVIOUS
<1>1. TypeOK /\ TokInv
    BY TypeInit, TokInvInit DEF CSInit
<1>2. DownIsEmpty /\ IdleHoldsNothing
    BY DEF CSInit, DownIsEmpty, IdleHoldsNothing, Registered
<1>3. HoldersCounted
    <2> SUFFICES ASSUME NEW t \in Tokens PROVE Cardinality(Holders(t)) <= live[t]
        BY DEF HoldersCounted
    <2>1. Holders(t) = {}
        BY SentinelAssumption DEF CSInit, Holders
    <2>2. live[t] = 0
        BY DEF CSInit, TokInit, NoneLive
    <2> QED BY <2>1, <2>2, FS_EmptySet
<1> QED BY <1>1, <1>2, <1>3 DEF SlotInv

(* A Master that is down has no connection, an idle one holds nothing.     *)
LEMMA LifecycleStep ==
    SlotInv /\ TypeOK' /\ [CSNext]_vars => DownIsEmpty' /\ IdleHoldsNothing'
<1> SUFFICES ASSUME SlotInv, TypeOK', [CSNext]_vars
             PROVE  DownIsEmpty' /\ IdleHoldsNothing'
    OBVIOUS
<1> USE DEF DownIsEmpty, IdleHoldsNothing, Registered, SlotInv, TypeOK, TokTypeOK, HandlerState
<1>1. CASE Start
    BY <1>1 DEF Start, TokStart, connVars
<1>2. CASE Crash
    BY <1>2 DEF Crash, Forget
<1>3. CASE Admin
    <2>1. up' = up /\ UNCHANGED <<serving, handler, jti>>
        BY <1>3 DEF Admin, TokAdmin, Issue, IssueFails, Revoke, RevokeStoreError, Expire,
                    connVars
    <2> QED BY <2>1
<1>4. CASE Serve \/ Close
    BY <1>4 DEF Serve, Close, connVars, tokVars
<1>5. ASSUME NEW c \in Conns, Accept(c) \/ Lose(c) \/ \E f \in Frames : Receive(c, f)
      PROVE  DownIsEmpty' /\ IdleHoldsNothing'
    BY <1>5 DEF Accept, Lose, Receive, tokVars
<1>6. ASSUME NEW c \in Conns, DispatchOther(c) \/ \E t \in Tokens : RejectJoin(c, t)
      PROVE  DownIsEmpty' /\ IdleHoldsNothing'
    BY <1>6 DEF DispatchOther, RejectJoin, tokVars
<1>11. ASSUME NEW c \in Conns, DecodeFails(c) PROVE DownIsEmpty' /\ IdleHoldsNothing'
    BY <1>11 DEF DecodeFails, Read, tokVars
<1>7. ASSUME NEW c \in Conns, NEW t \in Tokens, AckJoin(c, t) \/ SaveWorkerFails(c, t)
      PROVE  DownIsEmpty' /\ IdleHoldsNothing'
    BY <1>7 DEF AckJoin, SaveWorkerFails, TakeSlot, Read, Admit, JtiAfterAdmit
<1>8. ASSUME NEW c \in Conns,
             WriterSend(c) \/ WriterFails(c) \/ Push(c) \/ ReadEnd(c) \/ DieOnWriterError(c)
      PROVE  DownIsEmpty' /\ IdleHoldsNothing'
    BY <1>8 DEF WriterSend, WriterFails, Push, ReadEnd, DieOnWriterError, tokVars
<1>9. ASSUME NEW c \in Conns, Deregister(c) PROVE DownIsEmpty' /\ IdleHoldsNothing'
    BY <1>9 DEF Deregister
<1>10. CASE UNCHANGED vars
    BY <1>10 DEF vars
<1> QED
    BY <1>1, <1>2, <1>3, <1>4, <1>5, <1>6, <1>7, <1>8, <1>9, <1>10, <1>11
    DEF CSNext, ConnNext, Dispatch, DispatchDone, DispatchRaises

(* No step lets the holders of a token outnumber its count.                *)
LEMMA CountStep == SlotInv /\ TypeOK' /\ [CSNext]_vars => HoldersCounted'
<1> SUFFICES ASSUME SlotInv, TypeOK', [CSNext]_vars PROVE HoldersCounted'
    OBVIOUS
<1>1. HoldersCounted
    BY DEF SlotInv
<1>2. live' \in [Tokens -> Nat]
    BY DEF TypeOK, TokTypeOK
<1>3. CASE Start
    <2>1. \A c \in Conns : jti'[c] = None
        BY <1>3 DEF Start, TokStart, connVars, SlotInv, DownIsEmpty, IdleHoldsNothing,
                    Registered
    <2> QED BY <2>1, <1>2, NobodyHolds
<1>4. CASE Crash
    <2>1. \A c \in Conns : jti'[c] = None
        BY <1>4 DEF Crash, Forget
    <2> QED BY <2>1, <1>2, NobodyHolds
<1>5. CASE Admin \/ Serve \/ Close
    BY <1>1, <1>5, HoldersStay
    DEF Admin, TokAdmin, Issue, IssueFails, Revoke, RevokeStoreError, Expire, Serve, Close,
        connVars, tokVars
<1>6. ASSUME NEW c \in Conns, Accept(c) \/ Lose(c) \/ \E f \in Frames : Receive(c, f)
      PROVE  HoldersCounted'
    BY <1>1, <1>6, HoldersStay DEF Accept, Lose, Receive, tokVars
<1>7. ASSUME NEW c \in Conns,
             DispatchOther(c) \/ DecodeFails(c) \/ \E t \in Tokens : RejectJoin(c, t)
      PROVE  HoldersCounted'
    BY <1>1, <1>7, HoldersStay DEF DispatchOther, DecodeFails, RejectJoin, tokVars
<1>8. ASSUME NEW c \in Conns, NEW t \in Tokens, AckJoin(c, t) \/ SaveWorkerFails(c, t)
      PROVE  HoldersCounted'
    <2>1. jti' = [jti EXCEPT ![c] = t] /\ live' = LiveAfterAdmit(t)
        BY <1>8 DEF AckJoin, SaveWorkerFails, TakeSlot, Admit, JtiAfterAdmit
    <2> QED BY <2>1, AdmissionCounted
<1>9. ASSUME NEW c \in Conns,
             WriterSend(c) \/ WriterFails(c) \/ Push(c) \/ ReadEnd(c) \/ DieOnWriterError(c)
      PROVE  HoldersCounted'
    BY <1>1, <1>9, HoldersStay
    DEF WriterSend, WriterFails, Push, ReadEnd, DieOnWriterError, tokVars
<1>10. ASSUME NEW c \in Conns, Deregister(c) PROVE HoldersCounted'
    BY <1>10, DepartureCounted DEF Deregister
<1>11. CASE UNCHANGED vars
    BY <1>1, <1>11, HoldersStay DEF vars
<1> QED
    BY <1>3, <1>4, <1>5, <1>6, <1>7, <1>8, <1>9, <1>10, <1>11
    DEF CSNext, ConnNext, Dispatch, DispatchDone, DispatchRaises

(* Every step preserves it: the parts are those of the lemmas above.       *)
LEMMA SlotInvStep == SlotInv /\ [CSNext]_vars => SlotInv'
<1> SUFFICES ASSUME SlotInv, [CSNext]_vars PROVE SlotInv'
    OBVIOUS
<1>1. TokInv'
    BY StepIsTokStep, TokInvStep DEF SlotInv
<1>2. TypeOK'
    BY <1>1, TypeStep DEF SlotInv, TokInv
<1>3. DownIsEmpty' /\ IdleHoldsNothing' /\ HoldersCounted'
    BY <1>2, LifecycleStep, CountStep
<1> QED BY <1>1, <1>2, <1>3 DEF SlotInv

(* What the invariant is for: holders counted by live, and live capped.    *)
LEMMA SlotInvImplies == SlotInv => TypeOK /\ CapHolds /\ RevocationIsForever
<1> SUFFICES ASSUME SlotInv PROVE TypeOK /\ CapHolds /\ RevocationIsForever
    OBVIOUS
<1>1. TypeOK /\ RevocationIsForever
    BY TokInvImplies DEF SlotInv
<1>2. ASSUME NEW t \in Tokens, MaxWorkers[t] # Unlimited
      PROVE  Cardinality(Holders(t)) <= MaxWorkers[t]
    <2>1. live[t] \in Nat /\ MaxWorkers[t] \in Nat /\ Cardinality(Holders(t)) \in Nat
        BY <1>2, CapFacts, HoldersFinite DEF SlotInv, TypeOK, TokTypeOK
    <2>2. Cardinality(Holders(t)) <= live[t] /\ live[t] <= MaxWorkers[t]
        BY <1>2 DEF SlotInv, HoldersCounted, TokInv, LiveWithinCap
    <2> QED BY <2>1, <2>2
<1> QED BY <1>1, <1>2 DEF CapHolds

-----------------------------------------------------------------------------
(* The invariant holds in every reachable state of the server.             *)
THEOREM SlotInvariant == CSSpec => []SlotInv
BY SlotInvInit, SlotInvStep, PTL DEF CSSpec

(* Every variable of the server keeps its type.                            *)
THEOREM TypeCorrect == CSSpec => []TypeOK
BY SlotInvariant, SlotInvImplies, PTL

(* max_workers is never exceeded by the connections that hold a slot, for  *)
(* every number of connections, joins per connection and claims, although  *)
(* a dead writer or a repeated join may leave the count too high.          *)
THEOREM CapTheorem == CSSpec => []CapHolds
BY SlotInvariant, SlotInvImplies, PTL

(* A finished revoke() holds for every later join the server handles.      *)
THEOREM ServerRevocation == CSSpec => []RevocationIsForever
BY SlotInvariant, SlotInvImplies, PTL

(* The server uses its token service as that service expects: each of its  *)
(* steps is a step of TokenService (without the bound on counts) or none.  *)
THEOREM UsesTokenService == CSSpec => TokInit /\ [][TokStep]_tokVars
<1>1. CSInit => TokInit
    BY DEF CSInit
<1> QED BY <1>1, SlotInvariant, StepIsTokStep, PTL DEF CSSpec

-----------------------------------------------------------------------------
(* Only _on_join gives a connection a token, and verify() refuses one that *)
(* has expired or whose revoke() has returned.                             *)
LEMMA AdmissionStep ==
    ASSUME SlotInv, [CSNext]_vars, NEW c \in Conns, jti'[c] # None, jti'[c] # jti[c]
    PROVE  jti'[c] \in handedOut \ (expired \cup revokeDone)
<1> DEFINE Goal == jti'[c] \in handedOut \ (expired \cup revokeDone)
<1>1. ASSUME UNCHANGED jti PROVE Goal
    BY <1>1
<1>2. CASE Start \/ Admin \/ Serve \/ Close
    BY <1>1, <1>2 DEF Start, Admin, Serve, Close, connVars
<1>3. CASE Crash
    BY <1>3 DEF Crash, Forget
<1>4. ASSUME NEW d \in Conns,
             Accept(d) \/ Lose(d) \/ (\E f \in Frames : Receive(d, f))
             \/ DispatchOther(d) \/ DecodeFails(d) \/ (\E t \in Tokens : RejectJoin(d, t))
             \/ WriterSend(d) \/ WriterFails(d) \/ Push(d) \/ ReadEnd(d) \/ DieOnWriterError(d)
      PROVE  Goal
    <2>1. UNCHANGED jti
        BY <1>4 DEF Accept, Lose, Receive, DispatchOther, DecodeFails, RejectJoin, WriterSend,
                    WriterFails, Push, ReadEnd, DieOnWriterError
    <2> QED BY <1>1, <2>1
<1>5. ASSUME NEW d \in Conns, NEW t \in Tokens, AckJoin(d, t) \/ SaveWorkerFails(d, t)
      PROVE  Goal
    <2>1. up /\ Verifies(t)
        BY <1>5 DEF AckJoin, SaveWorkerFails, TakeSlot, Admit
    <2>2. jti'[c] = t
        BY <1>5 DEF AckJoin, SaveWorkerFails, JtiAfterAdmit, SlotInv, TypeOK
    <2>3. RevocationIsForever
        BY SlotInvImplies
    <2> QED BY <2>1, <2>2, <2>3 DEF RevocationIsForever, Verifies
<1>6. ASSUME NEW d \in Conns, Deregister(d) PROVE Goal
    BY <1>6 DEF Deregister, SlotInv, TypeOK
<1>7. CASE UNCHANGED vars
    BY <1>1, <1>7 DEF vars
<1> QED
    BY <1>2, <1>3, <1>4, <1>5, <1>6, <1>7 DEF CSNext, ConnNext, Dispatch, DispatchDone, DispatchRaises

(* Every slot is taken with a token that was handed out, has not expired   *)
(* and is not revoked, in whichever run of the Master it was revoked.      *)
THEOREM AdmissionTheorem == CSSpec => AdmissionIsAuthorised
<1> DEFINE Authorised ==
        \A c \in Conns :
            (jti'[c] # None /\ jti'[c] # jti[c]) =>
                jti'[c] \in handedOut \ (expired \cup revokeDone)
<1>1. SlotInv /\ [CSNext]_vars => [Authorised]_vars
    BY AdmissionStep
<1> QED BY <1>1, SlotInvariant, PTL DEF CSSpec, AdmissionIsAuthorised
=============================================================================
