---------------------------- MODULE SlotPoolProofs ----------------------------
(***************************************************************************)
(* The books of the control server balance, its replies tell the truth,    *)
(* and ControlServer implements SlotPool, for every finite set of          *)
(* connections, every set of tokens and every claim, as long as a peer     *)
(* sends one join on a connection.  Peers that are daemons do, which       *)
(* FabricProofs shows.  Without that condition the books do not balance    *)
(* (SlotsReturn is violated by a second join).                             *)
(***************************************************************************)
EXTENDS ControlServerProofs

-----------------------------------------------------------------------------
(* The inductive invariant adds to SlotInv where the one join is: not yet  *)
(* sent, alone in the inbox of a connection that holds nothing, or         *)
(* dispatched; and that counts are exact.                                  *)
JoinOnce ==
    \A c \in Conns :
        /\ joins[c] = 0 => jti[c] = None
        /\ \A i \in DOMAIN inbox[c] : inbox[c][i] \in Tokens =>
              /\ joins[c] # 0
              /\ jti[c] = None
              /\ \A j \in DOMAIN inbox[c] : inbox[c][j] \in Tokens => j = i

PoolInv == SlotInv /\ JoinOnce /\ SlotsAccounted

\* The condition under which the server is looked at here: no peer sends a second
\* join on a connection.
OneJoin == \A c \in Conns : joins[c] <= 1

(* What _on_join finds: the connection holds nothing, and no join follows. *)
LEMMA JoinIsFirst ==
    ASSUME TypeOK, JoinOnce, NEW c \in Conns, NEW t \in Tokens, Read(c), Head(inbox[c]) = t
    PROVE  /\ joins[c] # 0
           /\ jti[c] = None
           /\ \A i \in DOMAIN inbox'[c] : inbox'[c][i] \notin Tokens
<1>1. inbox[c] \in Seq(Frames) /\ inbox[c] # <<>>
    BY DEF Read, TypeOK
<1>2. 1 \in DOMAIN inbox[c] /\ inbox[c][1] = t
    BY <1>1
<1>3. inbox'[c] = Tail(inbox[c])
    BY DEF Read, TypeOK
<1>4. ASSUME NEW i \in DOMAIN inbox'[c], inbox'[c][i] \in Tokens PROVE FALSE
    <2>1. i + 1 \in DOMAIN inbox[c] /\ inbox[c][i + 1] = inbox'[c][i] /\ i + 1 # 1
        BY <1>1, <1>3
    <2> QED BY <1>2, <1>4, <2>1 DEF JoinOnce
<1> QED BY <1>2, <1>4 DEF JoinOnce

(* A frame that is read and gives nobody a slot leaves the rest in order.  *)
LEMMA ReadKeepsOrder ==
    ASSUME TypeOK, JoinOnce, NEW c \in Conns, Read(c), UNCHANGED <<joins, jti>>
    PROVE  JoinOnce'
<1>1. inbox[c] \in Seq(Frames) /\ inbox[c] # <<>>
    BY DEF Read, TypeOK
<1>2. inbox'[c] = Tail(inbox[c]) /\ \A d \in Conns \ {c} : inbox'[d] = inbox[d]
    BY DEF Read, TypeOK
<1>3. \A i \in DOMAIN inbox'[c] : i + 1 \in DOMAIN inbox[c] /\ inbox'[c][i] = inbox[c][i + 1]
    BY <1>1, <1>2
<1>4. \A i \in DOMAIN inbox'[c] : i \in Int
    BY <1>1, <1>2
<1> SUFFICES ASSUME NEW d \in Conns
             PROVE  /\ joins'[d] = 0 => jti'[d] = None
                    /\ \A i \in DOMAIN inbox'[d] : inbox'[d][i] \in Tokens =>
                          /\ joins'[d] # 0
                          /\ jti'[d] = None
                          /\ \A j \in DOMAIN inbox'[d] : inbox'[d][j] \in Tokens => j = i
    BY DEF JoinOnce
<1>5. CASE d # c
    BY <1>2, <1>5 DEF JoinOnce
<1>6. CASE d = c
    <2>1. joins'[d] = 0 => jti'[d] = None
        BY DEF JoinOnce
    <2>2. ASSUME NEW i \in DOMAIN inbox'[d], inbox'[d][i] \in Tokens
          PROVE  joins'[d] # 0 /\ jti'[d] = None
        BY <1>3, <1>6, <2>2 DEF JoinOnce
    <2>3. ASSUME NEW i \in DOMAIN inbox'[d], NEW j \in DOMAIN inbox'[d],
                 inbox'[d][i] \in Tokens, inbox'[d][j] \in Tokens
          PROVE  j = i
        <3>1. i + 1 = j + 1
            BY <1>3, <1>6, <2>3 DEF JoinOnce
        <3> QED BY <3>1, <1>4, <1>6
    <2> QED BY <2>1, <2>2, <2>3
<1> QED BY <1>5, <1>6

(* The one join arrives.                                                   *)
LEMMA ReceiveKeepsOrder ==
    ASSUME OneJoin', TypeOK, JoinOnce, NEW c \in Conns, NEW f \in Frames, Receive(c, f)
    PROVE  JoinOnce'
<1>1. inbox[c] \in Seq(Frames) /\ joins[c] \in Nat
    BY DEF TypeOK
<1>2. inbox'[c] = Append(inbox[c], f) /\ \A d \in Conns \ {c} : inbox'[d] = inbox[d]
    BY DEF Receive, TypeOK
<1>3. joins'[c] = (IF f \in Tokens THEN joins[c] + 1 ELSE joins[c])
      /\ \A d \in Conns \ {c} : joins'[d] = joins[d]
    BY DEF Receive, TypeOK
<1>4. UNCHANGED jti
    BY DEF Receive
<1>5. \A i \in DOMAIN inbox'[c] :
         (i \in DOMAIN inbox[c] /\ inbox'[c][i] = inbox[c][i])
         \/ (i = Len(inbox[c]) + 1 /\ inbox'[c][i] = f)
    BY <1>1, <1>2
<1>6. CASE f \in Tokens
    <2>1. joins[c] = 0
        BY <1>1, <1>3, <1>6 DEF OneJoin
    <2>2. joins'[c] # 0 /\ jti'[c] = None /\ \A i \in DOMAIN inbox[c] : inbox[c][i] \notin Tokens
        BY <1>1, <1>3, <1>4, <1>6, <2>1 DEF JoinOnce
    <2> QED BY <1>2, <1>3, <1>4, <1>5, <2>2 DEF JoinOnce
<1>7. CASE f \notin Tokens
    <2>1. \A d \in Conns : joins'[d] = joins[d] /\ jti'[d] = jti[d]
        BY <1>3, <1>4, <1>7
    <2>2. \A d \in Conns : \A i \in DOMAIN inbox'[d] : inbox'[d][i] \in Tokens =>
             i \in DOMAIN inbox[d] /\ inbox'[d][i] = inbox[d][i]
        BY <1>2, <1>5, <1>7
    <2> QED BY <2>1, <2>2 DEF JoinOnce
<1> QED BY <1>6, <1>7

(* Each step of the server keeps the one join where it belongs.            *)
LEMMA JoinOnceStep ==
    ASSUME OneJoin', SlotInv, JoinOnce, [CSNext]_vars
    PROVE  JoinOnce'
<1>0. TypeOK
    BY DEF SlotInv
<1>1. ASSUME UNCHANGED <<inbox, joins, jti>> PROVE JoinOnce'
    BY <1>1 DEF JoinOnce
<1>2. CASE Start \/ Admin \/ Serve \/ Close \/ UNCHANGED vars
    BY <1>1, <1>2 DEF Start, Admin, Serve, Close, connVars, vars
<1>3. CASE Crash
    BY <1>3 DEF Crash, Forget, JoinOnce
<1>4. ASSUME NEW c \in Conns,
             Accept(c) \/ Lose(c) \/ WriterSend(c) \/ WriterFails(c) \/ Push(c)
             \/ ReadEnd(c) \/ DieOnWriterError(c)
      PROVE  JoinOnce'
    BY <1>1, <1>4 DEF Accept, Lose, WriterSend, WriterFails, Push, ReadEnd, DieOnWriterError
<1>5. ASSUME NEW c \in Conns, NEW f \in Frames, Receive(c, f) PROVE JoinOnce'
    BY <1>0, <1>5, ReceiveKeepsOrder
<1>6. ASSUME NEW c \in Conns,
             DispatchOther(c) \/ DecodeFails(c) \/ \E t \in Tokens : RejectJoin(c, t)
      PROVE  JoinOnce'
    <2>1. Read(c) /\ UNCHANGED <<joins, jti>>
        BY <1>6 DEF DispatchOther, DecodeFails, RejectJoin
    <2> QED BY <1>0, <2>1, ReadKeepsOrder
<1>7. ASSUME NEW c \in Conns, NEW t \in Tokens, AckJoin(c, t) \/ SaveWorkerFails(c, t)
      PROVE  JoinOnce'
    <2>1. Read(c) /\ Head(inbox[c]) = t /\ UNCHANGED joins /\ jti' = [jti EXCEPT ![c] = t]
        BY <1>7 DEF AckJoin, SaveWorkerFails, TakeSlot, JtiAfterAdmit
    <2>2. joins[c] # 0 /\ \A i \in DOMAIN inbox'[c] : inbox'[c][i] \notin Tokens
        BY <1>0, <2>1, JoinIsFirst
    <2>3. \A d \in Conns \ {c} : inbox'[d] = inbox[d] /\ jti'[d] = jti[d]
        BY <1>0, <2>1 DEF Read, TypeOK
    <2> QED BY <2>1, <2>2, <2>3 DEF JoinOnce
<1>8. ASSUME NEW c \in Conns, Deregister(c) PROVE JoinOnce'
    <2>1. inbox'[c] = <<>> /\ jti'[c] = None
        BY <1>0, <1>8 DEF Deregister, TypeOK
    <2>2. \A d \in Conns \ {c} : inbox'[d] = inbox[d] /\ jti'[d] = jti[d] /\ joins'[d] = joins[d]
        BY <1>0, <1>8 DEF Deregister, TypeOK
    <2> QED BY <2>1, <2>2 DEF JoinOnce
<1> QED
    BY <1>2, <1>3, <1>4, <1>5, <1>6, <1>7, <1>8
    DEF CSNext, ConnNext, Dispatch, DispatchDone, DispatchRaises

-----------------------------------------------------------------------------
(* What a step of the server is for the pools.                             *)
Withdrawn == expired \cup revokeDone
SlotsStay ==
    /\ UNCHANGED <<jti, live>>
    /\ Withdrawn' = Withdrawn \/ \E t \in Tokens : Withdrawn' = Withdrawn \cup {t}
SlotTaken(c, t) ==
    /\ jti[c] = None
    /\ HasRoom(t)
    /\ jti' = [jti EXCEPT ![c] = t]
    /\ live' = LiveAfterAdmit(t)
    /\ Withdrawn' = Withdrawn
SlotFreed(c) ==
    /\ handler'[c] = "none"
    /\ jti' = [jti EXCEPT ![c] = None]
    /\ live' = ReleaseSlot(c)
    /\ Withdrawn' = Withdrawn
AllGone ==
    /\ \A c \in Conns : handler'[c] = "none" /\ jti'[c] = None
    /\ live' = NoneLive
    /\ Withdrawn' = Withdrawn

(* Every step of the server is one of these four for the slots.            *)
LEMMA StepsOfSlots ==
    ASSUME SlotInv, JoinOnce, [CSNext]_vars
    PROVE  \/ SlotsStay
           \/ \E c \in Conns, t \in Tokens : SlotTaken(c, t)
           \/ \E c \in Conns : SlotFreed(c)
           \/ AllGone
<1>0. TypeOK
    BY DEF SlotInv
<1>1. CASE Start
    <2>1. \A c \in Conns : handler[c] = "none"
        BY <1>1 DEF Start, TokStart, SlotInv, DownIsEmpty, Registered
    <2>2. AllGone
        BY <1>1, <2>1 DEF Start, TokStart, connVars, AllGone, Withdrawn, SlotInv, IdleHoldsNothing
    <2> QED BY <2>2
<1>2. CASE Crash
    <2>1. live' = NoneLive /\ UNCHANGED <<expired, revokeDone>>
        BY <1>2 DEF Crash, TokCrash, TokCrashInCall, IssueThenCrash, RevokeThenCrash, MemoryLost
    <2> QED BY <1>2, <2>1 DEF Crash, Forget, AllGone, Withdrawn
<1>3. CASE Admin
    <2>1. UNCHANGED <<jti, live>>
        BY <1>3 DEF Admin, TokAdmin, Issue, IssueFails, Revoke, RevokeStoreError, Expire, connVars
    <2>2. Withdrawn' = Withdrawn \/ \E t \in Tokens : Withdrawn' = Withdrawn \cup {t}
        <3>1. ASSUME NEW t \in Tokens, Issue(t) \/ IssueFails(t) \/ RevokeStoreError(t)
              PROVE  Withdrawn' = Withdrawn
            BY <3>1 DEF Issue, IssueFails, RevokeStoreError, Withdrawn
        <3>2. ASSUME NEW t \in Tokens, Revoke(t) \/ Expire(t)
              PROVE  Withdrawn' = Withdrawn \cup {t}
            BY <3>2 DEF Revoke, Expire, Withdrawn
        <3> QED BY <1>3, <3>1, <3>2 DEF Admin, TokAdmin
    <2> QED BY <2>1, <2>2 DEF SlotsStay
<1>4. CASE Serve \/ Close \/ UNCHANGED vars
    BY <1>4 DEF Serve, Close, SlotsStay, Withdrawn, tokVars, connVars, vars
<1>5. ASSUME NEW c \in Conns,
             Accept(c) \/ Lose(c) \/ (\E f \in Frames : Receive(c, f)) \/ WriterSend(c)
             \/ WriterFails(c) \/ Push(c) \/ ReadEnd(c) \/ DieOnWriterError(c)
      PROVE  SlotsStay
    BY <1>5 DEF Accept, Lose, Receive, WriterSend, WriterFails, Push, ReadEnd, DieOnWriterError,
                SlotsStay, Withdrawn, tokVars
<1>6. ASSUME NEW c \in Conns,
             DispatchOther(c) \/ DecodeFails(c) \/ \E t \in Tokens : RejectJoin(c, t)
      PROVE  SlotsStay
    BY <1>6 DEF DispatchOther, DecodeFails, RejectJoin, SlotsStay, Withdrawn, tokVars
<1>7. ASSUME NEW c \in Conns, NEW t \in Tokens, AckJoin(c, t) \/ SaveWorkerFails(c, t)
      PROVE  SlotTaken(c, t)
    <2>1. TakeSlot(c, t) /\ jti' = [jti EXCEPT ![c] = t]
        BY <1>7 DEF AckJoin, SaveWorkerFails, JtiAfterAdmit
    <2>2. Read(c) /\ Head(inbox[c]) = t /\ Admit(t)
        BY <2>1 DEF TakeSlot
    <2>3. jti[c] = None
        BY <1>0, <2>2, JoinIsFirst
    <2> QED BY <2>1, <2>2, <2>3 DEF Admit, SlotTaken, Withdrawn
<1>8. ASSUME NEW c \in Conns, Deregister(c) PROVE SlotFreed(c)
    BY <1>0, <1>8 DEF Deregister, SlotFreed, Withdrawn, TypeOK
<1> QED
    BY <1>1, <1>2, <1>3, <1>4, <1>5, <1>6, <1>7, <1>8
    DEF CSNext, ConnNext, Dispatch, DispatchDone, DispatchRaises

(* An admission adds one holder to the count of one.                       *)
LEMMA TakenCounted ==
    ASSUME SlotInv, SlotsAccounted, NEW c \in Conns, NEW t \in Tokens, SlotTaken(c, t)
    PROVE  SlotsAccounted'
<1> SUFFICES ASSUME NEW s \in Tokens PROVE live'[s] = Cardinality(Holders(s)')
    BY DEF SlotsAccounted
<1>1. live \in [Tokens -> Nat] /\ jti \in [Conns -> Tokens \cup {None}]
    BY DEF SlotInv, TypeOK, TokTypeOK
<1>2. live[s] = Cardinality(Holders(s))
    BY DEF SlotsAccounted
<1>3. IsFiniteSet(Holders(s))
    BY HoldersFinite
<1>4. c \notin Holders(s)
    BY SentinelAssumption DEF SlotTaken, Holders
<1>5. CASE s = t
    <2>1. Holders(s)' = Holders(s) \cup {c}
        BY <1>1, <1>5 DEF SlotTaken, Holders
    <2>2. Cardinality(Holders(s)') = Cardinality(Holders(s)) + 1
        BY <1>3, <1>4, <2>1, FS_AddElement
    <2>3. live'[s] = live[s] + 1
        BY <1>1, <1>5 DEF SlotTaken, LiveAfterAdmit
    <2> QED BY <1>2, <2>2, <2>3
<1>6. CASE s # t
    <2>1. Holders(s)' = Holders(s)
        BY <1>1, <1>4, <1>6 DEF SlotTaken, Holders
    <2>2. live'[s] = live[s]
        BY <1>1, <1>6 DEF SlotTaken, LiveAfterAdmit
    <2> QED BY <1>2, <2>1, <2>2
<1> QED BY <1>5, <1>6

(* A departure takes its one holder from the count.                        *)
LEMMA FreedCounted ==
    ASSUME SlotInv, SlotsAccounted, NEW c \in Conns, SlotFreed(c)
    PROVE  SlotsAccounted'
<1> SUFFICES ASSUME NEW s \in Tokens PROVE live'[s] = Cardinality(Holders(s)')
    BY DEF SlotsAccounted
<1>1. live \in [Tokens -> Nat] /\ jti \in [Conns -> Tokens \cup {None}]
    BY DEF SlotInv, TypeOK, TokTypeOK
<1>2. live[s] = Cardinality(Holders(s)) /\ live[s] \in Nat
    BY <1>1 DEF SlotsAccounted
<1>3. IsFiniteSet(Holders(s)) /\ Cardinality(Holders(s)') \in Nat
    BY HoldersFinite
<1>4. Holders(s)' = Holders(s) \ {c}
    BY <1>1, SentinelAssumption DEF SlotFreed, Holders
<1>5. Cardinality(Holders(s)') =
          IF c \in Holders(s) THEN Cardinality(Holders(s)) - 1 ELSE Cardinality(Holders(s))
    BY <1>3, <1>4, FS_RemoveElement
<1>6. CASE jti[c] = s
    <2>1. c \in Holders(s) /\ s # None
        BY <1>6, SentinelAssumption DEF Holders
    <2>2. live[s] > 0
        BY <1>2, <1>3, <1>5, <2>1
    <2>3. live'[s] = live[s] - 1
        BY <1>1, <1>6, <2>1, <2>2 DEF SlotFreed, ReleaseSlot, LiveAfterRelease
    <2> QED BY <1>2, <1>5, <2>1, <2>3
<1>7. CASE jti[c] # s
    <2>1. c \notin Holders(s)
        BY <1>7 DEF Holders
    <2>2. live'[s] = live[s]
        BY <1>1, <1>7 DEF SlotFreed, ReleaseSlot, LiveAfterRelease
    <2> QED BY <1>2, <1>5, <2>1, <2>2
<1> QED BY <1>6, <1>7

(* When all connections are gone, so are the counts.                       *)
LEMMA NoneCounted ==
    ASSUME \A c \in Conns : jti'[c] = None, live' = NoneLive
    PROVE  SlotsAccounted'
<1> SUFFICES ASSUME NEW s \in Tokens PROVE live'[s] = Cardinality(Holders(s)')
    BY DEF SlotsAccounted
<1>1. Holders(s)' = {}
    BY SentinelAssumption DEF Holders
<1> QED BY <1>1, FS_EmptySet DEF NoneLive

-----------------------------------------------------------------------------
(* A server that has not started has no slot taken and no join received.   *)
LEMMA PoolInvInit == CSInit => PoolInv
<1> SUFFICES ASSUME CSInit PROVE PoolInv
    OBVIOUS
<1>1. SlotInv
    BY SlotInvInit
<1>2. JoinOnce
    BY DEF CSInit, JoinOnce
<1>3. SlotsAccounted
    <2> SUFFICES ASSUME NEW s \in Tokens PROVE live[s] = Cardinality(Holders(s))
        BY DEF SlotsAccounted
    <2>1. Holders(s) = {}
        BY SentinelAssumption DEF CSInit, Holders
    <2> QED BY <2>1, FS_EmptySet DEF CSInit, TokInit, NoneLive
<1> QED BY <1>1, <1>2, <1>3 DEF PoolInv

(* Each step of the server keeps the books.                                *)
LEMMA PoolInvStep == OneJoin' /\ PoolInv /\ [CSNext]_vars => PoolInv'
<1> SUFFICES ASSUME OneJoin', PoolInv, [CSNext]_vars PROVE PoolInv'
    OBVIOUS
<1> USE DEF PoolInv
<1>1. SlotInv' /\ JoinOnce'
    BY SlotInvStep, JoinOnceStep
<1>2. CASE SlotsStay
    BY <1>1, <1>2 DEF SlotsStay, SlotsAccounted, Holders
<1>3. CASE \E c \in Conns, t \in Tokens : SlotTaken(c, t)
    BY <1>1, <1>3, TakenCounted
<1>4. CASE \E c \in Conns : SlotFreed(c)
    BY <1>1, <1>4, FreedCounted
<1>5. CASE AllGone
    BY <1>1, <1>5, NoneCounted DEF AllGone
<1> QED BY <1>2, <1>3, <1>4, <1>5, StepsOfSlots

-----------------------------------------------------------------------------
(* A step counts a join only when it receives one.                         *)
LEMMA JoinsSteps ==
    ASSUME TypeOK, [CSNext]_vars, NEW c \in Conns
    PROVE  joins'[c] \in {0, joins[c]} \/ \E t \in Tokens : Receive(c, t)
<1> USE DEF TypeOK
<1>1. CASE Start \/ Admin \/ Serve \/ Close \/ UNCHANGED vars
    BY <1>1 DEF Start, Admin, Serve, Close, connVars, vars
<1>2. CASE Crash
    BY <1>2 DEF Crash, Forget
<1>3. ASSUME NEW d \in Conns, NEW f \in Frames, Receive(d, f)
      PROVE  joins'[c] = joins[c] \/ \E t \in Tokens : Receive(c, t)
    BY <1>3 DEF Receive
<1>4. ASSUME NEW d \in Conns, Deregister(d) PROVE joins'[c] \in {0, joins[c]}
    BY <1>4 DEF Deregister
<1>5. ASSUME NEW d \in Conns, Dispatch(d) PROVE joins'[c] = joins[c]
    BY <1>5 DEF Dispatch, DispatchDone, DispatchRaises, DispatchOther, DecodeFails, RejectJoin,
                AckJoin, SaveWorkerFails, TakeSlot
<1>6. ASSUME NEW d \in Conns,
             Accept(d) \/ Lose(d) \/ WriterSend(d) \/ WriterFails(d) \/ Push(d)
             \/ ReadEnd(d) \/ DieOnWriterError(d)
      PROVE  joins'[c] = joins[c]
    BY <1>6 DEF Accept, Lose, WriterSend, WriterFails, Push, ReadEnd, DieOnWriterError
<1> QED BY <1>1, <1>2, <1>3, <1>4, <1>5, <1>6 DEF CSNext, ConnNext

(* With the bound of the runs at one, the condition holds: the runs check  *)
(* what is proved below.                                                   *)
LEMMA LimitMakesOneJoin == ASSUME JoinLimit <= 1 PROVE CSSpec => []OneJoin
<1>1. CSInit => OneJoin
    BY DEF CSInit, OneJoin
<1>2. SlotInv /\ OneJoin /\ [CSNext]_vars => OneJoin'
    <2> SUFFICES ASSUME SlotInv, OneJoin, [CSNext]_vars, NEW c \in Conns PROVE joins'[c] <= 1
        BY DEF OneJoin
    <2>1. TypeOK /\ joins[c] \in Nat /\ joins[c] <= 1
        BY DEF SlotInv, TypeOK, OneJoin
    <2>2. ASSUME NEW t \in Tokens, Receive(c, t) PROVE joins'[c] <= 1
        <3>1. joins[c] < JoinLimit /\ joins'[c] = joins[c] + 1
            BY <2>1, <2>2 DEF Receive, TypeOK
        <3> QED BY <2>1, <3>1, BoundsAssumption
    <2> QED BY <2>1, <2>2, JoinsSteps
<1> QED BY <1>1, <1>2, SlotInvariant, PTL DEF CSSpec

-----------------------------------------------------------------------------
(* PoolInv holds in every reachable state, if peers send one join each.    *)
THEOREM PoolInvariant == CSSpec /\ []OneJoin => []PoolInv
BY PoolInvInit, PoolInvStep, PTL DEF CSSpec

(* The count of a token is exactly the number of connections that hold a   *)
(* slot of it: every admit() has its connection and every release() freed  *)
(* one, whatever writers, saves, frames and the process died of.           *)
THEOREM AccountsTheorem == CSSpec /\ []OneJoin => []SlotsAccounted
<1>1. PoolInv => SlotsAccounted
    BY DEF PoolInv
<1> QED BY <1>1, PoolInvariant, PTL

(* A connection keeps the token whose slot it took until it is gone, so    *)
(* that release() gives the slot back to that token.                       *)
THEOREM KeepsTheorem == CSSpec /\ []OneJoin => SlotKeepsItsToken
<1> DEFINE Keeps ==
        \A c \in Conns : (jti[c] # None /\ jti'[c] # jti[c]) => handler'[c] = "none"
<1>1. PoolInv /\ [CSNext]_vars => [Keeps]_vars
    <2> SUFFICES ASSUME PoolInv, [CSNext]_vars PROVE Keeps
        OBVIOUS
    <2>0. jti \in [Conns -> Tokens \cup {None}]
        BY DEF PoolInv, SlotInv, TypeOK
    <2>1. CASE SlotsStay \/ AllGone
        BY <2>1 DEF SlotsStay, AllGone
    <2>2. CASE \E c \in Conns, t \in Tokens : SlotTaken(c, t)
        BY <2>0, <2>2 DEF SlotTaken
    <2>3. CASE \E c \in Conns : SlotFreed(c)
        BY <2>0, <2>3 DEF SlotFreed
    <2> QED BY <2>1, <2>2, <2>3, StepsOfSlots DEF PoolInv
<1> QED BY <1>1, PoolInvariant, PTL DEF CSSpec, SlotKeepsItsToken

-----------------------------------------------------------------------------
(* Each step maps to a step of SlotPool or to none.                        *)
LEMMA StepIsPoolStep ==
    ASSUME PoolInv, [CSNext]_vars
    PROVE  [Pool!PoolNext]_<<[t \in Tokens |-> Holders(t)], expired \cup revokeDone>>
<1> DEFINE members == [t \in Tokens |-> Holders(t)]
<1>0. jti \in [Conns -> Tokens \cup {None}]
    BY DEF PoolInv, SlotInv, TypeOK
<1>1. CASE SlotsStay
    <2>1. members' = members
        BY <1>1 DEF SlotsStay, Holders
    <2>2. CASE Withdrawn' = Withdrawn
        BY <2>1, <2>2 DEF Withdrawn
    <2>3. ASSUME NEW t \in Tokens, Withdrawn' = Withdrawn \cup {t}
          PROVE  Pool!Withdraw(t)
        BY <2>1, <2>3 DEF Withdrawn, Pool!Withdraw
    <2> QED BY <1>1, <2>2, <2>3 DEF SlotsStay, Pool!PoolNext
<1>2. ASSUME NEW c \in Conns, NEW t \in Tokens, SlotTaken(c, t)
      PROVE  Pool!Enter(c, t)
    <2>1. t \notin Withdrawn
        <3>1. jti'[c] = t /\ jti'[c] # None /\ jti'[c] # jti[c]
            BY <1>0, <1>2, SentinelAssumption DEF SlotTaken
        <3> QED BY <3>1, AdmissionStep DEF PoolInv, Withdrawn
    <2>2. Pool!HasPlace(t)
        BY <1>2 DEF Pool!HasPlace, Pool!Cardinality, Cardinality, SlotTaken, HasRoom, PoolInv, SlotsAccounted
    <2>3. \A s \in Tokens : c \notin members[s]
        BY <1>2, SentinelAssumption DEF SlotTaken, Holders
    <2>4. members' = [members EXCEPT ![t] = @ \cup {c}]
        <3>1. \A s \in Tokens : Holders(s)' = IF s = t THEN Holders(s) \cup {c} ELSE Holders(s)
            BY <1>0, <1>2, SentinelAssumption DEF SlotTaken, Holders
        <3> QED BY <3>1
    <2> QED BY <1>2, <2>1, <2>2, <2>3, <2>4 DEF Pool!Enter, SlotTaken, Withdrawn
<1>3. ASSUME NEW c \in Conns, SlotFreed(c) PROVE Pool!Leave({c})
    <2>1. \A s \in Tokens : Holders(s)' = Holders(s) \ {c}
        BY <1>0, <1>3, SentinelAssumption DEF SlotFreed, Holders
    <2> QED BY <1>3, <2>1 DEF Pool!Leave, SlotFreed, Withdrawn
<1>4. CASE AllGone
    <2>1. \A s \in Tokens : Holders(s)' = Holders(s) \ Conns
        BY <1>4, SentinelAssumption DEF AllGone, Holders
    <2>2. Pool!Leave(Conns)
        BY <1>4, <2>1 DEF Pool!Leave, AllGone, Withdrawn
    <2> QED BY <2>2 DEF Pool!PoolNext
<1> QED BY <1>1, <1>2, <1>3, <1>4, StepsOfSlots DEF PoolInv, Pool!PoolNext

(* The tasks, sockets and tables of the server together implement          *)
(* SlotPool: the promise of max_workers and of revocation.                 *)
THEOREM PoolTheorem == CSSpec /\ []OneJoin => ImplementsSlotPool
<1>1. CSInit => Pool!PoolInit
    BY SentinelAssumption DEF CSInit, TokInit, Pool!PoolInit, Holders
<1> QED BY <1>1, PoolInvariant, StepIsPoolStep, PTL
        DEF CSSpec, ImplementsSlotPool, Pool!PoolSpec, Pool!poolVars

-----------------------------------------------------------------------------
(* The replies.  A reject is the answer to the one join: none is in the    *)
(* inbox any more, and nothing was admitted.  An ack has a connection that *)
(* holds a slot under the token its Worker was saved with.                 *)
Rejected(c) == IsIn("reject", Announced(c))
Acked(c) == IsIn("ack", Announced(c))
ReplyAgrees(c) ==
    /\ Rejected(c) =>
          /\ joins[c] # 0
          /\ jti[c] = None
          /\ \A i \in DOMAIN inbox[c] : inbox[c][i] \notin Tokens
    /\ Acked(c) => saved[c] # None /\ saved[c] = jti[c]
RepliesAgree == \A c \in Conns : ReplyAgrees(c)
HoldersHaveToken == \A c \in Conns : jti[c] # None => jti[c] \in handedOut

ReplyInv == PoolInv /\ RepliesAgree /\ HoldersHaveToken

(* A message is in the queue or sent exactly if it is in one of the two.   *)
LEMMA IsInConcat ==
    ASSUME NEW S, NEW s \in Seq(S), NEW t \in Seq(S), NEW m
    PROVE  IsIn(m, s \o t) <=> IsIn(m, s) \/ IsIn(m, t)
<1>1. ASSUME NEW i \in DOMAIN s, s[i] = m PROVE IsIn(m, s \o t)
    <2>1. i \in DOMAIN (s \o t) /\ (s \o t)[i] = m
        BY <1>1
    <2> QED BY <2>1 DEF IsIn
<1>2. ASSUME NEW i \in DOMAIN t, t[i] = m PROVE IsIn(m, s \o t)
    <2>1. i + Len(s) \in DOMAIN (s \o t) /\ (s \o t)[i + Len(s)] = m
        BY <1>2
    <2> QED BY <2>1 DEF IsIn
<1>3. ASSUME NEW i \in DOMAIN (s \o t), (s \o t)[i] = m PROVE IsIn(m, s) \/ IsIn(m, t)
    <2>1. CASE i <= Len(s)
        <3>1. i \in DOMAIN s /\ s[i] = m
            BY <1>3, <2>1
        <3> QED BY <3>1 DEF IsIn
    <2>2. CASE i > Len(s)
        <3>1. i - Len(s) \in DOMAIN t /\ t[i - Len(s)] = m
            BY <1>3, <2>2
        <3> QED BY <3>1 DEF IsIn
    <2>3. i \in Nat
        BY <1>3
    <2> QED BY <2>1, <2>2, <2>3
<1> QED BY <1>1, <1>2, <1>3 DEF IsIn

(* The first of a sequence and the rest make up the sequence.              *)
LEMMA IsInHeadTail ==
    ASSUME NEW S, NEW s \in Seq(S), s # <<>>, NEW m
    PROVE  IsIn(m, s) <=> m = Head(s) \/ IsIn(m, Tail(s))
<1>1. ASSUME IsIn(m, s) PROVE m = Head(s) \/ IsIn(m, Tail(s))
    <2> PICK i \in DOMAIN s : s[i] = m
        BY <1>1 DEF IsIn
    <2>1. CASE i = 1
        BY <2>1
    <2>2. CASE i # 1
        <3>1. i - 1 \in DOMAIN Tail(s) /\ Tail(s)[i - 1] = m
            BY <2>2
        <3> QED BY <3>1 DEF IsIn
    <2> QED BY <2>1, <2>2
<1>2. ASSUME m = Head(s) PROVE IsIn(m, s)
    <2>1. 1 \in DOMAIN s /\ s[1] = m
        BY <1>2
    <2> QED BY <2>1 DEF IsIn
<1>3. ASSUME NEW i \in DOMAIN Tail(s), Tail(s)[i] = m PROVE IsIn(m, s)
    <2>1. i + 1 \in DOMAIN s /\ s[i + 1] = m
        BY <1>3
    <2> QED BY <2>1 DEF IsIn
<1> QED BY <1>1, <1>2, <1>3 DEF IsIn

(* Appending a message adds that message and no other.                     *)
LEMMA IsInAppend ==
    ASSUME NEW S, NEW s \in Seq(S), NEW m, NEW n \in S
    PROVE  IsIn(m, Append(s, n)) <=> m = n \/ IsIn(m, s)
<1>1. \A i \in DOMAIN s : i \in DOMAIN Append(s, n) /\ Append(s, n)[i] = s[i]
    OBVIOUS
<1>2. Len(s) + 1 \in DOMAIN Append(s, n) /\ Append(s, n)[Len(s) + 1] = n
    OBVIOUS
<1>3. \A i \in DOMAIN Append(s, n) : i \in DOMAIN s \/ i = Len(s) + 1
    OBVIOUS
<1> QED BY <1>1, <1>2, <1>3 DEF IsIn

(* What each kind of step does to what is queued or sent.                  *)
LEMMA AnnouncedSteps ==
    ASSUME TypeOK, TypeOK', NEW c \in Conns, NEW m
    PROVE  /\ \A n \in Messages :
                (sendq' = Reply(c, n) /\ UNCHANGED wire) =>
                    (IsIn(m, Announced(c))' <=> m = n \/ IsIn(m, Announced(c)))
           /\ WriterSend(c) => (IsIn(m, Announced(c))' <=> IsIn(m, Announced(c)))
           /\ WriterFails(c) => (IsIn(m, Announced(c))' => IsIn(m, Announced(c)))
<1>1. /\ sendq[c] \in Seq(Messages) /\ wire[c] \in Seq(Messages)
      /\ sendq'[c] \in Seq(Messages) /\ wire'[c] \in Seq(Messages)
    BY DEF TypeOK
<1>2. /\ IsIn(m, Announced(c)) <=> IsIn(m, sendq[c]) \/ IsIn(m, wire[c])
      /\ IsIn(m, Announced(c))' <=> IsIn(m, sendq'[c]) \/ IsIn(m, wire'[c])
    <2>1. IsIn(m, sendq[c] \o wire[c]) <=> IsIn(m, sendq[c]) \/ IsIn(m, wire[c])
        BY <1>1, IsInConcat
    <2>2. IsIn(m, sendq'[c] \o wire'[c]) <=> IsIn(m, sendq'[c]) \/ IsIn(m, wire'[c])
        BY <1>1, IsInConcat
    <2> QED BY <2>1, <2>2 DEF Announced, IsIn
<1>3. ASSUME NEW n \in Messages, sendq' = Reply(c, n), UNCHANGED wire
      PROVE  IsIn(m, Announced(c))' <=> m = n \/ IsIn(m, Announced(c))
    <2>1. sendq'[c] = Append(sendq[c], n)
        BY <1>3 DEF Reply, TypeOK
    <2>2. IsIn(m, sendq'[c]) <=> m = n \/ IsIn(m, sendq[c])
        BY <1>1, <2>1, IsInAppend
    <2> QED BY <1>2, <1>3, <2>2
<1>4. ASSUME WriterSend(c) PROVE IsIn(m, Announced(c))' <=> IsIn(m, Announced(c))
    <2>1. /\ sendq[c] # <<>>
          /\ sendq'[c] = Tail(sendq[c])
          /\ wire'[c] = Append(wire[c], Head(sendq[c]))
        BY <1>4 DEF WriterSend, TypeOK
    <2>2. Head(sendq[c]) \in Messages
        BY <1>1, <2>1
    <2>3. IsIn(m, sendq[c]) <=> m = Head(sendq[c]) \/ IsIn(m, sendq'[c])
        BY <1>1, <2>1, IsInHeadTail
    <2>4. IsIn(m, wire'[c]) <=> m = Head(sendq[c]) \/ IsIn(m, wire[c])
        BY <1>1, <2>1, <2>2, IsInAppend
    <2> QED BY <1>2, <2>3, <2>4
<1>5. ASSUME WriterFails(c) PROVE IsIn(m, Announced(c))' => IsIn(m, Announced(c))
    <2>1. sendq[c] # <<>> /\ sendq'[c] = Tail(sendq[c]) /\ wire'[c] = wire[c]
        BY <1>5 DEF WriterFails, TypeOK
    <2>2. IsIn(m, sendq[c]) <=> m = Head(sendq[c]) \/ IsIn(m, sendq'[c])
        BY <1>1, <2>1, IsInHeadTail
    <2> QED BY <1>2, <2>1, <2>2
<1> QED BY <1>3, <1>4, <1>5

(* A connection whose replies a step leaves alone, and that is not read or *)
(* is read without an admission, keeps what its replies say.               *)
Quiet(c) ==
    /\ Rejected(c)' => Rejected(c)
    /\ Acked(c)' => Acked(c)
    /\ UNCHANGED <<joins[c], jti[c], saved[c]>>
    /\ (\A i \in DOMAIN inbox[c] : inbox[c][i] \notin Tokens) =>
          \A i \in DOMAIN inbox'[c] : inbox'[c][i] \notin Tokens

(* A quiet step keeps what the replies of a connection say.                *)
LEMMA QuietKeeps ==
    ASSUME NEW c \in Conns, ReplyAgrees(c), Quiet(c)
    PROVE  ReplyAgrees(c)'
BY DEF ReplyAgrees, Quiet

(* Reading a frame cannot bring a join into the inbox.                     *)
LEMMA ReadBringsNoJoin ==
    ASSUME TypeOK, NEW c \in Conns, Read(c),
           \A i \in DOMAIN inbox[c] : inbox[c][i] \notin Tokens
    PROVE  /\ \A i \in DOMAIN inbox'[c] : inbox'[c][i] \notin Tokens
           /\ Head(inbox[c]) \notin Tokens
<1>1. inbox[c] \in Seq(Frames) /\ inbox[c] # <<>> /\ inbox'[c] = Tail(inbox[c])
    BY DEF Read, TypeOK
<1>2. 1 \in DOMAIN inbox[c] /\ Head(inbox[c]) = inbox[c][1]
    BY <1>1
<1>3. \A i \in DOMAIN inbox'[c] : i + 1 \in DOMAIN inbox[c] /\ inbox'[c][i] = inbox[c][i + 1]
    BY <1>1
<1> QED BY <1>2, <1>3

(* A connection with nothing queued or sent has no replies.                *)
LEMMA SilentHasNone ==
    ASSUME NEW c \in Conns, sendq'[c] = <<>>, wire'[c] = <<>>
    PROVE  ReplyAgrees(c)'
<1>1. DOMAIN (Announced(c)') = {}
    BY DEF Announced
<1> QED BY <1>1 DEF ReplyAgrees, Rejected, Acked, IsIn

(* Each step of the server keeps what the replies of a connection say.     *)
LEMMA ReplyAgreesStep ==
    ASSUME OneJoin', PoolInv, PoolInv', [CSNext]_vars, NEW c \in Conns, ReplyAgrees(c)
    PROVE  ReplyAgrees(c)'
<1>0. TypeOK /\ TypeOK' /\ JoinOnce
    BY DEF PoolInv, SlotInv
<1>1. ASSUME UNCHANGED <<inbox[c], joins[c], jti[c], saved[c], sendq[c], wire[c]>>
      PROVE  ReplyAgrees(c)'
    <2>1. UNCHANGED Announced(c)
        BY <1>1 DEF Announced
    <2>2. Quiet(c)
        BY <1>1, <2>1 DEF Quiet, Rejected, Acked, IsIn
    <2> QED BY <2>2, QuietKeeps
<1>2. CASE Start \/ Admin \/ Serve \/ Close \/ UNCHANGED vars
    BY <1>1, <1>2 DEF Start, Admin, Serve, Close, connVars, vars
<1>3. CASE Crash
    BY <1>3, SilentHasNone DEF Crash, Forget
<1>4. ASSUME NEW d \in Conns,
             Accept(d) \/ Lose(d) \/ ReadEnd(d) \/ DieOnWriterError(d)
      PROVE  ReplyAgrees(c)'
    BY <1>1, <1>4 DEF Accept, Lose, ReadEnd, DieOnWriterError
<1>5. ASSUME NEW d \in Conns, NEW f \in Frames, Receive(d, f) PROVE ReplyAgrees(c)'
    <2>1. UNCHANGED <<jti, saved, sendq, wire>>
        BY <1>5 DEF Receive
    <2>2. UNCHANGED Announced(c)
        BY <2>1 DEF Announced
    <2>3. CASE d # c
        BY <1>0, <1>1, <1>5, <2>1, <2>3 DEF Receive, TypeOK
    <2>4. CASE d = c /\ Rejected(c)
        <3>1. f \notin Tokens
            <4>1. joins[c] \in Nat /\ joins[c] # 0
                BY <1>0, <2>4 DEF ReplyAgrees, TypeOK
            <4>2. f \in Tokens => joins'[c] = joins[c] + 1
                BY <1>0, <1>5, <2>4 DEF Receive, TypeOK
            <4> QED BY <4>1, <4>2 DEF OneJoin
        <3>2. inbox[c] \in Seq(Frames) /\ inbox'[c] = Append(inbox[c], f)
            BY <1>0, <1>5, <2>4 DEF Receive, TypeOK
        <3>3. \A i \in DOMAIN inbox'[c] : i \in DOMAIN inbox[c] \/ i = Len(inbox[c]) + 1
            BY <3>2
        <3>4. \A i \in DOMAIN inbox'[c] : inbox'[c][i] \notin Tokens
            BY <2>4, <3>1, <3>2, <3>3 DEF ReplyAgrees
        <3>5. joins'[c] = joins[c]
            BY <1>0, <1>5, <2>4, <3>1 DEF Receive, TypeOK
        <3> QED BY <2>1, <2>2, <3>4, <3>5, QuietKeeps DEF Quiet, Rejected, Acked, IsIn
    <2>5. CASE d = c /\ ~Rejected(c)
        <3>1. ~Rejected(c)' /\ (Acked(c)' => Acked(c))
            BY <2>2, <2>5 DEF Rejected, Acked, IsIn
        <3> QED BY <2>1, <3>1 DEF ReplyAgrees
    <2> QED BY <2>3, <2>4, <2>5
<1>6. ASSUME NEW d \in Conns, DispatchOther(d) \/ DecodeFails(d) PROVE ReplyAgrees(c)'
    <2>1. Read(d) /\ UNCHANGED <<joins, jti, saved, sendq, wire>>
        BY <1>6 DEF DispatchOther, DecodeFails
    <2>2. CASE d # c
        BY <1>0, <1>1, <2>1, <2>2 DEF Read, TypeOK
    <2>3. CASE d = c
        <3>1. UNCHANGED Announced(c)
            BY <2>1 DEF Announced
        <3>2. Quiet(c)
            BY <1>0, <2>1, <2>3, <3>1, ReadBringsNoJoin DEF Quiet, Rejected, Acked, IsIn
        <3> QED BY <3>2, QuietKeeps
    <2> QED BY <2>2, <2>3
<1>7. ASSUME NEW d \in Conns, NEW t \in Tokens,
             RejectJoin(d, t) \/ AckJoin(d, t) \/ SaveWorkerFails(d, t)
      PROVE  ReplyAgrees(c)'
    <2>1. Read(d) /\ Head(inbox[d]) = t
        BY <1>7 DEF RejectJoin, AckJoin, SaveWorkerFails, TakeSlot
    <2>2. CASE d # c
        BY <1>0, <1>1, <1>7, <2>1, <2>2
        DEF Read, TypeOK, RejectJoin, AckJoin, SaveWorkerFails, TakeSlot, JtiAfterAdmit,
            SavedAfterAdmit, Reply
    <2>3. CASE d = c
        <3>1. /\ joins[c] # 0
              /\ jti[c] = None
              /\ \A i \in DOMAIN inbox'[c] : inbox'[c][i] \notin Tokens
            BY <1>0, <2>1, <2>3, JoinIsFirst
        <3>2. ~Rejected(c) /\ ~Acked(c)
            BY <1>0, <2>1, <2>3, <3>1, ReadBringsNoJoin DEF ReplyAgrees
        <3>3. CASE RejectJoin(c, t)
            <4>1. UNCHANGED <<joins, jti, saved, wire>> /\ sendq' = Reply(c, "reject")
                BY <3>3 DEF RejectJoin
            <4>2. ~Acked(c)'
                BY <1>0, <3>2, <4>1, AnnouncedSteps DEF Acked, Messages
            <4> QED BY <3>1, <4>1, <4>2 DEF ReplyAgrees
        <3>4. CASE AckJoin(c, t)
            <4>1. UNCHANGED <<joins, wire>> /\ sendq' = Reply(c, "ack")
                BY <3>4 DEF AckJoin, TakeSlot
            <4>2. ~Rejected(c)'
                BY <1>0, <3>2, <4>1, AnnouncedSteps DEF Rejected, Messages
            <4>3. saved'[c] = t /\ jti'[c] = t /\ t # None
                BY <1>0, <3>4, SentinelAssumption
                DEF AckJoin, SavedAfterAdmit, JtiAfterAdmit, TypeOK
            <4> QED BY <4>2, <4>3 DEF ReplyAgrees
        <3>5. CASE SaveWorkerFails(c, t)
            <4>1. UNCHANGED Announced(c)
                BY <3>5 DEF SaveWorkerFails, TakeSlot, Announced
            <4> QED BY <3>2, <4>1 DEF ReplyAgrees, Rejected, Acked, IsIn
        <3> QED BY <1>7, <2>3, <3>3, <3>4, <3>5
    <2> QED BY <2>2, <2>3
<1>8. ASSUME NEW d \in Conns, WriterSend(d) \/ WriterFails(d) \/ Push(d) PROVE ReplyAgrees(c)'
    <2>1. UNCHANGED <<inbox, joins, jti, saved>>
        BY <1>8 DEF WriterSend, WriterFails, Push
    <2>2. CASE d # c
        BY <1>0, <1>1, <1>8, <2>1, <2>2 DEF WriterSend, WriterFails, Push, Reply, TypeOK
    <2>3. CASE d = c
        <3>1. Push(c) => sendq' = Reply(c, "push") /\ UNCHANGED wire
            BY DEF Push
        <3>2. (Rejected(c)' => Rejected(c)) /\ (Acked(c)' => Acked(c))
            BY <1>0, <1>8, <2>3, <3>1, AnnouncedSteps DEF Rejected, Acked, Messages
        <3> QED BY <2>1, <3>2, QuietKeeps DEF Quiet
    <2> QED BY <2>2, <2>3
<1>9. ASSUME NEW d \in Conns, Deregister(d) PROVE ReplyAgrees(c)'
    <2>1. CASE d # c
        BY <1>0, <1>1, <1>9, <2>1 DEF Deregister, TypeOK
    <2>2. CASE d = c
        BY <1>0, <1>9, <2>2, SilentHasNone DEF Deregister, TypeOK
    <2> QED BY <2>1, <2>2
<1> QED
    BY <1>2, <1>3, <1>4, <1>5, <1>6, <1>7, <1>8, <1>9
    DEF CSNext, ConnNext, Dispatch, DispatchDone, DispatchRaises

(* No reply and no holder before the server starts.                        *)
LEMMA ReplyInvInit == CSInit => ReplyInv
<1> SUFFICES ASSUME CSInit PROVE ReplyInv
    OBVIOUS
<1>1. ASSUME NEW c \in Conns PROVE ~Rejected(c) /\ ~Acked(c)
    <2>1. DOMAIN Announced(c) = {}
        BY DEF CSInit, Announced
    <2> QED BY <2>1 DEF Rejected, Acked, IsIn
<1>2. HoldersHaveToken
    BY DEF CSInit, HoldersHaveToken
<1> QED BY <1>1, <1>2, PoolInvInit DEF ReplyInv, RepliesAgree, ReplyAgrees

(* What was handed out stays handed out.                                   *)
LEMMA HandedOutGrows ==
    ASSUME [CSNext]_vars
    PROVE  handedOut \subseteq handedOut'
<1>1. ASSUME UNCHANGED handedOut PROVE handedOut \subseteq handedOut'
    BY <1>1
<1>2. CASE Start \/ Serve \/ Close \/ UNCHANGED vars
    BY <1>1, <1>2 DEF Start, TokStart, Serve, Close, tokVars, vars
<1>3. CASE Crash
    BY <1>1, <1>3 DEF Crash, TokCrash, TokCrashInCall, IssueThenCrash, RevokeThenCrash
<1>4. CASE Admin
    BY <1>4 DEF Admin, TokAdmin, Issue, IssueFails, Revoke, RevokeStoreError, Expire
<1>5. ASSUME NEW c \in Conns,
             Accept(c) \/ Lose(c) \/ (\E f \in Frames : Receive(c, f)) \/ WriterSend(c)
             \/ WriterFails(c) \/ Push(c) \/ ReadEnd(c) \/ DieOnWriterError(c)
             \/ DispatchOther(c) \/ DecodeFails(c) \/ Deregister(c)
      PROVE  UNCHANGED handedOut
    BY <1>5 DEF Accept, Lose, Receive, WriterSend, WriterFails, Push, ReadEnd, DieOnWriterError,
                DispatchOther, DecodeFails, Deregister, tokVars
<1>6. ASSUME NEW c \in Conns, NEW t \in Tokens,
             RejectJoin(c, t) \/ AckJoin(c, t) \/ SaveWorkerFails(c, t)
      PROVE  UNCHANGED handedOut
    BY <1>6 DEF RejectJoin, AckJoin, SaveWorkerFails, TakeSlot, Admit, tokVars
<1> QED
    BY <1>1, <1>2, <1>3, <1>4, <1>5, <1>6
    DEF CSNext, ConnNext, Dispatch, DispatchDone, DispatchRaises

(* Each step of the server keeps what the replies of all connections say.  *)
LEMMA ReplyInvStep == OneJoin' /\ ReplyInv /\ [CSNext]_vars => ReplyInv'
<1> SUFFICES ASSUME OneJoin', ReplyInv, [CSNext]_vars PROVE ReplyInv'
    OBVIOUS
<1>1. PoolInv /\ PoolInv'
    BY PoolInvStep DEF ReplyInv
<1>2. RepliesAgree'
    BY <1>1, ReplyAgreesStep DEF ReplyInv, RepliesAgree
<1>3. HoldersHaveToken'
    BY <1>1, AdmissionStep, HandedOutGrows, SlotInvStep
    DEF ReplyInv, HoldersHaveToken, PoolInv
<1> QED BY <1>1, <1>2, <1>3 DEF ReplyInv

(* ReplyInv holds in every reachable state, if peers send one join each.   *)
THEOREM ReplyInvariant == CSSpec /\ []OneJoin => []ReplyInv
BY ReplyInvInit, ReplyInvStep, PTL DEF CSSpec

(* A connection that was sent, or is about to be sent, a join_reject holds *)
(* no slot: a refused Worker does not use up max_workers.                  *)
THEOREM RejectTheorem == CSSpec /\ []OneJoin => []RejectHoldsNothing
<1>1. ReplyInv => RejectHoldsNothing
    BY DEF ReplyInv, RepliesAgree, ReplyAgrees, Rejected, RejectHoldsNothing
<1> QED BY <1>1, ReplyInvariant, PTL

(* A Worker that was told it joined is on record: its row was saved under  *)
(* the token whose slot it holds, and that token's own row is durable.     *)
THEOREM AckTheorem == CSSpec /\ []OneJoin => []AckedIsSaved
<1>1. ReplyInv => AckedIsSaved
    <2> SUFFICES ASSUME ReplyInv, NEW c \in Conns, Acked(c)
                 PROVE  saved[c] # None /\ saved[c] = jti[c] /\ row[saved[c]] # "absent"
        BY DEF AckedIsSaved, Acked
    <2>1. saved[c] # None /\ saved[c] = jti[c]
        BY DEF ReplyInv, RepliesAgree, ReplyAgrees
    <2>2. jti[c] \in handedOut
        BY <2>1 DEF ReplyInv, HoldersHaveToken
    <2> QED BY <2>1, <2>2
            DEF ReplyInv, PoolInv, SlotInv, TokInv, TableInv, HandedOutHasRow
<1> QED BY <1>1, ReplyInvariant, PTL
=============================================================================
