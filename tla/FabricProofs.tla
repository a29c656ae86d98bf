----------------------------- MODULE FabricProofs -----------------------------
(***************************************************************************)
(* Theorems about Fabric, for any number of Workers, connections and       *)
(* tokens: it behaves as its server and as its daemons do, its books       *)
(* balance, the two ends agree on who has joined, and nobody is turned     *)
(* away without a cause.                                                   *)
(***************************************************************************)
EXTENDS Fabric, SlotPoolProofs, WorkerDaemonProofs

-----------------------------------------------------------------------------
(* The inductive invariant.  JoinedHoldsSlot speaks of what a Worker read; *)
(* what carries it is that a connection works for one Worker alone, from   *)
(* its accept to its pop: whatever is in its inbox, in its books and in    *)
(* its replies comes from the join of that Worker.                         *)
TokenAt(c) == TokenOf[peer[c]]

\* A connection has a far end exactly while it is registered, and a Worker's
\* connection has that Worker there.
EndsAgree ==
    /\ \A c \in Conns : peer[c] = None <=> handler[c] = "none"
    /\ \A w \in Workers : link[w] # None => peer[link[w]] = w

\* Nothing is left on a member of Conns that stands for no connection.
Blank(c) ==
    /\ inbox[c] = <<>> /\ sendq[c] = <<>> /\ wire[c] = <<>>
    /\ jti[c] = None /\ saved[c] = None

Booked(c) == jti[c] # None /\ saved[c] # None

\* A join_reject is the answer to a token that had expired or was revoked, or to
\* one with a max_workers claim.
Deserved(c) ==
    \/ MaxWorkers[TokenAt(c)] # Unlimited
    \/ TokenAt(c) \in expired \cup revoked

ConnAgrees(c) ==
    /\ peer[c] = None => Blank(c)
    /\ peer[c] # None => TokenAt(c) \in handedOut
    /\ \A i \in DOMAIN inbox[c] : inbox[c][i] \in Tokens => inbox[c][i] = TokenAt(c)
    /\ jti[c] # None => jti[c] = TokenAt(c)
    /\ saved[c] # None => saved[c] = TokenAt(c)
    /\ Acked(c) => Booked(c)
    /\ Rejected(c) => Deserved(c)

\* A connection whose join is on its way has seen none, nor has one that is yet
\* to be accepted.
SentOnce == \A c \in Conns : (handler[c] = "none" \/ c \in onWay) => joins[c] = 0

JoinedIsBooked ==
    \A w \in Workers : (pc[w] = "joined" /\ link[w] # None) => Booked(link[w])

FabricInv ==
    /\ FabricTypeOK
    /\ SlotInv
    /\ DaemonInv
    /\ EndsAgree
    /\ \A c \in Conns : ConnAgrees(c)
    /\ JoinedIsBooked
    /\ OneJoin
    /\ SentOnce

-----------------------------------------------------------------------------
(* Fabric as a composition.                                                *)

(* A step of Fabric is a step of the server and a step of the daemons, or  *)
(* leaves the one or the other alone.                                      *)
LEMMA FabricPartsStep ==
    ASSUME FabricTypeOK, EndsAgree, [FabricNext]_fabricVars
    PROVE  [CSNext]_vars /\ [WDNext]_wdVars
<1>1. CASE FStart \/ FServe \/ FClose \/ FAdmin \/ FCrash
    BY <1>1 DEF FStart, FServe, FClose, FAdmin, FCrash, serverRest, CSNext
<1>2. ASSUME NEW c \in Conns, ServerNext(c) PROVE [CSNext]_vars /\ [WDNext]_wdVars
    <2>1. UNCHANGED wdVars
        BY <1>2 DEF ServerNext, FDispatch, FDispatchRaises, FWriterSend, FWriterFails, FReadEnd,
                    FDie, FPush, FDeregister, FLose, FJoinArrives, serverRest
    <2>2. CASE FJoinArrives(c)
        <3>1. peer[c] \in Workers /\ Receive(c, JoinFrame(peer[c]))
            BY <2>2 DEF FJoinArrives, Receive, EndsAgree, FabricTypeOK
        <3>2. JoinFrame(peer[c]) \in Frames
            BY <3>1, TokenOfAssumption DEF JoinFrame, Frames
        <3> QED BY <2>1, <3>1, <3>2 DEF CSNext, ConnNext
    <2>3. CASE ~FJoinArrives(c)
        BY <1>2, <2>1, <2>3
        DEF ServerNext, FDispatch, FDispatchRaises, FWriterSend, FWriterFails, FReadEnd,
            FDie, FPush, FDeregister, FLose, CSNext, ConnNext, Dispatch, DispatchRaises
    <2> QED BY <2>2, <2>3
<1>3. ASSUME NEW w \in Workers, WorkerNext(w) PROVE [CSNext]_vars /\ [WDNext]_wdVars
    <2>1. ASSUME NEW c \in Conns, FConnect(w, c) PROVE [CSNext]_vars /\ [WDNext]_wdVars
        BY <2>1, PinnedAssumption DEF FConnect, CSNext, ConnNext, ExchangeNext, WDNext
    <2>2. CASE FHeartbeatArrives(w)
        <3>1. link[w] \in Conns /\ Other \in Frames
            BY <2>2 DEF FHeartbeatArrives, FabricTypeOK, Frames
        <3> QED BY <2>2, <3>1 DEF FHeartbeatArrives, serverRest, CSNext, ConnNext
    <2>3. CASE FReply(w)
        BY <2>3 DEF FReply, daemonRest, WDNext, ExchangeNext
    <2>4. CASE FConnectFails(w) \/ FHandshakeFails(w) \/ FNotice(w) \/ FReadEnds(w)
               \/ FSessionEnds(w) \/ FHeartbeatFails(w) \/ FWake(w)
        BY <2>4 DEF FConnectFails, FHandshakeFails, FNotice, FReadEnds, FSessionEnds,
                    FHeartbeatFails, FWake, SessionEnds, daemonRest, WDNext, OwnNext
    <2> QED BY <1>3, <2>1, <2>2, <2>3, <2>4 DEF WorkerNext
<1>4. CASE UNCHANGED fabricVars
    BY <1>4 DEF fabricVars
<1> QED BY <1>1, <1>2, <1>3, <1>4 DEF FabricNext

-----------------------------------------------------------------------------
(* The ends.                                                               *)

(* Every step keeps the types of the variables that are Fabric's own.      *)
LEMMA EndTypesStep ==
    ASSUME FabricTypeOK, [FabricNext]_fabricVars
    PROVE  /\ peer' \in [Conns -> Workers \cup {None}]
           /\ link' \in [Workers -> Conns \cup {None}]
           /\ onWay' \subseteq Conns
           /\ faults' \in 0..FaultBound
<1> USE DEF FabricTypeOK
<1>1. ASSUME faults' \in {faults, faults + 1}, faults' <= FaultBound
      PROVE  faults' \in 0..FaultBound
    BY <1>1, FaultBoundAssumption
<1>2. CASE FStart \/ FServe
    BY <1>2 DEF FStart, FServe, serverRest
<1>3. CASE FClose \/ FAdmin \/ FCrash
    BY <1>1, <1>3 DEF FClose, FAdmin, FCrash, FaultUnless
<1>4. ASSUME NEW c \in Conns, ServerNext(c)
      PROVE  /\ peer' \in [Conns -> Workers \cup {None}]
             /\ link' \in [Workers -> Conns \cup {None}]
             /\ onWay' \subseteq Conns
           /\ faults' \in 0..FaultBound
    <2>1. CASE FDispatch(c) \/ FWriterSend(c) \/ FWriterFails(c) \/ FReadEnd(c) \/ FDie(c)
               \/ FPush(c) \/ FJoinArrives(c)
        BY <2>1 DEF FDispatch, FWriterSend, FWriterFails, FReadEnd, FDie, FPush, FJoinArrives,
                    serverRest
    <2>2. CASE FDispatchRaises(c) \/ FLose(c)
        BY <1>1, <2>2 DEF FDispatchRaises, FLose, FaultUnless
    <2>3. CASE FDeregister(c)
        BY <2>3 DEF FDeregister
    <2> QED BY <1>4, <2>1, <2>2, <2>3 DEF ServerNext
<1>5. ASSUME NEW w \in Workers, WorkerNext(w)
      PROVE  /\ peer' \in [Conns -> Workers \cup {None}]
             /\ link' \in [Workers -> Conns \cup {None}]
             /\ onWay' \subseteq Conns
           /\ faults' \in 0..FaultBound
    <2>1. CASE \E c \in Conns : FConnect(w, c)
        BY <2>1 DEF FConnect
    <2>2. CASE FConnectFails(w) \/ FHandshakeFails(w) \/ FNotice(w)
        BY <1>1, <2>2 DEF FConnectFails, FHandshakeFails, FNotice, FaultUnless
    <2>3. CASE FHeartbeatArrives(w) \/ FReply(w)
        BY <2>3 DEF FHeartbeatArrives, FReply, serverRest, daemonRest
    <2>4. CASE FReadEnds(w) \/ FSessionEnds(w) \/ FHeartbeatFails(w) \/ FWake(w)
        BY <2>4 DEF FReadEnds, FSessionEnds, FHeartbeatFails, FWake, daemonRest
    <2> QED BY <1>5, <2>1, <2>2, <2>3, <2>4 DEF WorkerNext
<1>6. CASE UNCHANGED fabricVars
    BY <1>6 DEF fabricVars
<1> QED BY <1>2, <1>3, <1>4, <1>5, <1>6 DEF FabricNext

(* No step but an accept, a pop and a crash registers a connection or      *)
(* takes it off the register, and those do so at both ends.                *)
LEMMA EndsAgreeStep ==
    ASSUME FabricTypeOK, EndsAgree, [FabricNext]_fabricVars
    PROVE  EndsAgree'
<1> USE NobodyAssumption DEF FabricTypeOK, TypeOK, EndsAgree
<1>1. ASSUME UNCHANGED <<handler, peer>>, \A w \in Workers : link'[w] \in {None, link[w]}
      PROVE  EndsAgree'
    BY <1>1
<1>2. CASE FStart \/ FServe \/ FClose \/ FAdmin
    BY <1>1, <1>2 DEF FStart, FServe, FClose, FAdmin, Start, Serve, Close, Admin, serverRest,
                      connVars
<1>3. CASE FCrash
    BY <1>3 DEF FCrash, Crash, Forget
<1>4. ASSUME NEW c \in Conns, ServerNext(c) PROVE EndsAgree'
    <2>1. CASE FWriterSend(c) \/ FWriterFails(c) \/ FPush(c) \/ FJoinArrives(c) \/ FLose(c)
        BY <1>1, <2>1
        DEF FWriterSend, FWriterFails, FPush, FJoinArrives, FLose, WriterSend, WriterFails, Push,
            Receive, Lose, serverRest
    <2>2. CASE FDispatch(c) \/ FDispatchRaises(c) \/ FReadEnd(c) \/ FDie(c)
        <3>1. /\ UNCHANGED <<peer, link>>
              /\ handler[c] \in {"reading", "closing"}
              /\ handler' = handler \/ \E h \in {"closing", "crashed"} :
                                          handler' = [handler EXCEPT ![c] = h]
            <4>1. CASE FDispatch(c)
                BY <4>1 DEF FDispatch, DispatchDone, DispatchOther, RejectJoin, AckJoin,
                            TakeSlot, Read, serverRest
            <4>2. CASE FDispatchRaises(c)
                BY <4>2 DEF FDispatchRaises, SaveWorkerFails, TakeSlot, Read
            <4>3. CASE FReadEnd(c) \/ FDie(c)
                BY <4>3 DEF FReadEnd, FDie, ReadEnd, DieOnWriterError, serverRest
            <4> QED BY <2>2, <4>1, <4>2, <4>3
        <3> QED BY <3>1
    <2>3. CASE FDeregister(c)
        BY <2>3 DEF FDeregister, Deregister
    <2> QED BY <1>4, <2>1, <2>2, <2>3 DEF ServerNext
<1>5. ASSUME NEW w \in Workers, WorkerNext(w) PROVE EndsAgree'
    <2>1. ASSUME NEW c \in Conns, FConnect(w, c) PROVE EndsAgree'
        <3>1. /\ handler[c] = "none" /\ handler' = [handler EXCEPT ![c] = "reading"]
              /\ peer' = [peer EXCEPT ![c] = w] /\ link' = [link EXCEPT ![w] = c]
            BY <2>1 DEF FConnect, Accept
        <3>2. \A v \in Workers : link[v] # c
            BY <3>1
        <3> QED BY <3>1, <3>2
    <2>2. CASE FConnectFails(w) \/ FHandshakeFails(w) \/ FNotice(w) \/ FHeartbeatArrives(w)
        BY <1>1, <2>2 DEF FConnectFails, FHandshakeFails, FNotice, FHeartbeatArrives, Receive,
                          serverRest, vars
    <2>3. CASE FReply(w) \/ FReadEnds(w) \/ FSessionEnds(w) \/ FHeartbeatFails(w) \/ FWake(w)
        <3>1. UNCHANGED <<handler, peer>>
            BY <2>3 DEF FReply, FReadEnds, FSessionEnds, FHeartbeatFails, FWake, daemonRest, vars
        <3>2. link' = link \/ link' = [link EXCEPT ![w] = None]
            BY <2>3 DEF FReply, FReadEnds, FSessionEnds, FHeartbeatFails, FWake
        <3> QED BY <1>1, <3>1, <3>2
    <2> QED BY <1>5, <2>1, <2>2, <2>3 DEF WorkerNext
<1>6. CASE UNCHANGED fabricVars
    BY <1>1, <1>6 DEF fabricVars, vars
<1> QED BY <1>2, <1>3, <1>4, <1>5, <1>6 DEF FabricNext

-----------------------------------------------------------------------------
(* One connection.                                                         *)
Same(c) == UNCHANGED <<inbox[c], sendq[c], wire[c], jti[c], saved[c]>>

(* What a step does to a connection, unless it accepts or pops it.         *)
LEMMA ConnSteps ==
    ASSUME FabricTypeOK, EndsAgree, [FabricNext]_fabricVars,
           NEW c \in Conns, peer'[c] = peer[c], ~FCrash
    PROVE  \/ Same(c)
           \/ Receive(c, TokenAt(c)) \/ Receive(c, Other)
           \/ DispatchOther(c)
           \/ \E t \in Tokens : RejectJoin(c, t) \/ AckJoin(c, t) \/ SaveWorkerFails(c, t)
           \/ WriterSend(c) \/ WriterFails(c) \/ Push(c)
<1> USE DEF FabricTypeOK, TypeOK
<1>1. CASE FStart \/ FServe \/ FClose \/ FAdmin
    BY <1>1 DEF FStart, FServe, FClose, FAdmin, Start, Serve, Close, Admin, connVars, Same
<1>3. ASSUME NEW d \in Conns, ServerNext(d), d # c PROVE Same(c)
    <2>1. CASE FDispatch(d)
        BY <1>3, <2>1 DEF FDispatch, DispatchDone, DispatchOther, RejectJoin, AckJoin, TakeSlot,
                          Read, Reply, JtiAfterAdmit, SavedAfterAdmit, Same
    <2>2. CASE FDispatchRaises(d)
        BY <1>3, <2>2 DEF FDispatchRaises, SaveWorkerFails, TakeSlot, Read, JtiAfterAdmit, Same
    <2>3. CASE FWriterSend(d) \/ FWriterFails(d) \/ FPush(d) \/ FJoinArrives(d)
        BY <1>3, <2>3 DEF FWriterSend, FWriterFails, FPush, FJoinArrives, WriterSend,
                          WriterFails, Push, Receive, Reply, Same
    <2>4. CASE FReadEnd(d) \/ FDie(d) \/ FLose(d) \/ FDeregister(d)
        BY <1>3, <2>4 DEF FReadEnd, FDie, FLose, FDeregister, ReadEnd, DieOnWriterError, Lose,
                          Deregister, Same
    <2> QED BY <1>3, <2>1, <2>2, <2>3, <2>4 DEF ServerNext
<1>4. CASE FDispatch(c) \/ FDispatchRaises(c) \/ FJoinArrives(c) \/ FWriterSend(c)
           \/ FWriterFails(c) \/ FPush(c)
    BY <1>4 DEF FDispatch, DispatchDone, FDispatchRaises, FJoinArrives, FWriterSend,
                FWriterFails, FPush, JoinFrame, TokenAt
<1>5. CASE FReadEnd(c) \/ FDie(c) \/ FLose(c)
    BY <1>5 DEF FReadEnd, FDie, FLose, ReadEnd, DieOnWriterError, Lose, Same
<1>6. CASE FDeregister(c)
    BY <1>6 DEF FDeregister, Deregister, EndsAgree
<1>7. ASSUME NEW w \in Workers, WorkerNext(w) PROVE Same(c) \/ Receive(c, Other)
    <2>1. CASE \E d \in Conns : FConnect(w, d)
        BY <2>1 DEF FConnect, Accept, Same
    <2>2. CASE FHeartbeatArrives(w)
        BY <2>2 DEF FHeartbeatArrives, Receive, Same
    <2>3. CASE FConnectFails(w) \/ FHandshakeFails(w) \/ FNotice(w) \/ FReply(w) \/ FReadEnds(w)
               \/ FSessionEnds(w) \/ FHeartbeatFails(w) \/ FWake(w)
        BY <2>3 DEF FConnectFails, FHandshakeFails, FNotice, FReply, FReadEnds, FSessionEnds,
                    FHeartbeatFails, FWake, daemonRest, vars, Same
    <2> QED BY <1>7, <2>1, <2>2, <2>3 DEF WorkerNext
<1>8. CASE UNCHANGED fabricVars
    BY <1>8 DEF fabricVars, vars, Same
<1> QED BY <1>1, <1>3, <1>4, <1>5, <1>6, <1>7, <1>8 DEF FabricNext, ServerNext

(* What a token is refused for lasts as long as a connection does: what    *)
(* was handed out, has expired or was revoked in memory stays so, but for  *)
(* a restart, which finds no connection.                                   *)
LEMMA GroundsLast ==
    ASSUME SlotInv, [CSNext]_vars,
           NEW c \in Conns, handler[c] # "none", handler'[c] # "none"
    PROVE  handedOut \subseteq handedOut' /\ expired \subseteq expired' /\ revoked \subseteq revoked'
<1>1. ASSUME UNCHANGED <<expired, revoked>>
      PROVE  expired \subseteq expired' /\ revoked \subseteq revoked'
    BY <1>1
<1>2. CASE Start
    BY <1>2 DEF Start, TokStart, SlotInv, DownIsEmpty, Registered
<1>3. CASE Crash
    BY <1>3 DEF Crash, Forget
<1>4. CASE Admin
    <2>1. expired \subseteq expired' /\ revoked \subseteq revoked'
        BY <1>4 DEF Admin, TokAdmin, Issue, IssueFails, Revoke, RevokeStoreError, RevokedAfter,
                    Expire
    <2> QED BY <2>1, HandedOutGrows
<1>5. CASE Serve \/ Close \/ UNCHANGED vars
    BY <1>1, <1>5, HandedOutGrows DEF Serve, Close, tokVars, vars
<1>6. ASSUME NEW d \in Conns, ConnNext(d) PROVE UNCHANGED <<expired, revoked>>
    <2>1. CASE Accept(d) \/ (\E f \in Frames : Receive(d, f)) \/ Lose(d) \/ WriterSend(d)
               \/ WriterFails(d) \/ Push(d) \/ ReadEnd(d) \/ DieOnWriterError(d) \/ Deregister(d)
        BY <2>1 DEF Accept, Receive, Lose, WriterSend, WriterFails, Push, ReadEnd,
                    DieOnWriterError, Deregister, tokVars
    <2>2. CASE Dispatch(d)
        BY <2>2 DEF Dispatch, DispatchDone, DispatchRaises, DispatchOther, DecodeFails, RejectJoin,
                    AckJoin, SaveWorkerFails, TakeSlot, Admit, tokVars
    <2> QED BY <1>6, <2>1, <2>2 DEF ConnNext
<1> QED BY <1>1, <1>2, <1>3, <1>4, <1>5, <1>6, HandedOutGrows DEF CSNext

(* Nothing is queued or sent on a blank connection.                        *)
LEMMA BlankIsSilent ==
    ASSUME NEW c \in Conns, sendq'[c] = <<>>, wire'[c] = <<>>
    PROVE  ~Acked(c)' /\ ~Rejected(c)'
<1>1. DOMAIN (Announced(c)') = {}
    BY DEF Announced
<1> QED BY <1>1 DEF Rejected, Acked, IsIn

(* Reading leaves the rest of the inbox, and its first was in it.          *)
LEMMA ReadFromInbox ==
    ASSUME TypeOK, NEW c \in Conns, Read(c), NEW t,
           \A i \in DOMAIN inbox[c] : inbox[c][i] \in Tokens => inbox[c][i] = t
    PROVE  /\ \A i \in DOMAIN inbox'[c] : inbox'[c][i] \in Tokens => inbox'[c][i] = t
           /\ Head(inbox[c]) \in Tokens => Head(inbox[c]) = t
<1>1. inbox[c] \in Seq(Frames) /\ inbox[c] # <<>> /\ inbox'[c] = Tail(inbox[c])
    BY DEF Read, TypeOK
<1>2. 1 \in DOMAIN inbox[c] /\ Head(inbox[c]) = inbox[c][1]
    BY <1>1
<1>3. \A i \in DOMAIN inbox'[c] : i + 1 \in DOMAIN inbox[c] /\ inbox'[c][i] = inbox[c][i + 1]
    BY <1>1
<1> QED BY <1>2, <1>3

(* Every step keeps what a connection with a far end has agreed with it.   *)
LEMMA LinkedStep ==
    ASSUME FabricInv, SlotInv', EndsAgree', [FabricNext]_fabricVars,
           NEW c \in Conns, peer[c] # None, peer'[c] = peer[c]
    PROVE  ConnAgrees(c)'
<1>0. TypeOK /\ TypeOK' /\ ConnAgrees(c)
    BY DEF FabricInv, SlotInv
<1>1. /\ handedOut \subseteq handedOut'
      /\ Deserved(c) => Deserved(c)'
      /\ TokenAt(c)' = TokenAt(c)
    <2>1. handler[c] # "none" /\ handler'[c] # "none"
        BY DEF FabricInv, EndsAgree
    <2>2. [CSNext]_vars
        BY FabricPartsStep DEF FabricInv
    <2> QED BY <2>1, <2>2, GroundsLast DEF FabricInv, Deserved, TokenAt
<1> DEFINE InboxAgrees == \A i \in DOMAIN inbox[c] : inbox[c][i] \in Tokens => inbox[c][i] = TokenAt(c)
           BooksAgree == /\ jti[c] # None => jti[c] = TokenAt(c)
                         /\ saved[c] # None => saved[c] = TokenAt(c)
<1>2. InboxAgrees /\ BooksAgree /\ TokenAt(c) \in handedOut'
    BY <1>0, <1>1 DEF ConnAgrees
<1>3. SUFFICES /\ InboxAgrees'
               /\ BooksAgree'
               /\ Acked(c)' => Booked(c)'
               /\ Rejected(c)' => Deserved(c)'
    BY <1>1, <1>2 DEF ConnAgrees
<1>4. ASSUME UNCHANGED Announced(c), Booked(c) => Booked(c)'
      PROVE  (Acked(c)' => Booked(c)') /\ (Rejected(c)' => Deserved(c)')
    BY <1>0, <1>1, <1>4 DEF ConnAgrees, Acked, Rejected, IsIn
<1>5. CASE Same(c)
    <2>1. UNCHANGED Announced(c)
        BY <1>5 DEF Same, Announced
    <2> QED BY <1>1, <1>2, <1>4, <1>5, <2>1 DEF Same, Booked
<1>6. ASSUME NEW f \in {TokenAt(c), Other}, Receive(c, f)
      PROVE  InboxAgrees' /\ BooksAgree' /\ (Acked(c)' => Booked(c)') /\ (Rejected(c)' => Deserved(c)')
    <2>1. UNCHANGED <<sendq, wire, jti, saved>> /\ inbox'[c] = Append(inbox[c], f)
        BY <1>0, <1>6 DEF Receive, TypeOK
    <2>2. inbox[c] \in Seq(Frames)
        BY <1>0 DEF TypeOK
    <2>3. \A i \in DOMAIN inbox'[c] :
             (i \in DOMAIN inbox[c] /\ inbox'[c][i] = inbox[c][i]) \/ inbox'[c][i] = f
        BY <2>1, <2>2
    <2>4. InboxAgrees'
        BY <1>1, <1>2, <2>3, SentinelAssumption
    <2> QED BY <1>1, <1>2, <1>4, <2>1, <2>4 DEF Announced, Booked
<1>7. ASSUME Read(c) PROVE InboxAgrees' /\ (Head(inbox[c]) \in Tokens => Head(inbox[c]) = TokenAt(c))
    BY <1>0, <1>1, <1>2, <1>7, ReadFromInbox
<1>8. CASE DispatchOther(c)
    BY <1>1, <1>2, <1>4, <1>7, <1>8 DEF DispatchOther, Announced, Booked
<1>9. ASSUME NEW t \in Tokens, RejectJoin(c, t)
      PROVE  InboxAgrees' /\ BooksAgree' /\ (Acked(c)' => Booked(c)') /\ (Rejected(c)' => Deserved(c)')
    <2>1. Read(c) /\ t = TokenAt(c) /\ JoinRefused(t) /\ UNCHANGED <<jti, saved, wire>>
        BY <1>7, <1>9 DEF RejectJoin
    <2>2. sendq' = Reply(c, "reject")
        BY <1>9 DEF RejectJoin
    <2>3. Deserved(c)
        BY <1>0, <2>1 DEF JoinRefused, Verifies, HasRoom, Deserved, ConnAgrees
    <2>4. Acked(c)' => Acked(c)
        BY <1>0, <2>1, <2>2, AnnouncedSteps DEF Acked, Messages
    <2> QED BY <1>0, <1>1, <1>2, <1>7, <2>1, <2>3, <2>4 DEF ConnAgrees, Booked
<1>10. ASSUME NEW t \in Tokens, AckJoin(c, t)
       PROVE  InboxAgrees' /\ BooksAgree' /\ (Acked(c)' => Booked(c)') /\ (Rejected(c)' => Deserved(c)')
    <2>1. Read(c) /\ t = TokenAt(c) /\ sendq' = Reply(c, "ack") /\ UNCHANGED wire
        BY <1>7, <1>10 DEF AckJoin, TakeSlot
    <2>2. jti'[c] = t /\ saved'[c] = t
        BY <1>0, <1>10 DEF AckJoin, JtiAfterAdmit, SavedAfterAdmit, TypeOK
    <2>3. Rejected(c)' => Rejected(c)
        BY <1>0, <2>1, AnnouncedSteps DEF Rejected, Messages
    <2> QED BY <1>0, <1>1, <1>7, <2>1, <2>2, <2>3, SentinelAssumption DEF ConnAgrees, Booked
<1>11. ASSUME NEW t \in Tokens, SaveWorkerFails(c, t)
       PROVE  InboxAgrees' /\ BooksAgree' /\ (Acked(c)' => Booked(c)') /\ (Rejected(c)' => Deserved(c)')
    <2>1. Read(c) /\ t = TokenAt(c) /\ UNCHANGED <<sendq, wire, saved>>
        BY <1>7, <1>11 DEF SaveWorkerFails, TakeSlot
    <2>2. jti'[c] = t
        BY <1>0, <1>11 DEF SaveWorkerFails, JtiAfterAdmit, TypeOK
    <2> QED BY <1>1, <1>2, <1>4, <1>7, <2>1, <2>2, SentinelAssumption DEF Announced, Booked
<1>12. CASE WriterSend(c) \/ WriterFails(c) \/ Push(c)
    <2>1. UNCHANGED <<inbox, jti, saved>>
        BY <1>12 DEF WriterSend, WriterFails, Push
    <2>2. Push(c) => sendq' = Reply(c, "push") /\ UNCHANGED wire
        BY DEF Push
    <2>3. (Rejected(c)' => Rejected(c)) /\ (Acked(c)' => Acked(c))
        BY <1>0, <1>12, <2>2, AnnouncedSteps DEF Rejected, Acked, Messages
    <2> QED BY <1>0, <1>1, <1>2, <2>1, <2>3 DEF ConnAgrees, Booked
<1>13. FabricTypeOK /\ EndsAgree /\ ~FCrash
    BY DEF FabricInv, FCrash
<1> QED BY <1>5, <1>6, <1>8, <1>9, <1>10, <1>11, <1>12, <1>13, ConnSteps

(* A connection gets a far end when it is accepted, and loses it, with all *)
(* that was on it, when it is popped or the process dies.                  *)
LEMMA PeerSteps ==
    ASSUME FabricInv, [FabricNext]_fabricVars, NEW c \in Conns
    PROVE  \/ peer'[c] = None /\ Blank(c)'
           \/ peer'[c] # None /\ peer'[c] = peer[c]
           \/ /\ peer'[c] # None /\ peer[c] = None
              /\ TokenAt(c)' \in handedOut'
              /\ Blank(c)'
<1> USE DEF FabricInv, FabricTypeOK, TypeOK
<1>1. CASE FCrash
    BY <1>1 DEF FCrash, Crash, Forget, Blank
<1>2. ASSUME NEW w \in Workers, NEW d \in Conns, FConnect(w, d), d = c
      PROVE  peer'[c] # None /\ peer[c] = None /\ TokenAt(c)' \in handedOut' /\ Blank(c)'
    <2>1. peer'[c] = w /\ handler[c] = "none" /\ TokenOf[w] \in handedOut /\ UNCHANGED handedOut
        BY <1>2 DEF FConnect, Accept, tokVars
    <2>2. peer[c] = None /\ Blank(c)
        BY <2>1 DEF EndsAgree, ConnAgrees
    <2>3. UNCHANGED <<inbox, sendq, wire, jti, saved>>
        BY <1>2 DEF FConnect, Accept
    <2> QED BY <2>1, <2>2, <2>3, NobodyAssumption DEF TokenAt, Blank
<1>3. CASE FDeregister(c)
    BY <1>3 DEF FDeregister, Deregister, Blank
<1>4. CASE /\ ~FCrash /\ ~FDeregister(c)
           /\ \A w \in Workers, d \in Conns : FConnect(w, d) => d # c
    <2>1. peer'[c] = peer[c]
        <3>1. CASE FStart \/ FServe \/ FClose \/ FAdmin
            BY <3>1 DEF FStart, FServe, FClose, FAdmin, serverRest
        <3>2. ASSUME NEW d \in Conns, ServerNext(d), d = c => ~FDeregister(d)
              PROVE  peer'[c] = peer[c]
            BY <3>2 DEF ServerNext, FDispatch, FDispatchRaises, FWriterSend, FWriterFails,
                        FReadEnd, FDie, FPush, FLose, FJoinArrives, FDeregister, serverRest
        <3>3. ASSUME NEW w \in Workers, WorkerNext(w), \A d \in Conns : FConnect(w, d) => d # c
              PROVE  peer'[c] = peer[c]
            BY <3>3 DEF WorkerNext, FConnect, FConnectFails, FHandshakeFails, FHeartbeatArrives,
                        FReply, FNotice, FReadEnds, FSessionEnds, FHeartbeatFails, FWake,
                        serverRest, daemonRest
        <3>4. CASE UNCHANGED fabricVars
            BY <3>4 DEF fabricVars
        <3> QED BY <1>4, <3>1, <3>2, <3>3, <3>4 DEF FabricNext
    <2>2. ASSUME peer[c] = None PROVE Blank(c)'
        <3>1. handler[c] = "none" /\ Blank(c)
            BY <2>2 DEF EndsAgree, ConnAgrees
        <3>2. Same(c)
            <4>1. ~WriterSend(c) /\ ~WriterFails(c) /\ ~Push(c) /\ ~Read(c)
                BY <3>1 DEF WriterSend, WriterFails, Push, Read, Registered, Blank
            <4>2. ~Receive(c, TokenAt(c)) /\ ~Receive(c, Other)
                BY <3>1 DEF Receive
            <4> QED BY <1>4, <2>1, <4>1, <4>2, ConnSteps
                    DEF DispatchOther, RejectJoin, AckJoin, SaveWorkerFails, TakeSlot
        <3> QED BY <3>1, <3>2 DEF Same, Blank
    <2> QED BY <2>1, <2>2
<1> QED BY <1>1, <1>2, <1>3, <1>4

(* Every step keeps what every connection has agreed with its far end.     *)
LEMMA ConnAgreesStep ==
    ASSUME FabricInv, SlotInv', EndsAgree', [FabricNext]_fabricVars, NEW c \in Conns
    PROVE  ConnAgrees(c)'
<1>1. CASE peer'[c] # None /\ peer'[c] = peer[c]
    BY <1>1, LinkedStep
<1>2. ASSUME Blank(c)', peer'[c] # None => TokenAt(c)' \in handedOut'
      PROVE  ConnAgrees(c)'
    <2>1. ~Acked(c)' /\ ~Rejected(c)'
        BY <1>2, BlankIsSilent DEF Blank
    <2>2. DOMAIN (inbox'[c]) = {}
        BY <1>2 DEF Blank
    <2> QED BY <1>2, <2>1, <2>2 DEF ConnAgrees, Blank
<1> QED BY <1>1, <1>2, PeerSteps

(* A Worker begins to take itself for joined only when it reads an ack, on *)
(* the connection that it keeps.                                           *)
LEMMA JoinedByAck ==
    ASSUME FabricTypeOK, [FabricNext]_fabricVars, NEW w \in Workers, pc'[w] = "joined"
    PROVE  \/ pc[w] = "joined" /\ link'[w] \in {None, link[w]}
           \/ /\ UNCHANGED <<vars, link>>
              /\ link[w] # None /\ wire[link[w]] # <<>> /\ Head(wire[link[w]]) = "ack"
<1> USE DEF FabricTypeOK, WDTypeOK
<1>1. ASSUME UNCHANGED <<pc, link>> PROVE pc[w] = "joined" /\ link'[w] \in {None, link[w]}
    BY <1>1
<1>2. CASE FStart \/ FServe \/ FClose \/ FAdmin \/ UNCHANGED fabricVars
    BY <1>1, <1>2 DEF FStart, FServe, FClose, FAdmin, serverRest, fabricVars, wdVars
<1>3. CASE FCrash
    BY <1>3 DEF FCrash, wdVars
<1>4. ASSUME NEW c \in Conns, ServerNext(c) PROVE pc[w] = "joined" /\ link'[w] \in {None, link[w]}
    BY <1>4 DEF ServerNext, FDispatch, FDispatchRaises, FWriterSend, FWriterFails, FReadEnd, FDie,
                FPush, FDeregister, FLose, FJoinArrives, serverRest, wdVars
<1>5. ASSUME NEW v \in Workers, WorkerNext(v), ~FReply(v)
      PROVE  pc[w] = "joined" /\ link'[w] \in {None, link[w]}
    <2>1. CASE \E c \in Conns : FConnect(v, c)
        BY <2>1 DEF FConnect, SendJoin
    <2>2. CASE FConnectFails(v) \/ FHandshakeFails(v) \/ FHeartbeatArrives(v) \/ FNotice(v)
        BY <2>2 DEF FConnectFails, FHandshakeFails, FHeartbeatArrives, FNotice, ConnectFails,
                    HandshakeFails, Notice, Sleeps, serverRest, wdVars
    <2>3. CASE FReadEnds(v) \/ FHeartbeatFails(v) \/ FWake(v)
        BY <2>3 DEF FReadEnds, FHeartbeatFails, FWake, ReadEnds, HeartbeatFails, Wake
    <2>4. CASE FSessionEnds(v)
        BY <2>4 DEF FSessionEnds, SessionEnds, ReplyLost, EndClean, EndOnHeartbeat, Sleeps
    <2> QED BY <1>5, <2>1, <2>2, <2>3, <2>4 DEF WorkerNext
<1>6. ASSUME NEW v \in Workers, FReply(v)
      PROVE  \/ pc[w] = "joined" /\ link'[w] \in {None, link[w]}
             \/ /\ UNCHANGED <<vars, link>>
                /\ link[w] # None /\ wire[link[w]] # <<>> /\ Head(wire[link[w]]) = "ack"
    <2>1. CASE GetReject(v) \/ GetUnexpected(v)
        <3>1. pc[w] = "joined" /\ (link' = link \/ link' = [link EXCEPT ![v] = None])
            BY <1>6, <2>1 DEF FReply, GetReject, GetUnexpected, Stop
        <3> QED BY <3>1
    <2>2. ASSUME NEW id \in WorkerIds, GetAck(v, id), Head(wire[link[v]]) = "ack", UNCHANGED link
          PROVE  \/ pc[w] = "joined" /\ link'[w] \in {None, link[w]}
                 \/ /\ UNCHANGED <<vars, link>>
                    /\ link[w] # None /\ wire[link[w]] # <<>> /\ Head(wire[link[w]]) = "ack"
        <3>1. CASE v = w
            BY <1>6, <2>2, <3>1 DEF FReply, daemonRest
        <3>2. CASE v # w
            BY <2>2, <3>2 DEF GetAck
        <3> QED BY <3>1, <3>2
    <2> QED BY <1>6, <2>1, <2>2 DEF FReply
<1> QED BY <1>2, <1>3, <1>4, <1>5, <1>6 DEF FabricNext

(* What is first on the wire has been announced.                           *)
LEMMA HeadIsAnnounced ==
    ASSUME TypeOK, NEW c \in Conns, wire[c] # <<>>
    PROVE  IsIn(Head(wire[c]), Announced(c))
<1>1. sendq[c] \in Seq(Messages) /\ wire[c] \in Seq(Messages)
    BY DEF TypeOK
<1>2. 1 \in DOMAIN wire[c] /\ wire[c][1] = Head(wire[c])
    BY <1>1
<1>3. IsIn(Head(wire[c]), wire[c])
    BY <1>2 DEF IsIn
<1> QED BY <1>1, <1>3, IsInConcat DEF Announced

(* A Worker that takes itself for joined has read the ack of a connection, *)
(* which keeps its slot and its row until it is popped.                    *)
LEMMA JoinedIsBookedStep ==
    ASSUME FabricInv, EndsAgree', [FabricNext]_fabricVars
    PROVE  JoinedIsBooked'
<1>0. FabricTypeOK /\ TypeOK /\ EndsAgree /\ link' \in [Workers -> Conns \cup {None}]
    BY EndTypesStep DEF FabricInv, FabricTypeOK
<1> SUFFICES ASSUME NEW w \in Workers, NEW c \in Conns, pc'[w] = "joined", link'[w] = c
             PROVE  jti'[c] # None /\ saved'[c] # None
    BY <1>0 DEF JoinedIsBooked, Booked
<1>1. c # None /\ peer'[c] = w /\ w # None
    BY NobodyAssumption DEF EndsAgree
<1>2. CASE UNCHANGED vars /\ wire[c] # <<>> /\ Head(wire[c]) = "ack"
    <2>1. Acked(c)
        BY <1>0, <1>2, HeadIsAnnounced DEF Acked
    <2> QED BY <1>2, <2>1 DEF FabricInv, ConnAgrees, Booked, vars
<1>3. CASE pc[w] = "joined" /\ link[w] = c
    <2>1. Booked(c) /\ peer[c] = w
        BY <1>1, <1>3 DEF FabricInv, JoinedIsBooked, EndsAgree
    <2>2. ~FCrash
        BY <1>1 DEF FCrash
    <2>3. CASE Same(c)
        BY <2>1, <2>3 DEF Same, Booked
    <2>4. ASSUME NEW f, Receive(c, f) PROVE UNCHANGED <<jti, saved>>
        BY <2>4 DEF Receive
    <2>5. ASSUME NEW t \in Tokens, RejectJoin(c, t) \/ AckJoin(c, t) \/ SaveWorkerFails(c, t)
          PROVE  jti'[c] \in {jti[c], t} /\ saved'[c] \in {saved[c], t}
        BY <1>0, <2>5 DEF RejectJoin, AckJoin, SaveWorkerFails, JtiAfterAdmit, SavedAfterAdmit, TypeOK
    <2>6. CASE DispatchOther(c) \/ WriterSend(c) \/ WriterFails(c) \/ Push(c)
        BY <2>1, <2>6 DEF DispatchOther, WriterSend, WriterFails, Push, Booked
    <2> QED BY <1>0, <1>1, <2>1, <2>2, <2>3, <2>4, <2>5, <2>6, ConnSteps, SentinelAssumption DEF Booked
<1> QED BY <1>0, <1>1, <1>2, <1>3, JoinedByAck

(* connect_once sends the one join that a connection ever carries.         *)
LEMMA OneJoinStep ==
    ASSUME FabricTypeOK, OneJoin, SentOnce, [FabricNext]_fabricVars
    PROVE  OneJoin' /\ SentOnce'
<1> USE DEF FabricTypeOK, TypeOK
<1>1. ASSUME UNCHANGED joins, onWay' \subseteq onWay,
             \A c \in Conns : handler'[c] = "none" => handler[c] = "none"
      PROVE  OneJoin' /\ SentOnce'
    BY <1>1 DEF OneJoin, SentOnce
<1>2. CASE FStart \/ FServe \/ FClose \/ FAdmin \/ UNCHANGED fabricVars
    BY <1>1, <1>2 DEF FStart, FServe, FClose, FAdmin, Start, Serve, Close, Admin, connVars,
                      serverRest, fabricVars, vars
<1>3. CASE FCrash
    BY <1>3 DEF FCrash, Crash, Forget, OneJoin, SentOnce
<1>4. ASSUME NEW c \in Conns, ServerNext(c) PROVE OneJoin' /\ SentOnce'
    <2>1. CASE FDispatch(c) \/ FDispatchRaises(c)
        <3>1. UNCHANGED <<joins, onWay>> /\ (handler' = handler \/ handler' = [handler EXCEPT ![c] = "closing"])
            BY <2>1 DEF FDispatch, FDispatchRaises, DispatchDone, DispatchOther, RejectJoin,
                        AckJoin, SaveWorkerFails, TakeSlot, serverRest
        <3> QED BY <1>1, <3>1
    <2>2. CASE FWriterSend(c) \/ FWriterFails(c) \/ FReadEnd(c) \/ FDie(c) \/ FPush(c) \/ FLose(c)
        BY <1>1, <2>2 DEF FWriterSend, FWriterFails, FReadEnd, FDie, FPush, FLose, WriterSend,
                          WriterFails, ReadEnd, DieOnWriterError, Push, Lose, serverRest
    <2>3. CASE FDeregister(c)
        BY <2>3 DEF FDeregister, Deregister, OneJoin, SentOnce
    <2>4. CASE FJoinArrives(c)
        <3>1. joins[c] = 0 /\ onWay' = onWay \ {c} /\ handler' = handler /\ handler[c] = "reading"
            BY <2>4 DEF FJoinArrives, Receive, SentOnce
        <3>2. joins'[c] <= 1 /\ \A d \in Conns \ {c} : joins'[d] = joins[d]
            BY <2>4, <3>1 DEF FJoinArrives, Receive
        <3> QED BY <3>1, <3>2 DEF OneJoin, SentOnce
    <2> QED BY <1>4, <2>1, <2>2, <2>3, <2>4 DEF ServerNext
<1>5. ASSUME NEW w \in Workers, WorkerNext(w) PROVE OneJoin' /\ SentOnce'
    <2>1. ASSUME NEW c \in Conns, FConnect(w, c) PROVE OneJoin' /\ SentOnce'
        <3>1. /\ handler[c] = "none" /\ handler' = [handler EXCEPT ![c] = "reading"]
              /\ UNCHANGED joins /\ onWay' = onWay \cup {c}
            BY <2>1 DEF FConnect, Accept
        <3> QED BY <3>1 DEF OneJoin, SentOnce
    <2>2. CASE FHeartbeatArrives(w)
        BY <1>1, <2>2, SentinelAssumption DEF FHeartbeatArrives, Receive, serverRest
    <2>3. CASE FConnectFails(w) \/ FHandshakeFails(w) \/ FReply(w) \/ FNotice(w)
               \/ FReadEnds(w) \/ FSessionEnds(w) \/ FHeartbeatFails(w) \/ FWake(w)
        BY <1>1, <2>3 DEF FConnectFails, FHandshakeFails, FReply, FNotice, FReadEnds, FSessionEnds,
                          FHeartbeatFails, FWake, daemonRest, vars
    <2> QED BY <1>5, <2>1, <2>2, <2>3 DEF WorkerNext
<1> QED BY <1>2, <1>3, <1>4, <1>5 DEF FabricNext

-----------------------------------------------------------------------------
(* Before the Master starts nobody is connected.                           *)
LEMMA FabricInvInit == FabricInit => FabricInv
<1> SUFFICES ASSUME FabricInit PROVE FabricInv
    OBVIOUS
<1>1. SlotInv /\ DaemonInv
    BY SlotInvInit, DaemonInvInit DEF FabricInit
<1>2. FabricTypeOK
    BY <1>1, FaultBoundAssumption DEF FabricInit, FabricTypeOK, SlotInv, DaemonInv
<1>3. EndsAgree /\ JoinedIsBooked /\ OneJoin /\ SentOnce
    BY DEF FabricInit, CSInit, WDInit, EndsAgree, JoinedIsBooked, OneJoin, SentOnce
<1>4. ASSUME NEW c \in Conns PROVE ConnAgrees(c)
    <2>1. Blank(c) /\ peer[c] = None
        BY DEF FabricInit, CSInit, Blank
    <2>2. DOMAIN Announced(c) = {} /\ DOMAIN inbox[c] = {}
        BY <2>1 DEF Announced, Blank
    <2> QED BY <2>1, <2>2 DEF ConnAgrees, Acked, Rejected, IsIn, Blank
<1> QED BY <1>1, <1>2, <1>3, <1>4 DEF FabricInv

(* Every step preserves the invariant.                                     *)
LEMMA FabricInvStep == FabricInv /\ [FabricNext]_fabricVars => FabricInv'
<1> SUFFICES ASSUME FabricInv, [FabricNext]_fabricVars PROVE FabricInv'
    OBVIOUS
<1>1. FabricTypeOK /\ EndsAgree
    BY DEF FabricInv
<1>2. SlotInv' /\ DaemonInv'
    BY <1>1, FabricPartsStep, SlotInvStep, DaemonInvStep DEF FabricInv
<1>3. FabricTypeOK'
    BY <1>1, <1>2, EndTypesStep DEF FabricTypeOK, SlotInv, DaemonInv
<1>4. EndsAgree'
    BY <1>1, EndsAgreeStep
<1>5. \A c \in Conns : ConnAgrees(c)'
    BY <1>2, <1>4, ConnAgreesStep
<1>6. JoinedIsBooked'
    BY <1>4, JoinedIsBookedStep
<1>7. OneJoin' /\ SentOnce'
    BY <1>1, OneJoinStep DEF FabricInv
<1> QED BY <1>2, <1>3, <1>4, <1>5, <1>6, <1>7 DEF FabricInv

(* The invariant holds in every reachable state of Fabric.                 *)
THEOREM FabricInvariant == FabricSpec => []FabricInv
BY FabricInvInit, FabricInvStep, PTL DEF FabricSpec

(* The Master and its Workers, put together, behave as the server and as   *)
(* the daemons do: every theorem of ControlServerProofs and of             *)
(* WorkerDaemonProofs holds of them too.                                   *)
THEOREM FabricImplementsParts == FabricSpec => CSSpec /\ WDSpec
<1>1. FabricInit => CSInit /\ WDInit
    BY DEF FabricInit
<1>2. FabricInv /\ [FabricNext]_fabricVars => [CSNext]_vars /\ [WDNext]_wdVars
    BY FabricPartsStep DEF FabricInv
<1> QED BY <1>1, <1>2, FabricInvariant, PTL DEF FabricSpec, CSSpec, WDSpec

(* The condition of SlotPoolProofs holds of daemons: what is proved there  *)
(* of peers that send one join holds of Master and Workers as they are.    *)
LEMMA DaemonsSendOneJoin == FabricSpec => CSSpec /\ []OneJoin
<1>1. FabricInv => OneJoin
    BY DEF FabricInv
<1> QED BY <1>1, FabricInvariant, FabricImplementsParts, PTL

(* admit() and release() in the company of daemons: the count of a token   *)
(* is exactly the number of connections that hold a slot of it, and what   *)
(* the Master and its Workers do is what SlotPool promises of the pools,   *)
(* through lost connections, dead writers, failed saves and restarts.      *)
THEOREM FabricPools == FabricSpec => []SlotsAccounted /\ ImplementsSlotPool
BY DaemonsSendOneJoin, AccountsTheorem, PoolTheorem, PTL

(* _on_join in the company of daemons: a Worker that was told it joined is *)
(* on record under a token with a durable row, one that was refused holds  *)
(* no slot, and a connection keeps its token until it is gone.             *)
THEOREM FabricReplies ==
    FabricSpec => []AckedIsSaved /\ []RejectHoldsNothing /\ SlotKeepsItsToken
BY DaemonsSendOneJoin, AckTheorem, RejectTheorem, KeepsTheorem, PTL

(* Every variable of Fabric keeps its type, and faults stay within their   *)
(* bound.                                                                  *)
THEOREM FabricTypes == FabricSpec => []FabricTypeOK
<1>1. FabricInv => FabricTypeOK
    BY DEF FabricInv
<1> QED BY <1>1, FabricInvariant, PTL

(* connect_once and _on_join: a Worker that read its join_ack, on a        *)
(* connection that the Master still has, holds a slot of its own token     *)
(* there and is on record under it, whatever half-open connections,        *)
(* restarts and failed saves came before.                                  *)
THEOREM JoinedTheorem == FabricSpec => []JoinedHoldsSlot
<1>1. FabricInv => JoinedHoldsSlot
    <2> SUFFICES ASSUME FabricInv, NEW w \in Workers, pc[w] = "joined", link[w] # None
                 PROVE  jti[link[w]] = TokenOf[w] /\ saved[link[w]] = TokenOf[w] /\ peer[link[w]] = w
        BY DEF JoinedHoldsSlot
    <2>1. link[w] \in Conns /\ peer[link[w]] = w /\ Booked(link[w])
        BY DEF FabricInv, FabricTypeOK, EndsAgree, JoinedIsBooked
    <2>2. ConnAgrees(link[w])
        BY <2>1 DEF FabricInv
    <2> QED BY <2>1, <2>2 DEF ConnAgrees, Booked, TokenAt
<1> QED BY <1>1, FabricInvariant, PTL

(* A Worker is turned away only by a join_reject that it reads.            *)
LEMMA RejectedByReject ==
    ASSUME FabricTypeOK, [FabricNext]_fabricVars, NEW w \in Workers, rejected'[w], ~rejected[w]
    PROVE  link[w] # None /\ wire[link[w]] # <<>> /\ Head(wire[link[w]]) = "reject"
<1> USE DEF FabricTypeOK, WDTypeOK
<1>1. rejected' # rejected
    OBVIOUS
<1>2. ~FStart /\ ~FServe /\ ~FClose /\ ~FAdmin /\ ~FCrash /\ ~UNCHANGED fabricVars
    BY <1>1 DEF FStart, FServe, FClose, FAdmin, FCrash, serverRest, fabricVars, wdVars
<1>3. \A c \in Conns : ~ServerNext(c)
    BY <1>1 DEF ServerNext, FDispatch, FDispatchRaises, FWriterSend, FWriterFails, FReadEnd, FDie,
                FPush, FDeregister, FLose, FJoinArrives, serverRest, wdVars
<1>4. PICK v \in Workers : WorkerNext(v)
    BY <1>2, <1>3 DEF FabricNext
<1>5. FReply(v)
    BY <1>1, <1>4
    DEF WorkerNext, FConnect, FConnectFails, FHandshakeFails, FHeartbeatArrives, FNotice, FReadEnds,
        FSessionEnds, FHeartbeatFails, FWake, SendJoin, ConnectFails, HandshakeFails, Notice,
        ReadEnds, HeartbeatFails, Wake, SessionEnds, ReplyLost, EndClean, EndOnHeartbeat, Sleeps,
        serverRest, wdVars
<1>6. GetReject(v) /\ Head(wire[link[v]]) = "reject"
    BY <1>1, <1>5 DEF FReply, GetAck, GetUnexpected
<1>7. v = w
    BY <1>1, <1>6 DEF GetReject
<1> QED BY <1>5, <1>6, <1>7 DEF FReply

(* _on_join and run(): with tokens that have no max_workers, a Worker is   *)
(* turned away for good only if its token has expired or is revoked at     *)
(* that time, also when the reject was queued long before it is read.      *)
THEOREM RejectionTheorem ==
    ASSUME \A w \in Workers : MaxWorkers[TokenOf[w]] = Unlimited
    PROVE  FabricSpec => RejectedForCause
<1> DEFINE ForCause == \A w \in Workers : (rejected'[w] /\ ~rejected[w]) => ~Verifies(TokenOf[w])
<1>1. FabricInv /\ [FabricNext]_fabricVars => [ForCause]_fabricVars
    <2> SUFFICES ASSUME FabricInv, [FabricNext]_fabricVars,
                        NEW w \in Workers, rejected'[w], ~rejected[w]
                 PROVE  ~Verifies(TokenOf[w])
        OBVIOUS
    <2>0. FabricTypeOK /\ TypeOK /\ rejected \in [Workers -> BOOLEAN]
        BY DEF FabricInv, FabricTypeOK, WDTypeOK
    <2>1. link[w] # None /\ wire[link[w]] # <<>> /\ Head(wire[link[w]]) = "reject"
        BY <2>0, RejectedByReject
    <2>2. link[w] \in Conns /\ peer[link[w]] = w
        BY <2>0, <2>1 DEF FabricInv, FabricTypeOK, EndsAgree
    <2>3. Rejected(link[w])
        BY <2>0, <2>1, <2>2, HeadIsAnnounced DEF Rejected
    <2>4. Deserved(link[w])
        BY <2>2, <2>3 DEF FabricInv, ConnAgrees
    <2> QED BY <2>2, <2>4 DEF Deserved, TokenAt, Verifies
<1> QED BY <1>1, FabricInvariant, PTL DEF FabricSpec, RejectedForCause
=============================================================================
