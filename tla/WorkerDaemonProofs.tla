------------------------- MODULE WorkerDaemonProofs -------------------------
(***************************************************************************)
(* Theorems about WorkerDaemon, for any number of daemons and against any  *)
(* network and any Master.                                                 *)
(***************************************************************************)
EXTENDS WorkerDaemon, TLAPS

InSession(w) == pc[w] \in {"joined", "leaving"}

\* An id is acknowledged in a session and only there, and it is worker_id, by
\* which the cancel finds the heartbeat task.
SessionHasId ==
    \A w \in Workers :
        IF InSession(w) THEN acked[w] = workerId[w] /\ acked[w] # NoId ELSE acked[w] = NoId

\* HeartbeatIsCurrent alone is not inductive: the cancel takes out worker_id.
DaemonInv == WDTypeOK /\ SessionHasId /\ HeartbeatIsCurrent

(* A daemon that has not connected satisfies the invariant.                *)
LEMMA DaemonInvInit == WDInit => DaemonInv
BY NoIdAssumption, FailBoundAssumption, BackoffAssumption
DEF WDInit, DaemonInv, WDTypeOK, SessionHasId, InSession, HeartbeatIsCurrent

(* The backoff stays between its first and its greatest value.             *)
LEMMA BackoffRange ==
    \A b \in INITIAL_BACKOFF..MAX_BACKOFF : NextBackoff(b) \in INITIAL_BACKOFF..MAX_BACKOFF
BY BackoffAssumption DEF NextBackoff, Smaller

(* The count of failures stays within its bound.                           *)
LEMMA FailRange == \A n \in 0..FailBound : Smaller(n + 1, FailBound) \in 0..FailBound
BY FailBoundAssumption DEF Smaller

(* Every step of a daemon preserves it.                                    *)
LEMMA DaemonInvStep == DaemonInv /\ [WDNext]_wdVars => DaemonInv'
<1> SUFFICES ASSUME DaemonInv, [WDNext]_wdVars PROVE DaemonInv'
    OBVIOUS
<1> USE DEF DaemonInv, WDTypeOK, SessionHasId, InSession, HeartbeatIsCurrent
<1>0. CASE UNCHANGED wdVars
    BY <1>0 DEF wdVars
<1>1. CASE WDDone
    BY <1>1 DEF WDDone, wdVars
<1>2. ASSUME NEW w \in Workers, OwnNext(w) PROVE DaemonInv'
    <2>1. CASE ConnectFails(w) \/ HandshakeFails(w) \/ \E cert \in Certs : PinFails(w, cert)
        BY <2>1, FailRange DEF ConnectFails, HandshakeFails, PinFails, Sleeps
    <2>2. CASE Notice(w)
        BY <2>2 DEF Notice
    <2>3. CASE HeartbeatFails(w)
        BY <2>3 DEF HeartbeatFails
    <2>4. CASE ReadEnds(w)
        BY <2>4 DEF ReadEnds
    <2>5. CASE EndClean(w)
        BY <2>5, FailBoundAssumption, BackoffAssumption
        DEF EndClean, BackoffAfterSession, LoopsAfterCancel
    <2>6. CASE EndOnHeartbeat(w)
        BY <2>6, FailRange DEF EndOnHeartbeat, LoopsAfterCancel, Sleeps
    <2>7. CASE Wake(w)
        BY <2>7, BackoffRange DEF Wake
    <2>8. CASE ReplyLost(w)
        BY <2>8, FailRange DEF ReplyLost, Sleeps
    <2> QED BY <1>2, <2>1, <2>2, <2>3, <2>4, <2>5, <2>6, <2>7, <2>8 DEF OwnNext
<1>3. ASSUME NEW w \in Workers, ExchangeNext(w) PROVE DaemonInv'
    <2>1. CASE \E cert \in Certs : SendJoin(w, cert)
        BY <2>1 DEF SendJoin
    <2>2. CASE \E id \in WorkerIds : GetAck(w, id)
        BY <2>2, NoIdAssumption DEF GetAck
    <2>3. CASE GetReject(w) \/ GetUnexpected(w)
        BY <2>3 DEF GetReject, GetUnexpected, Stop
    <2> QED BY <1>3, <2>1, <2>2, <2>3 DEF ExchangeNext
<1>4. ASSUME NEW w \in Workers, Cancelled(w) PROVE DaemonInv'
    BY <1>4 DEF Cancelled, LoopsAfterCancel
<1> QED BY <1>0, <1>1, <1>2, <1>3, <1>4 DEF WDNext

(* The invariant holds in every reachable state of the daemons.            *)
THEOREM DaemonInvariant == WDSpec => []DaemonInv
BY DaemonInvInit, DaemonInvStep, PTL DEF WDSpec

(* connect_once: no heartbeat task outlives its session or sends the id of *)
(* another one, through cancels and lost connections at any await.         *)
THEOREM HeartbeatTheorem == WDSpec => []HeartbeatIsCurrent
<1>1. DaemonInv => HeartbeatIsCurrent
    BY DEF DaemonInv
<1> QED BY <1>1, DaemonInvariant, PTL

(* Every variable of a daemon keeps its type; the backoff stays between    *)
(* its first and its greatest value.                                       *)
THEOREM DaemonTypes == WDSpec => []WDTypeOK
<1>1. DaemonInv => WDTypeOK
    BY DEF DaemonInv
<1> QED BY <1>1, DaemonInvariant, PTL

-----------------------------------------------------------------------------
(* The backoff is the next one to sleep, which the count of failures gives *)
(* as long as failures are counted up to where the schedule ends.  The     *)
(* property speaks of the sleeps; what carries it from one to the next is  *)
(* the value in between, except in a daemon that stopped.                  *)
CodeBackoff == INITIAL_BACKOFF = 1 /\ MAX_BACKOFF = 30 /\ FailBound >= 6
NextSleep(n) == Schedule[Smaller(n, 6)]
OnSchedule ==
    \A w \in Workers :
        /\ pc[w] = "sleeping" => fails[w] > 0 /\ backoff[w] = NextSleep(fails[w])
        /\ pc[w] \notin {"sleeping", "stopped"} => backoff[w] = NextSleep(fails[w] + 1)

(* The schedule starts at the initial backoff, goes on as the backoff      *)
(* doubles, and does not notice where the count of failures stops.         *)
LEMMA ScheduleSteps ==
    ASSUME CodeBackoff
    PROVE  /\ NextSleep(1) = INITIAL_BACKOFF
           /\ \A n \in 1..FailBound : NextBackoff(NextSleep(n)) = NextSleep(n + 1)
           /\ \A n \in 0..FailBound :
                 Smaller(n + 1, FailBound) > 0
                    /\ NextSleep(Smaller(n + 1, FailBound)) = NextSleep(n + 1)
<1> USE FailBoundAssumption DEF CodeBackoff, NextBackoff, Smaller, Schedule, NextSleep
<1>1. NextSleep(1) = INITIAL_BACKOFF
    OBVIOUS
<1>2. ASSUME NEW n \in 1..FailBound PROVE NextBackoff(NextSleep(n)) = NextSleep(n + 1)
    <2>1. n = 1 \/ n = 2 \/ n = 3 \/ n = 4 \/ n = 5 \/ n >= 6
        OBVIOUS
    <2> QED BY <2>1
<1>3. ASSUME NEW n \in 0..FailBound
      PROVE  Smaller(n + 1, FailBound) > 0
                /\ NextSleep(Smaller(n + 1, FailBound)) = NextSleep(n + 1)
    <2>1. CASE n + 1 <= FailBound
        BY <2>1
    <2>2. CASE n = FailBound
        BY <2>2
    <2> QED BY <2>1, <2>2
<1> QED BY <1>1, <1>2, <1>3

(* Every step of a daemon keeps the backoff on its schedule.               *)
LEMMA OnScheduleStep ==
    ASSUME CodeBackoff, WDTypeOK, OnSchedule, [WDNext]_wdVars
    PROVE  OnSchedule'
<1> USE DEF OnSchedule, WDTypeOK
<1>1. ASSUME NEW w \in Workers, EndClean(w) PROVE OnSchedule'
    <2>1. backoff'[w] = NextSleep(0 + 1) /\ fails'[w] = 0 /\ pc'[w] = "connecting"
        BY <1>1, ScheduleSteps DEF EndClean, BackoffAfterSession
    <2> QED BY <1>1, <2>1 DEF EndClean
<1>2. ASSUME NEW w \in Workers, Wake(w) PROVE OnSchedule'
    <2>1. backoff'[w] = NextSleep(fails[w] + 1) /\ pc'[w] = "connecting" /\ fails' = fails
        BY <1>2, ScheduleSteps DEF Wake
    <2> QED BY <1>2, <2>1 DEF Wake
<1>3. ASSUME NEW w \in Workers, pc[w] \notin {"sleeping", "stopped"}, Sleeps(w), UNCHANGED backoff
      PROVE  OnSchedule'
    <2>1. fails'[w] > 0 /\ backoff'[w] = NextSleep(fails'[w])
        BY <1>3, ScheduleSteps DEF Sleeps
    <2> QED BY <1>3, <2>1 DEF Sleeps
<1>4. ASSUME NEW w \in Workers, UNCHANGED <<backoff, fails>>,
             \/ UNCHANGED pc
             \/ /\ pc[w] \notin {"sleeping", "stopped"}
                /\ \E p \in {"awaiting", "joined", "leaving"} : pc' = [pc EXCEPT ![w] = p]
             \/ pc' = [pc EXCEPT ![w] = "stopped"]
      PROVE  OnSchedule'
    BY <1>4
<1>5. CASE UNCHANGED wdVars
    BY <1>5 DEF wdVars
<1>6. ASSUME NEW w \in Workers, OwnNext(w) \/ ExchangeNext(w) \/ Cancelled(w) PROVE OnSchedule'
    <2>1. CASE ConnectFails(w) \/ (\E cert \in Certs : PinFails(w, cert)) \/ ReplyLost(w)
               \/ EndOnHeartbeat(w)
        BY <1>3, <2>1 DEF ConnectFails, PinFails, ReplyLost, EndOnHeartbeat
    <2>2. CASE HandshakeFails(w) \/ Cancelled(w) \/ GetReject(w) \/ GetUnexpected(w)
        BY <1>4, <2>2 DEF HandshakeFails, Cancelled, GetReject, GetUnexpected, Stop
    <2>3. CASE Notice(w) \/ HeartbeatFails(w)
        BY <1>4, <2>3 DEF Notice, HeartbeatFails
    <2>4. CASE ReadEnds(w) \/ (\E cert \in Certs : SendJoin(w, cert))
               \/ (\E id \in WorkerIds : GetAck(w, id))
        BY <1>4, <2>4 DEF ReadEnds, SendJoin, GetAck
    <2> QED BY <1>1, <1>2, <1>6, <2>1, <2>2, <2>3, <2>4 DEF OwnNext, ExchangeNext
<1> QED BY <1>5, <1>6 DEF WDNext, WDDone

(* run: with the backoffs of the code, the n-th failure since the last     *)
(* clean session is followed by a sleep of 2^(n-1) seconds, 30 at most.    *)
THEOREM BackoffTheorem == WDSpec => [](CodeBackoff => BackoffFollowsSchedule)
<1> DEFINE Kept == CodeBackoff => OnSchedule
<1>1. WDInit => Kept
    <2>1. CodeBackoff => INITIAL_BACKOFF = NextSleep(0 + 1)
        BY ScheduleSteps
    <2> QED BY <2>1 DEF WDInit, OnSchedule
<1>2. WDTypeOK /\ Kept /\ [WDNext]_wdVars => Kept'
    BY OnScheduleStep
<1>3. Kept => (CodeBackoff => BackoffFollowsSchedule)
    BY DEF OnSchedule, BackoffFollowsSchedule, NextSleep
<1> HIDE DEF Kept
<1> QED BY <1>1, <1>2, <1>3, DaemonTypes, PTL DEF WDSpec
=============================================================================
