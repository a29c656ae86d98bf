---------------------------- MODULE WorkerDaemon ----------------------------
(***************************************************************************)
(* The Worker's control-plane client: worker/daemon.py, class WorkerDaemon.*)
(*                                                                         *)
(* Each Worker runs two tasks in one asyncio loop: run(), which goes       *)
(* through sessions (connect_once) and sleeps, and, during a session, the  *)
(* heartbeat loop.  Actions are stretches between awaits.  What the        *)
(* network and the Master do is the choice of the action; module Fabric    *)
(* narrows that choice to what the Master really does.  run() is modelled  *)
(* with max_sessions=None, the value it has outside of tests.              *)
(***************************************************************************)
EXTENDS Integers, Sequences

CONSTANTS
    Workers,      \* the daemons
    WorkerIds,    \* worker ids the Master may assign
    NoId,         \* worker_id before the first join_ack
    Pinned,       \* the certificate whose fingerprint the Invite Token carries
    Certs,        \* certificates a peer may present
    INITIAL_BACKOFF, MAX_BACKOFF,   \* in seconds; in the code 1 and 30
    FailBound     \* bound: the failure count (a history variable) stops here

ASSUME NoIdAssumption == NoId \notin WorkerIds
ASSUME PinnedAssumption == Pinned \in Certs
ASSUME BackoffAssumption ==
    /\ INITIAL_BACKOFF \in Nat /\ MAX_BACKOFF \in Nat
    /\ INITIAL_BACKOFF <= MAX_BACKOFF
ASSUME FailBoundAssumption == FailBound \in Nat

VARIABLES
    pc,         \* where run() is
    open,       \* the client library holds the connection for open
    backoff,    \* run()'s backoff, in seconds
    workerId,   \* WorkerDaemon.worker_id: it survives a session
    acked,      \* the id acknowledged in the session under way, if any
    loops,      \* the ids with which heartbeat tasks still run
    beatDied,   \* this session's heartbeat task ended with ConnectionClosed
    fails,      \* history: failures since the last session that ended cleanly
    rejected    \* history: a join_reject was received

wdVars == <<pc, open, backoff, workerId, acked, loops, beatDied, fails, rejected>>

WDTypeOK ==
    /\ pc \in [Workers -> {"connecting", "awaiting", "joined", "leaving", "sleeping", "stopped"}]
    /\ open \in [Workers -> BOOLEAN]
    /\ backoff \in [Workers -> INITIAL_BACKOFF..MAX_BACKOFF]
    /\ workerId \in [Workers -> WorkerIds \cup {NoId}]
    /\ acked \in [Workers -> WorkerIds \cup {NoId}]
    /\ loops \in [Workers -> SUBSET WorkerIds]
    /\ beatDied \in [Workers -> BOOLEAN]
    /\ fails \in [Workers -> 0..FailBound]
    /\ rejected \in [Workers -> BOOLEAN]

WDInit ==
    /\ pc = [w \in Workers |-> "connecting"]
    /\ open = [w \in Workers |-> FALSE]
    /\ backoff = [w \in Workers |-> INITIAL_BACKOFF]
    /\ workerId = [w \in Workers |-> NoId]
    /\ acked = [w \in Workers |-> NoId]
    /\ loops = [w \in Workers |-> {}]
    /\ beatDied = [w \in Workers |-> FALSE]
    /\ fails = [w \in Workers |-> 0]
    /\ rejected = [w \in Workers |-> FALSE]

-----------------------------------------------------------------------------
Smaller(m, n) == IF m < n THEN m ELSE n

\* run() caught an error that it takes for transient: it sleeps.
Sleeps(w) ==
    /\ pc' = [pc EXCEPT ![w] = "sleeping"]
    /\ fails' = [fails EXCEPT ![w] = Smaller(@ + 1, FailBound)]

(* Opening a session.                                                      *)

PinAccepts(cert) == cert = Pinned

\* connect() raises OSError or times out: run() sleeps.
ConnectFails(w) ==
    /\ pc[w] = "connecting"
    /\ Sleeps(w)
    /\ UNCHANGED <<open, backoff, workerId, acked, loops, beatDied, rejected>>

\* The opening handshake fails above TCP (the peer died during it, or a proxy
\* answered): InvalidHandshake is neither OSError nor ConnectionClosed.
HandshakeFails(w) ==
    /\ pc[w] = "connecting"
    /\ pc' = [pc EXCEPT ![w] = "stopped"]
    /\ UNCHANGED <<open, backoff, workerId, acked, loops, beatDied, fails, rejected>>

\* Connected, but to a peer with another certificate: CertPinError, a sleep.
PinFails(w, cert) ==
    /\ pc[w] = "connecting"
    /\ ~PinAccepts(cert)
    /\ Sleeps(w)
    /\ UNCHANGED <<open, backoff, workerId, acked, loops, beatDied, rejected>>

\* Connected, pinned, join sent; recv() is awaited.
SendJoin(w, cert) ==
    /\ pc[w] = "connecting"
    /\ PinAccepts(cert)
    /\ pc' = [pc EXCEPT ![w] = "awaiting"]
    /\ open' = [open EXCEPT ![w] = TRUE]
    /\ UNCHANGED <<backoff, workerId, acked, loops, beatDied, fails, rejected>>

\* The library notices that the connection is gone.
Notice(w) ==
    /\ open[w]
    /\ open' = [open EXCEPT ![w] = FALSE]
    /\ UNCHANGED <<pc, backoff, workerId, acked, loops, beatDied, fails, rejected>>

\* recv() (or the send of the join) raises ConnectionClosed: run() sleeps.
ReplyLost_RetriesRecv(w) ==
    /\ pc[w] = "awaiting"
    /\ ~open[w]
    /\ UNCHANGED wdVars
ReplyLost(w) ==
    /\ pc[w] = "awaiting"
    /\ ~open[w]
    /\ Sleeps(w)
    /\ UNCHANGED <<open, backoff, workerId, acked, loops, beatDied, rejected>>

-----------------------------------------------------------------------------
(* The first message of the Master.                                        *)

\* join_ack: the id is recorded, then the heartbeat task is created with it.
GetAck(w, id) ==
    /\ pc[w] = "awaiting"
    /\ id # workerId[w]          \* a fresh uuid4 for every admission
    /\ pc' = [pc EXCEPT ![w] = "joined"]
    /\ workerId' = [workerId EXCEPT ![w] = id]
    /\ acked' = [acked EXCEPT ![w] = id]
    /\ loops' = [loops EXCEPT ![w] = @ \cup {id}]
    /\ beatDied' = [beatDied EXCEPT ![w] = FALSE]
    /\ UNCHANGED <<open, backoff, fails, rejected>>

\* Leaving the session for good: connect_once raises what run() does not catch.
Stop(w) ==
    /\ pc[w] = "awaiting"
    /\ pc' = [pc EXCEPT ![w] = "stopped"]
    /\ open' = [open EXCEPT ![w] = FALSE]
    /\ UNCHANGED <<backoff, workerId, acked, loops, beatDied, fails>>

\* join_reject: JoinRejected, which run() lets through.
GetReject(w) == Stop(w) /\ rejected' = [rejected EXCEPT ![w] = TRUE]

\* Another message of the Master (JoinRejected as well), or one that does not
\* parse (a ValueError).
GetUnexpected(w) == Stop(w) /\ UNCHANGED rejected

-----------------------------------------------------------------------------
(* A session under way, and its end.                                       *)

\* The heartbeat loop sends on the closed connection before run() resumes:
\* the task ends with ConnectionClosed.
HeartbeatFails(w) ==
    /\ pc[w] = "joined"
    /\ ~open[w]
    /\ ~beatDied[w]
    /\ beatDied' = [beatDied EXCEPT ![w] = TRUE]
    /\ loops' = [loops EXCEPT ![w] = @ \ {workerId[w]}]
    /\ UNCHANGED <<pc, open, backoff, workerId, acked, fails, rejected>>

\* heartbeat.cancel() and the wait for it.
LoopsAfterCancel_Forgotten(w) == loops[w]
LoopsAfterCancel(w) == loops[w] \ {workerId[w]}

\* A clean session starts the backoff again.
BackoffAfterSession_Kept(w) == backoff[w]
BackoffAfterSession(w) == INITIAL_BACKOFF

\* The read loop ends: the heartbeat task is cancelled and awaited.
ReadEnds(w) ==
    /\ pc[w] = "joined"
    /\ ~open[w]
    /\ ~beatDied[w]
    /\ pc' = [pc EXCEPT ![w] = "leaving"]
    /\ UNCHANGED <<open, backoff, workerId, acked, loops, beatDied, fails, rejected>>

\* The heartbeat task has ended: connect_once returns, run() resets the backoff
\* and connects again at once.
EndClean(w) ==
    /\ pc[w] = "leaving"
    /\ pc' = [pc EXCEPT ![w] = "connecting"]
    /\ backoff' = [backoff EXCEPT ![w] = BackoffAfterSession(w)]
    /\ fails' = [fails EXCEPT ![w] = 0]
    /\ acked' = [acked EXCEPT ![w] = NoId]
    /\ loops' = [loops EXCEPT ![w] = LoopsAfterCancel(w)]
    /\ UNCHANGED <<open, workerId, beatDied, rejected>>

\* The read loop ends, but `await heartbeat` re-raises at once the
\* ConnectionClosed of a task that died: run() takes the session for a failure
\* and sleeps.
EndOnHeartbeat(w) ==
    /\ pc[w] = "joined"
    /\ ~open[w]
    /\ beatDied[w]
    /\ Sleeps(w)
    /\ acked' = [acked EXCEPT ![w] = NoId]
    /\ loops' = [loops EXCEPT ![w] = LoopsAfterCancel(w)]
    /\ beatDied' = [beatDied EXCEPT ![w] = FALSE]
    /\ UNCHANGED <<open, backoff, workerId, rejected>>

\* The sleep of `backoff` seconds is over; then the backoff doubles.
NextBackoff_NoCeiling(b) == Smaller(b * 2, 2 * MAX_BACKOFF)
NextBackoff(b) == Smaller(b * 2, MAX_BACKOFF)
Wake(w) ==
    /\ pc[w] = "sleeping"
    /\ pc' = [pc EXCEPT ![w] = "connecting"]
    /\ backoff' = [backoff EXCEPT ![w] = NextBackoff(@)]
    /\ UNCHANGED <<open, workerId, acked, loops, beatDied, fails, rejected>>

\* The task of run() is cancelled at one of its awaits, and ends: connect_once
\* ends the heartbeat task and closes the connection on the way out.
Cancelled(w) ==
    /\ pc[w] \in {"connecting", "awaiting", "sleeping"} \/ (pc[w] = "joined" /\ ~beatDied[w])
    /\ pc' = [pc EXCEPT ![w] = "stopped"]
    /\ open' = [open EXCEPT ![w] = FALSE]
    /\ acked' = [acked EXCEPT ![w] = NoId]
    /\ loops' = [loops EXCEPT ![w] = LoopsAfterCancel(w)]
    /\ UNCHANGED <<backoff, workerId, beatDied, fails, rejected>>

\* What the daemon does but for its part in the exchange of messages.
OwnNext(w) ==
    \/ ConnectFails(w)
    \/ HandshakeFails(w)
    \/ \E cert \in Certs : PinFails(w, cert)
    \/ Notice(w)
    \/ ReplyLost(w)
    \/ HeartbeatFails(w)
    \/ ReadEnds(w)
    \/ EndClean(w)
    \/ EndOnHeartbeat(w)
    \/ Wake(w)

ExchangeNext(w) ==
    \/ \E cert \in Certs : SendJoin(w, cert)
    \/ \E id \in WorkerIds : GetAck(w, id)
    \/ GetReject(w)
    \/ GetUnexpected(w)

\* A daemon that stopped does nothing more.
WDDone == (\A w \in Workers : pc[w] = "stopped") /\ UNCHANGED wdVars

WDNext == WDDone \/ \E w \in Workers : OwnNext(w) \/ ExchangeNext(w) \/ Cancelled(w)

WDSpec == WDInit /\ [][WDNext]_wdVars

\* A task whose await is over is resumed, and sleeps end; a connection attempt
\* ends in some way.  The network and the Master owe nothing else.
SessionEnds(w) == ReplyLost(w) \/ EndClean(w) \/ EndOnHeartbeat(w)
SessionMoves(w) == ReadEnds(w) \/ SessionEnds(w)
ConnectEnds(w) ==
    \/ ConnectFails(w)
    \/ HandshakeFails(w)
    \/ \E cert \in Certs : PinFails(w, cert) \/ SendJoin(w, cert)

WDFairness ==
    \A w \in Workers :
        WF_wdVars(SessionMoves(w)) /\ WF_wdVars(Wake(w)) /\ WF_wdVars(ConnectEnds(w))

-----------------------------------------------------------------------------
(* The only heartbeat task is that of the session under way, and it sends  *)
(* the id this session was given: none outlives its session, none carries  *)
(* the id of an earlier one, which worker_id keeps while reconnecting.     *)
(* (connect_once: worker_id before create_task, cancel in the finally.)    *)
HeartbeatIsCurrent == \A w \in Workers : loops[w] \subseteq {acked[w]} \ {NoId}

(* The n-th failure in a row is followed by a sleep of 2^(n-1) seconds, 30 *)
(* at most, as modules.md says: failures count from the last session that  *)
(* ended cleanly, whatever they were and whatever sessions they broke.     *)
(* (run: slept, then doubled; reset only where connect_once returned.)     *)
Schedule == <<1, 2, 4, 8, 16, 30>>
BackoffFollowsSchedule ==
    \A w \in Workers :
        pc[w] = "sleeping" => backoff[w] = Schedule[Smaller(fails[w], 6)]

(* A connection that is lost leads to a new attempt or to a stop: no end   *)
(* of a session leaves run() waiting.  (connect_once: recv and the read    *)
(* loop both end with the connection.)                                     *)
LostLeadsOn ==
    \A w \in Workers :
        (pc[w] \in {"awaiting", "joined", "leaving"} /\ ~open[w])
            ~> pc[w] \in {"connecting", "stopped"}
=============================================================================
