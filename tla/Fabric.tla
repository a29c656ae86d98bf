------------------------------- MODULE Fabric -------------------------------
(***************************************************************************)
(* The Master's control plane and its Workers together: ControlServer and  *)
(* WorkerDaemon over connections of which either end may be lost without   *)
(* the other end knowing it yet.                                           *)
(*                                                                         *)
(* peer[c] is the Worker at the far end of the server's connection c, and  *)
(* link[w] the server's connection at the far end of Worker w's socket.    *)
(* They differ while a connection is half open: a Worker may have a new    *)
(* connection while the server still has its old one.                      *)
(***************************************************************************)
EXTENDS ControlServer, WorkerDaemon

CONSTANTS
    TokenOf,      \* the Invite Token each daemon was started with
    Garbled,      \* the daemons whose profile holds a NaN or infinite float
    FaultBound,   \* bound: faults (crashes, cuts, refused connects, failed
                  \* saves) and close() calls
    OperatorActs  \* whether tokens are revoked and expire, or only issued

ASSUME TokenOfAssumption == TokenOf \in [Workers -> Tokens]
ASSUME GarbledAssumption == Garbled \subseteq Workers
ASSUME FaultBoundAssumption == FaultBound \in Nat /\ OperatorActs \in BOOLEAN
ASSUME NobodyAssumption == None \notin Workers \cup Conns

VARIABLES
    peer,     \* for each connection of the server, the Worker at the far end
    link,     \* for each Worker, the server's connection at the far end
    onWay,    \* the connections on which a join was sent and has not arrived
    faults    \* faults so far

fabricVars == <<vars, wdVars, peer, link, onWay, faults>>

FabricTypeOK ==
    /\ TypeOK
    /\ WDTypeOK
    /\ peer \in [Conns -> Workers \cup {None}]
    /\ link \in [Workers -> Conns \cup {None}]
    /\ onWay \subseteq Conns
    /\ faults \in 0..FaultBound

FabricInit ==
    /\ CSInit
    /\ WDInit
    /\ peer = [c \in Conns |-> None]
    /\ link = [w \in Workers |-> None]
    /\ onWay = {}
    /\ faults = 0

\* The end that an end is connected to is gone or has given the socket up.
WorkerGone(c) == ~ \E w \in Workers : peer[c] = w /\ link[w] = c /\ open[w]
ServerGone(w) == ~ \E c \in Conns : link[w] = c /\ sock[c] = "open"

\* A step that needs the network or the process to fail, unless it is due.
FaultUnless(due) ==
    /\ faults' = IF due THEN faults ELSE faults + 1
    /\ faults' <= FaultBound

serverRest == <<wdVars, peer, link, onWay, faults>>
daemonRest == <<vars, peer, onWay, faults>>

-----------------------------------------------------------------------------
(* The Master's process.                                                   *)

\* The step revokes no token, in memory or in the table, and none expires.
NothingWithdrawn ==
    /\ revoked' \subseteq revoked
    /\ expired' = expired
    /\ \A t \in Tokens : tx'[t] = "revoked" => tx[t] = "revoked"

FStart == Start /\ UNCHANGED serverRest
FServe == Serve /\ UNCHANGED serverRest
FClose == Close /\ FaultUnless(FALSE) /\ UNCHANGED <<wdVars, peer, link, onWay>>
FAdmin ==
    /\ Admin
    /\ OperatorActs \/ NothingWithdrawn
    /\ FaultUnless(tx' \in {tx, row'})     \* a commit that fails is a fault
    /\ UNCHANGED <<wdVars, peer, link, onWay>>

FCrash ==
    /\ Crash
    /\ OperatorActs \/ NothingWithdrawn
    /\ FaultUnless(FALSE)
    /\ peer' = [c \in Conns |-> None]
    /\ link' = [w \in Workers |-> None]
    /\ onWay' = {}
    /\ UNCHANGED wdVars

(* The tasks of one connection.                                            *)
FDispatch(c) == DispatchDone(c) /\ UNCHANGED serverRest
FDispatchRaises(c) ==
    /\ \E t \in Tokens : SaveWorkerFails(c, t)
    /\ FaultUnless(FALSE)
    /\ UNCHANGED <<wdVars, peer, link, onWay>>
FWriterSend(c) == WriterSend(c) /\ UNCHANGED serverRest
FWriterFails(c) == WriterFails(c) /\ UNCHANGED serverRest
FReadEnd(c) == ReadEnd(c) /\ UNCHANGED serverRest
FDie(c) == DieOnWriterError(c) /\ UNCHANGED serverRest
FPush(c) == Push(c) /\ UNCHANGED serverRest

\* The connection leaves the server; its Worker may not have noticed.
FDeregister(c) ==
    /\ Deregister(c)
    /\ peer' = [peer EXCEPT ![c] = None]
    /\ link' = [w \in Workers |-> IF link[w] = c THEN None ELSE link[w]]
    /\ onWay' = onWay \ {c}
    /\ UNCHANGED <<wdVars, faults>>

\* The server's end closes: the Worker's has, close() was called, the
\* keepalive of the library gave up on it, or the network cut it.
FLose(c) ==
    /\ Lose(c)
    /\ FaultUnless(WorkerGone(c) \/ ~serving)
    /\ UNCHANGED <<wdVars, peer, link, onWay>>

-----------------------------------------------------------------------------
(* What travels.                                                           *)

\* The connection is opened, the pin matches, the join is on its way.
FConnect(w, c) ==
    /\ TokenOf[w] \in handedOut
    /\ Accept(c)
    /\ SendJoin(w, Pinned)
    /\ peer' = [peer EXCEPT ![c] = w]
    /\ link' = [link EXCEPT ![w] = c]
    /\ onWay' = onWay \cup {c}
    /\ UNCHANGED faults

FConnectFails(w) ==
    /\ TokenOf[w] \in handedOut
    /\ ConnectFails(w)
    /\ FaultUnless(~serving)
    /\ UNCHANGED <<vars, peer, link, onWay>>

\* The Master or the network goes away in the middle of the opening handshake.
FHandshakeFails(w) ==
    /\ TokenOf[w] \in handedOut
    /\ HandshakeFails(w)
    /\ FaultUnless(FALSE)
    /\ UNCHANGED <<vars, peer, link, onWay>>

\* The join as the Master's _dispatch sees it.  A float that is not finite was
\* dumped as null, which the required field refuses: the frame is dropped, and
\* nothing is sent back.
JoinFrame(w) == IF w \in Garbled THEN Other ELSE TokenOf[w]

\* The join arrives, also when its sender has since given the connection up.
FJoinArrives(c) ==
    /\ c \in onWay
    /\ Receive(c, JoinFrame(peer[c]))
    /\ onWay' = onWay \ {c}
    /\ UNCHANGED <<wdVars, peer, link, faults>>

FHeartbeatArrives(w) ==
    /\ loops[w] # {}
    /\ link[w] # None
    /\ Receive(link[w], Other)
    /\ UNCHANGED serverRest

\* The Worker reads the first message the Master sent on its connection.
FReply(w) ==
    /\ link[w] # None
    /\ wire[link[w]] # <<>>
    /\ LET m == Head(wire[link[w]]) IN
       \/ /\ m = "ack"
          /\ \E id \in WorkerIds : GetAck(w, id)
          /\ UNCHANGED link
       \/ /\ m = "reject"
          /\ GetReject(w)
          /\ link' = [link EXCEPT ![w] = None]
       \/ /\ m = "push"
          /\ GetUnexpected(w)
          /\ link' = [link EXCEPT ![w] = None]
    /\ UNCHANGED daemonRest

(* The daemon's own steps.                                                 *)
FNotice(w) ==
    /\ Notice(w)
    /\ FaultUnless(ServerGone(w))
    /\ UNCHANGED <<vars, peer, link, onWay>>

FSessionEnds(w) ==
    /\ SessionEnds(w)
    /\ link' = [link EXCEPT ![w] = None]
    /\ UNCHANGED daemonRest

FHeartbeatFails(w) == HeartbeatFails(w) /\ UNCHANGED <<daemonRest, link>>
FReadEnds(w) == ReadEnds(w) /\ UNCHANGED <<daemonRest, link>>
FWake(w) == Wake(w) /\ UNCHANGED <<daemonRest, link>>

ServerNext(c) ==
    \/ FDispatch(c) \/ FDispatchRaises(c) \/ FWriterSend(c) \/ FWriterFails(c) \/ FReadEnd(c)
    \/ FDie(c) \/ FPush(c) \/ FDeregister(c) \/ FLose(c) \/ FJoinArrives(c)

WorkerNext(w) ==
    \/ \E c \in Conns : FConnect(w, c)
    \/ FConnectFails(w) \/ FHandshakeFails(w) \/ FHeartbeatArrives(w) \/ FReply(w) \/ FNotice(w)
    \/ FReadEnds(w) \/ FSessionEnds(w) \/ FHeartbeatFails(w) \/ FWake(w)

FabricNext ==
    \/ FStart \/ FServe \/ FClose \/ FAdmin \/ FCrash
    \/ \E c \in Conns : ServerNext(c)
    \/ \E w \in Workers : WorkerNext(w)

FabricSpec == FabricInit /\ [][FabricNext]_fabricVars

\* Both loops resume their tasks; what was sent on a live connection arrives;
\* each end of a connection learns in the end that the other is gone (close
\* frames, resets, the library's keepalive); a Worker that can connect does.
FabricFairness ==
    /\ \A c \in Conns :
        /\ WF_fabricVars(FDispatch(c))
        /\ WF_fabricVars(FWriterSend(c))
        /\ WF_fabricVars(FWriterFails(c))
        /\ WF_fabricVars(FReadEnd(c))
        /\ WF_fabricVars(FDie(c))
        /\ WF_fabricVars(FDeregister(c))
        /\ WF_fabricVars((WorkerGone(c) \/ ~serving) /\ FLose(c))
        /\ WF_fabricVars(FJoinArrives(c))
    /\ \A w \in Workers :
        /\ WF_fabricVars(\E c \in Conns : FConnect(w, c))
        /\ WF_fabricVars(FReply(w))
        /\ WF_fabricVars(ServerGone(w) /\ FNotice(w))
        /\ WF_fabricVars(FReadEnds(w) \/ FSessionEnds(w))
        /\ WF_fabricVars(FWake(w))

FairFabricSpec == FabricSpec /\ FabricFairness

-----------------------------------------------------------------------------
(* A Worker that takes itself for joined, and whose connection the Master  *)
(* still has, holds a slot of its token there and has its row: the two     *)
(* sides agree on who is in.  (connect_once on join_ack; _on_join.)        *)
JoinedHoldsSlot ==
    \A w \in Workers :
        (pc[w] = "joined" /\ link[w] # None) =>
            /\ jti[link[w]] = TokenOf[w]
            /\ saved[link[w]] = TokenOf[w]
            /\ peer[link[w]] = w

(* A Worker is turned away for good only with a token that does not verify *)
(* at that time.  It holds for tokens without max_workers; with a cap, the *)
(* Worker's own half-open connection may have the slot.  (operations.md:   *)
(* "keeps trying ... indefinitely"; run: "the token won't get better".)    *)
RejectedForCause ==
    [][\A w \in Workers :
          (rejected'[w] /\ ~rejected[w]) => ~Verifies(TokenOf[w])]_fabricVars

(* A Worker whose join the Master can read does not wait for ever for the  *)
(* answer, and no Worker waits for ever for a Master that has gone.        *)
(* (connect_once: recv() has no timeout; _on_join replies on every path.)  *)
JoinSettles ==
    \A w \in Workers :
        (pc[w] = "awaiting" /\ (w \notin Garbled \/ ServerGone(w))) ~> pc[w] # "awaiting"

(* When faults cease and the Master goes on serving, a Worker whose token  *)
(* was issued, is valid and has no cap, and whose join can be read, is     *)
(* joined in the end and stays so, whatever refused attempts, half-open    *)
(* connections and tasks the faults left behind.  The one fault it does    *)
(* not come back from is a failed opening handshake, which run() does not  *)
(* catch.  (run: the reconnect loop; operations.md 2.4.)                   *)
GaveUp(w) == pc[w] = "stopped" /\ ~rejected[w]
WorkersReturn ==
    <>[]serving =>
        \A w \in Workers \ Garbled :
            <>[](pc[w] = "joined" \/ TokenOf[w] \notin handedOut \/ GaveUp(w))

-----------------------------------------------------------------------------
(* What a document says and the code does not do: it is violated.          *)

(* wire-protocol.md on the lifecycle of a connection: after its join the   *)
(* Worker is to "receive `join_ack` (or `join_reject`)".                   *)
EveryJoinSettles == \A w \in Workers : pc[w] = "awaiting" ~> pc[w] # "awaiting"
=============================================================================
