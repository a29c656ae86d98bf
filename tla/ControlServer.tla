--------------------------- MODULE ControlServer ---------------------------
(***************************************************************************)
(* The Master's WebSocket control plane: master/server.py, class           *)
(* ControlServer, over the TokenService it owns.                           *)
(*                                                                         *)
(* One asyncio loop runs, for each accepted connection, a handler task     *)
(* (_handle) and a writer task (_writer).  An action is a stretch of a     *)
(* task between two awaits, so that the interleavings are those of the     *)
(* loop: a frame is dispatched in one step, but the handler's wait for its *)
(* cancelled writer lets every other task run before the slot is freed.    *)
(*                                                                         *)
(* A member of Conns is a _Conn object; after its handler has deregistered *)
(* it the same member may stand for a later connection.  A join frame is   *)
(* represented by the token it carries and any other frame, recognised or  *)
(* garbled, by Other: only a join makes _dispatch act (module Wire says    *)
(* which frames parse as what).                                            *)
(***************************************************************************)
EXTENDS TokenService, Sequences, FiniteSets

CONSTANTS
    Conns,        \* connections open at one time
    None,         \* Python's None
    Other,        \* an inbound frame that is not a join
    JoinLimit,    \* bound: join frames a peer sends on one connection
    InboxLimit,   \* bound: frames received and not yet dispatched
    SendLimit     \* bound: messages on a connection up to which push() adds one

ASSUME ConnsAssumption == IsFiniteSet(Conns)
ASSUME SentinelAssumption == None \notin Tokens /\ Other \notin Tokens
ASSUME BoundsAssumption ==
    JoinLimit \in Nat /\ InboxLimit \in Nat /\ SendLimit \in Nat

VARIABLES
    serving,   \* serve() was called and close() was not
    sock,      \* the transport as the server's event loop sees it
    handler,   \* the task running _handle
    writer,    \* the task running _writer
    inbox,     \* frames received, not yet read by `async for`
    joins,     \* join frames the peer has sent on this connection
    sendq,     \* _Conn.send_queue
    wire,      \* messages written to the socket, in order
    jti,       \* _Conn.jti
    saved      \* the token_jti of the workers row saved under _Conn.worker_id

connVars == <<sock, handler, writer, inbox, joins, sendq, wire, jti, saved>>
vars == <<up, row, tx, revoked, live, handedOut, expired, revokeDone,
          serving, sock, handler, writer, inbox, joins, sendq, wire, jti, saved>>

Frames == Tokens \cup {Other}
Messages == {"ack", "reject", "push"}
HandlerState == {"none", "reading", "closing", "crashed"}
WriterState == {"none", "running", "failed", "cancelled"}

TypeOK ==
    /\ TokTypeOK
    /\ serving \in BOOLEAN
    /\ sock \in [Conns -> {"none", "open", "closed"}]
    /\ handler \in [Conns -> HandlerState]
    /\ writer \in [Conns -> WriterState]
    /\ inbox \in [Conns -> Seq(Frames)]
    /\ joins \in [Conns -> Nat]
    /\ sendq \in [Conns -> Seq(Messages)]
    /\ wire \in [Conns -> Seq(Messages)]
    /\ jti \in [Conns -> Tokens \cup {None}]
    /\ saved \in [Conns -> Tokens \cup {None}]

-----------------------------------------------------------------------------
(* _conns: a connection is in it from the first step of its handler until  *)
(* the pop at the end; a handler that dies on the way never pops it.       *)
Registered == {c \in Conns : handler[c] # "none"}
connected_count == Cardinality(Registered)

\* The connections that hold a slot of t in the server's books.
Holders(t) == {c \in Conns : jti[c] = t}

-----------------------------------------------------------------------------
CSInit ==
    /\ TokInit
    /\ serving = FALSE
    /\ sock = [c \in Conns |-> "none"]
    /\ handler = [c \in Conns |-> "none"]
    /\ writer = [c \in Conns |-> "none"]
    /\ inbox = [c \in Conns |-> <<>>]
    /\ joins = [c \in Conns |-> 0]
    /\ sendq = [c \in Conns |-> <<>>]
    /\ wire = [c \in Conns |-> <<>>]
    /\ jti = [c \in Conns |-> None]
    /\ saved = [c \in Conns |-> None]

\* What is left of the connections when the process dies: nothing.
Forget ==
    /\ serving' = FALSE
    /\ sock' = [c \in Conns |-> "none"]
    /\ handler' = [c \in Conns |-> "none"]
    /\ writer' = [c \in Conns |-> "none"]
    /\ inbox' = [c \in Conns |-> <<>>]
    /\ joins' = [c \in Conns |-> 0]
    /\ sendq' = [c \in Conns |-> <<>>]
    /\ wire' = [c \in Conns |-> <<>>]
    /\ jti' = [c \in Conns |-> None]
    /\ saved' = [c \in Conns |-> None]

Start == TokStart /\ UNCHANGED <<serving, connVars>>
Crash == (TokCrash \/ TokCrashInCall) /\ Forget
Admin == TokAdmin /\ UNCHANGED <<serving, connVars>>

\* serve(): the listener opens.
Serve ==
    /\ up /\ ~serving
    /\ serving' = TRUE
    /\ UNCHANGED <<tokVars, connVars>>

\* close(): the listener closes; the library then closes every connection.
Close ==
    /\ serving
    /\ serving' = FALSE
    /\ UNCHANGED <<tokVars, connVars>>

\* A connection is accepted: _handle registers it and creates its writer.
Accept(c) ==
    /\ serving
    /\ handler[c] = "none"
    /\ sock' = [sock EXCEPT ![c] = "open"]
    /\ handler' = [handler EXCEPT ![c] = "reading"]
    /\ writer' = [writer EXCEPT ![c] = "running"]
    /\ UNCHANGED <<tokVars, serving, inbox, joins, sendq, wire, jti, saved>>

\* A frame arrives on an open socket.
Receive(c, f) ==
    /\ sock[c] = "open"
    /\ handler[c] = "reading"
    /\ Len(inbox[c]) < InboxLimit
    /\ f \in Tokens => joins[c] < JoinLimit
    /\ inbox' = [inbox EXCEPT ![c] = Append(@, f)]
    /\ joins' = [joins EXCEPT ![c] = IF f \in Tokens THEN @ + 1 ELSE @]
    /\ UNCHANGED <<tokVars, serving, sock, handler, writer, sendq, wire, jti, saved>>

\* The connection is lost: the peer closed it or died, or the library closed it.
Lose(c) ==
    /\ sock[c] = "open"
    /\ sock' = [sock EXCEPT ![c] = "closed"]
    /\ UNCHANGED <<tokVars, serving, handler, writer, inbox, joins, sendq, wire, jti, saved>>

-----------------------------------------------------------------------------
(* _dispatch and _on_join: one step each, there is no await in them.       *)

Reply_Dropped(c, m) == sendq
Reply_UnlessJoined(c, m) ==
    IF jti[c] = None \/ m = "push" THEN [sendq EXCEPT ![c] = Append(@, m)] ELSE sendq
Reply_Both(c, m) == [sendq EXCEPT ![c] = @ \o <<m, "reject">>]
Reply(c, m) == [sendq EXCEPT ![c] = Append(@, m)]
Read(c) ==
    /\ handler[c] = "reading"
    /\ inbox[c] # <<>>
    /\ inbox' = [inbox EXCEPT ![c] = Tail(@)]

\* A frame that is not a join, or that does not parse, is dropped.
DispatchOther(c) ==
    /\ Read(c)
    /\ Head(inbox[c]) = Other
    /\ UNCHANGED <<tokVars, serving, sock, handler, writer, joins, sendq, wire, jti, saved>>

\* verify() raises InvalidToken, or admit() is False: join_reject.
JoinRefused(t) == ~Verifies(t) \/ ~HasRoom(t)
RejectJoin(c, t) ==
    /\ Read(c)
    /\ Head(inbox[c]) = t
    /\ JoinRefused(t)
    /\ sendq' = Reply(c, "reject")
    /\ UNCHANGED <<tokVars, serving, sock, handler, writer, joins, wire, jti, saved>>

\* _on_join up to the Worker's row: verify, admit, then jti on the connection.
\* The jti is set before save_worker, so that a failure there is released.
JtiAfterAdmit_TooLate(c, t, ok) == IF ok THEN [jti EXCEPT ![c] = t] ELSE jti
JtiAfterAdmit(c, t, ok) == [jti EXCEPT ![c] = t]
TakeSlot(c, t) ==
    /\ Read(c)
    /\ Head(inbox[c]) = t
    /\ Verifies(t)
    /\ Admit(t)
    /\ UNCHANGED <<serving, sock, joins, wire>>

\* The row is saved, with all the open transaction holds, and join_ack is queued.
SavedAfterAdmit_Skipped(c, t) == saved
SavedAfterAdmit(c, t) == [saved EXCEPT ![c] = t]
AckJoin(c, t) ==
    /\ TakeSlot(c, t)
    /\ jti' = JtiAfterAdmit(c, t, TRUE)
    /\ tx[t] # "absent"
    /\ Commits(tx)
    /\ saved' = SavedAfterAdmit(c, t)
    /\ sendq' = Reply(c, "ack")
    /\ UNCHANGED <<handler, writer>>

\* writer.cancel(): takes effect unless the task has already ended.
WriterAfterCancel_NotCancelled(c) == writer
WriterAfterCancel(c) ==
    [writer EXCEPT ![c] = IF @ = "running" THEN "cancelled" ELSE @]

\* save_worker raises (disk error, or no tokens row to reference): the
\* exception leaves the read loop and _handle enters its finally block.
SaveWorkerFails(c, t) ==
    /\ TakeSlot(c, t)
    /\ StoreFails(row, tx)
    /\ jti' = JtiAfterAdmit(c, t, FALSE)
    /\ handler' = [handler EXCEPT ![c] = "closing"]
    /\ writer' = WriterAfterCancel(c)
    /\ UNCHANGED <<saved, sendq>>

\* A frame that is no UTF-8: json.loads raises UnicodeDecodeError, which is not
\* among the errors _dispatch tolerates.
DecodeFails(c) ==
    /\ Read(c)
    /\ Head(inbox[c]) = Other
    /\ handler' = [handler EXCEPT ![c] = "closing"]
    /\ writer' = WriterAfterCancel(c)
    /\ UNCHANGED <<tokVars, serving, sock, joins, sendq, wire, jti, saved>>

DispatchDone(c) ==
    \/ DispatchOther(c)
    \/ \E t \in Tokens : RejectJoin(c, t) \/ AckJoin(c, t)
DispatchRaises(c) == DecodeFails(c) \/ \E t \in Tokens : SaveWorkerFails(c, t)
Dispatch(c) == DispatchDone(c) \/ DispatchRaises(c)

-----------------------------------------------------------------------------
(* The writer task: take a message, send it; a send on a closed socket     *)
(* raises ConnectionClosed and ends the task with that exception.          *)
WriterSend(c) ==
    /\ writer[c] = "running"
    /\ sendq[c] # <<>>
    /\ sock[c] = "open"
    /\ wire' = [wire EXCEPT ![c] = Append(@, Head(sendq[c]))]
    /\ sendq' = [sendq EXCEPT ![c] = Tail(@)]
    /\ UNCHANGED <<tokVars, serving, sock, handler, writer, inbox, joins, jti, saved>>

WriterFails(c) ==
    /\ writer[c] = "running"
    /\ sendq[c] # <<>>
    /\ sock[c] = "closed"
    /\ sendq' = [sendq EXCEPT ![c] = Tail(@)]
    /\ writer' = [writer EXCEPT ![c] = "failed"]
    /\ UNCHANGED <<tokVars, serving, sock, handler, inbox, joins, wire, jti, saved>>

\* push() takes any registered connection, whether or not it has joined.
Push(c) ==
    /\ c \in Registered
    /\ Len(sendq[c]) + Len(wire[c]) < SendLimit
    /\ sendq' = Reply(c, "push")
    /\ UNCHANGED <<tokVars, serving, sock, handler, writer, inbox, joins, wire, jti, saved>>

-----------------------------------------------------------------------------
(* The end of _handle.                                                     *)

\* The read loop ends once the socket is closed and its frames are read.
EndOfInput(c) == sock[c] = "closed" /\ inbox[c] = <<>>
ReadEnd_ReleasesFirst(c) ==
    /\ handler[c] = "reading"
    /\ EndOfInput(c)
    /\ handler' = [handler EXCEPT ![c] = "closing"]
    /\ writer' = WriterAfterCancel(c)
    /\ live' = IF jti[c] # None THEN LiveAfterRelease(jti[c]) ELSE live
    /\ jti' = [jti EXCEPT ![c] = None]
    /\ UNCHANGED <<up, row, tx, revoked, handedOut, expired, revokeDone,
                   serving, sock, inbox, joins, sendq, wire, saved>>
ReadEnd(c) ==
    /\ handler[c] = "reading"
    /\ EndOfInput(c)
    /\ handler' = [handler EXCEPT ![c] = "closing"]
    /\ writer' = WriterAfterCancel(c)
    /\ UNCHANGED <<tokVars, serving, sock, inbox, joins, sendq, wire, jti, saved>>

\* `await writer` returned: release the slot, pop the connection; the library
\* closes the socket when the handler is done.
ReleaseSlot_Doubled(c) == IF jti[c] # None THEN [live EXCEPT ![jti[c]] = @ - 2] ELSE live
ReleaseSlot(c) == IF jti[c] # None THEN LiveAfterRelease(jti[c]) ELSE live
Deregister(c) ==
    /\ handler[c] = "closing"
    /\ writer[c] = "cancelled"
    /\ live' = ReleaseSlot(c)
    /\ sock' = [sock EXCEPT ![c] = "none"]
    /\ handler' = [handler EXCEPT ![c] = "none"]
    /\ writer' = [writer EXCEPT ![c] = "none"]
    /\ inbox' = [inbox EXCEPT ![c] = <<>>]
    /\ joins' = [joins EXCEPT ![c] = 0]
    /\ sendq' = [sendq EXCEPT ![c] = <<>>]
    /\ wire' = [wire EXCEPT ![c] = <<>>]
    /\ jti' = [jti EXCEPT ![c] = None]
    /\ saved' = [saved EXCEPT ![c] = None]
    /\ UNCHANGED <<up, row, tx, revoked, handedOut, expired, revokeDone, serving>>

\* `await writer` re-raises what ended the writer: only CancelledError is
\* suppressed, so neither the release nor the pop is reached.
DieOnWriterError(c) ==
    /\ handler[c] = "closing"
    /\ writer[c] = "failed"
    /\ handler' = [handler EXCEPT ![c] = "crashed"]
    /\ UNCHANGED <<tokVars, serving, sock, writer, inbox, joins, sendq, wire, jti, saved>>

ConnNext(c) ==
    \/ Accept(c)
    \/ \E f \in Frames : Receive(c, f)
    \/ Lose(c)
    \/ Dispatch(c)
    \/ WriterSend(c)
    \/ WriterFails(c)
    \/ Push(c)
    \/ ReadEnd(c)
    \/ Deregister(c)
    \/ DieOnWriterError(c)

CSNext ==
    \/ Start
    \/ Crash
    \/ Admin
    \/ Serve
    \/ Close
    \/ \E c \in Conns : ConnNext(c)

CSSpec == CSInit /\ [][CSNext]_vars

\* The loop resumes every task that is ready, again and again; close() makes
\* the library close each connection.  Peers, operators and crashes owe nothing.
LoopFairness ==
    \A c \in Conns :
        /\ WF_vars(Dispatch(c))
        /\ WF_vars(WriterSend(c))
        /\ WF_vars(WriterFails(c))
        /\ WF_vars(ReadEnd(c))
        /\ WF_vars(Deregister(c))
        /\ WF_vars(DieOnWriterError(c))
        /\ WF_vars(~serving /\ Lose(c))

FairCSSpec == CSSpec /\ LoopFairness
-----------------------------------------------------------------------------
(* No more connections hold a slot of a token than its max_workers claim   *)
(* allows, whatever the writers, crashes and failed saves did.             *)
(* (_on_join: admit() before conn.jti; _handle: release on close.)         *)
CapHolds ==
    \A t \in Tokens :
        MaxWorkers[t] # Unlimited => Cardinality(Holders(t)) <= MaxWorkers[t]

(* The count of a token is the number of registered connections admitted   *)
(* with it: every admit has its connection and every release freed one,    *)
(* also when save_worker raises after admit() or the process restarts.     *)
(* (tokens.py: "the caller pairs each admit with a release".)              *)
SlotsAccounted == \A t \in Tokens : live[t] = Cardinality(Holders(t))

(* A join_ack that is queued or sent belongs to a connection whose Worker  *)
(* row was saved, under the token whose slot it holds, and that token has  *)
(* its own row: after a restart the durable record knows every Worker that *)
(* was told it joined.  (_on_join: save_worker before put_nowait.)         *)
Announced(c) == sendq[c] \o wire[c]
IsIn(m, s) == \E i \in DOMAIN s : s[i] = m
AckedIsSaved ==
    \A c \in Conns : IsIn("ack", Announced(c)) =>
        /\ saved[c] # None
        /\ saved[c] = jti[c]
        /\ row[saved[c]] # "absent"

(* A Worker that was refused holds no slot: the reject is not followed or  *)
(* preceded by an admission on the same connection.                        *)
(* (_on_join: each early return is before admit() took a slot.)            *)
RejectHoldsNothing ==
    \A c \in Conns : IsIn("reject", Announced(c)) => jti[c] = None

(* A slot is only ever taken with a token that somebody was given, that    *)
(* has not expired, and whose revoke() has not returned, in this run of    *)
(* the Master or in an earlier one.  (_on_join: verify() before admit().)  *)
AdmissionIsAuthorised ==
    [][\A c \in Conns :
          (jti'[c] # None /\ jti'[c] # jti[c]) =>
              jti'[c] \in handedOut \ (expired \cup revokeDone)]_vars

(* A connection keeps the token it was admitted with until it is gone: no  *)
(* step moves a slot from one token to another, or drops the jti and keeps *)
(* the connection.  (_Conn.jti is what release() gets in the end.)         *)
SlotKeepsItsToken ==
    [][\A c \in Conns :
          (jti[c] # None /\ jti'[c] # jti[c]) => handler'[c] = "none"]_vars

(* Every join that arrived and validates has a reply of its own, also the  *)
(* second one on a connection, unless the connection ends first.           *)
(* (_on_join queues exactly one reply on every path; _writer drains it.)   *)
Replies(c) == Cardinality({i \in DOMAIN wire[c] : wire[c][i] \in {"ack", "reject"}})
JoinAnswered ==
    \A c \in Conns, n \in 1..JoinLimit :
        joins[c] >= n ~> (Replies(c) >= n \/ sock[c] # "open")

(* A connection that is lost, or whose handler stopped reading it, is      *)
(* deregistered, unless its writer had died by then.                       *)
(* (_handle: the finally block runs to the pop.)                           *)
LostIsDeregistered ==
    \A c \in Conns :
        (sock[c] = "closed" \/ handler[c] = "closing")
            ~> (handler[c] = "none" \/ writer[c] = "failed")

(* After close() every handler ends: wait_closed() returns, or serve() is  *)
(* called again.  (ControlServer.close: "drop all connections".)           *)
CloseDrains ==
    ~serving ~> (serving \/ \A c \in Conns : handler[c] \in {"none", "crashed"})

(* The tasks, sockets and tables together keep the promise of SlotPool:    *)
(* a connection that holds a slot of t is a member of t's pool, a token    *)
(* that expired or whose revoke() returned is withdrawn.                   *)
Pool == INSTANCE SlotPool WITH
            Limit <- MaxWorkers,
            members <- [t \in Tokens |-> Holders(t)],
            withdrawn <- expired \cup revokeDone
ImplementsSlotPool == Pool!PoolSpec

-----------------------------------------------------------------------------
(* What the documents say and the code does not do: each is violated.      *)

(* test_ws_server.py: "Socket closed: the Master deregisters and releases  *)
(* the slot"; connected_count: "currently-open Worker connections".        *)
ClosedIsDeregistered ==
    \A c \in Conns : sock[c] = "closed" ~> handler[c] = "none"

(* tokens.py on admit: "the caller pairs each admit with a release when    *)
(* the Worker disconnects": with nobody connected no slot is taken.        *)
SlotsReturn == Registered = {} => \A t \in Tokens : live[t] = 0
=============================================================================
