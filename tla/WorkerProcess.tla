--------------------------- MODULE WorkerProcess ---------------------------
(***************************************************************************)
(* A Worker's process: the daemon of WorkerDaemon, the messages it writes  *)
(* and reads as they travel (module Wire), and the way the process is told *)
(* to stop, which is a cancel of the task that runs run() (what asyncio    *)
(* makes of an interrupt, and the tests' session.cancel()).                *)
(***************************************************************************)
EXTENDS WorkerDaemon, Wire

VARIABLES
    told,      \* the Workers that were told to stop
    onWire     \* for each Worker, the message last written to its connection,
               \* by which end, and the frame that arrives at the other end

wpVars == <<wdVars, told, onWire>>

Quiet == [by |-> "nobody", sent |-> Unknown, frame |-> Unknown]

WPTypeOK ==
    /\ WDTypeOK
    /\ told \subseteq Workers
    /\ \A w \in Workers : onWire[w].by \in {"nobody", "Worker", "Master", "stranger"}

WPInit == WDInit /\ told = {} /\ onWire = [w \in Workers |-> Quiet]

-----------------------------------------------------------------------------
Written(w, end, message, frame) ==
    onWire' = [onWire EXCEPT ![w] = [by |-> end, sent |-> message, frame |-> frame]]

\* The join, with whatever profile the daemon was given.  Either end may be of
\* another version than the one that reads.
WriteJoin(w) ==
    /\ \E cert \in Certs : SendJoin(w, cert)
    /\ \E join \in Messages(WorkerMessage, "join") :
        \E frame \in Versions(join) : Written(w, "Worker", join, frame)

\* The heartbeat loop names the id alone: the other fields are None.
WriteHeartbeat(w) ==
    /\ loops[w] # {}
    /\ LET all == PlainMessage(WorkerMessage, "heartbeat")
           beat == [all EXCEPT !.body[<<"task_id">>] = "null",
                               !.body[<<"throughput_sample">>] = "null"]
       IN \E frame \in Versions(beat) : Written(w, "Worker", beat, frame)
    /\ UNCHANGED wdVars

\* connect_once reads one frame: an ack, a reject, or what is neither.  A frame
\* that is no JSON text ends it as one that does not validate.
TakesReply(w, frame) ==
    LET reply == parse_master_message(frame) IN
    \/ reply.type = "join_ack" /\ \E id \in WorkerIds : GetAck(w, id)
    \/ reply.type = "join_reject" /\ GetReject(w)
    \/ reply.type \notin {"join_ack", "join_reject"} /\ GetUnexpected(w)

ReadReply(w) ==
    \/ \E tag \in DOMAIN MasterMessage : \E m \in Messages(MasterMessage, tag) :
          \E frame \in Versions(m) :
              TakesReply(w, frame) /\ Written(w, "Master", m, frame)
    \/ \E frame \in Frames : TakesReply(w, frame) /\ Written(w, "stranger", Unknown, frame)

\* The cancel is lost in the finally of connect_once: while the heartbeat task
\* is awaited, suppress(CancelledError) takes it for that task's own; and when
\* that task died, its ConnectionClosed takes the place of the CancelledError.
CancelLost(w) == EndClean(w) \/ EndOnHeartbeat(w)

Cancel(w) ==
    /\ w \notin told
    /\ told' = told \cup {w}
    /\ Cancelled(w) \/ CancelLost(w)
    /\ UNCHANGED onWire

\* The steps that write and read nothing of a message.
SilentNext(w) == OwnNext(w) /\ UNCHANGED onWire

ProcessNext(w) ==
    /\ WriteJoin(w) \/ WriteHeartbeat(w) \/ ReadReply(w) \/ SilentNext(w)
    /\ UNCHANGED told

WPDone == WDDone /\ UNCHANGED <<told, onWire>>

WPNext == WPDone \/ \E w \in Workers : ProcessNext(w) \/ Cancel(w)

WPSpec == WPInit /\ [][WPNext]_wpVars /\ WDFairness

-----------------------------------------------------------------------------
(* What one end sends the other end reads, field by field, whichever       *)
(* version wrote it: fields more are ignored, optional ones that are       *)
(* missing read as None.  Only a float that is NaN or infinite does not    *)
(* travel: an optional field arrives as None, and with a required one (the *)
(* profile of a join) the whole message is lost at the other end, which    *)
(* drops it without an answer.  (messages.py: "unknown fields are ignored  *)
(* (additive evolution)"; types.py: "JSON-serialized".)                    *)
NonFinite(message) == {p \in DOMAIN message.body : message.body[p] = "nonfinite"}
Reads(union, message, frame) ==
    Parse(union, frame) =
        IF \E p \in NonFinite(message) : ~union[message.type][p].optional
        THEN Invalid
        ELSE [message EXCEPT !.body =
                [p \in DOMAIN @ |-> IF p \in NonFinite(message) THEN "null" ELSE @[p]]]
ReadsAsSent ==
    \A w \in Workers :
        LET x == onWire[w] IN
        /\ x.by = "Worker" => Reads(WorkerMessage, x.sent, x.frame)
        /\ x.by = "Master" => Reads(MasterMessage, x.sent, x.frame)

(* No frame is a message in both directions: a socket whose ends both take *)
(* themselves for Workers, or for Masters, carries nothing either of them  *)
(* acts on.  (messages.py: "a Worker only ever sends a type the Master can *)
(* name, and vice versa".)                                                 *)
DirectionsDisjoint ==
    \A w \in Workers :
        LET frame == onWire[w].frame IN
        parse_worker_message(frame) = Invalid \/ parse_master_message(frame) = Invalid

(* A Worker that was told to stop stops.  (operations.md: it "keeps trying *)
(* ... indefinitely until told to stop"; connect_once's finally.)          *)
ToldStops == \A w \in Workers : w \in told ~> pc[w] = "stopped"

=============================================================================
