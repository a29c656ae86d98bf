------------------------------- MODULE Master -------------------------------
(***************************************************************************)
(* A Master from its certificate up, as scripts/manual/t07_ws.py and the   *)
(* integration tests put it together: ensure_cert, then a TokenService     *)
(* that gets the fingerprint, then a server that loads the same files.     *)
(* The signing key and the fingerprint are injected: tokens outlive the    *)
(* process, and each names the certificate that it was minted under.       *)
(*                                                                         *)
(* The module composes MasterCert and TokenService, whose steps are joint  *)
(* where the process starts and where it dies.                             *)
(***************************************************************************)
EXTENDS TokenService, MasterCert

VARIABLES
    fp,      \* in memory: the fingerprint that TokenService was given
    pin,     \* history: the master_cert_fp claim of each token, 0 for none
    old      \* history: tokens handed out before the last rotation

masterVars == <<tokVars, certVars, fp, pin, old>>

MasterTypeOK ==
    /\ TokTypeOK
    /\ CertTypeOK
    /\ fp \in 0..KeyBound
    /\ pin \in [Tokens -> 0..KeyBound]
    /\ old \subseteq handedOut
    /\ up <=> pc = "serving"

MasterInit ==
    /\ TokInit
    /\ CertInit
    /\ fp = 0
    /\ pin = [t \in Tokens |-> 0]
    /\ old = {}

-----------------------------------------------------------------------------
\* ensure_cert at work: nothing else exists yet.
Prepare ==
    /\ Boot \/ OpenKey \/ WriteKey \/ OpenCert \/ WriteCert \/ LoadRaises
    /\ UNCHANGED <<tokVars, fp, pin, old>>

\* The files are loaded, and TokenService is built with their fingerprint.
Assemble ==
    /\ Load
    /\ TokStart
    /\ fp' = certFile
    /\ UNCHANGED <<pin, old>>

\* The operator's calls and the server's, while it runs; exp passes any time.
\* issue() writes the fingerprint into the claims.
Serving ==
    /\ \/ TokAdmin
       \/ \E t \in handedOut : live[t] < LiveBound /\ Admit(t)
       \/ \E t \in Tokens : Release(t)
    /\ pin' = [t \in Tokens |-> IF t \in handedOut' \ handedOut THEN fp ELSE pin[t]]
    /\ UNCHANGED <<certVars, fp, old>>

\* The process dies, in a start-up, between calls or in the middle of one.
Halt ==
    /\ Stop
    /\ IF up THEN TokCrash \/ TokCrashInCall ELSE UNCHANGED tokVars
    /\ fp' = 0
    /\ UNCHANGED <<pin, old>>

\* The operator's rotation: both files removed, the data kept.
ReplaceCert ==
    /\ Rotate
    /\ old' = handedOut
    /\ UNCHANGED <<tokVars, fp, pin>>

MasterNext == Prepare \/ Assemble \/ Serving \/ Halt \/ ReplaceCert

MasterSpec == MasterInit /\ [][MasterNext]_masterVars

-----------------------------------------------------------------------------
(* A Worker that holds a token finds the certificate it pins, unless the   *)
(* certificate was rotated since, and then it never does: no restart and   *)
(* no death in the middle of a start-up parts a token from its Master.     *)
(* (operations.md 1.5: "all tokens become unusable when the cert changes"; *)
(* ensure_cert: "the fingerprint is stable across restarts".)              *)
PinsServed ==
    pc = "serving" => \A t \in handedOut : pin[t] = certFile <=> t \notin old
=============================================================================
