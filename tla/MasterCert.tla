----------------------------- MODULE MasterCert -----------------------------
(***************************************************************************)
(* The Master's certificate on disk: ensure_cert, _generate_cert and       *)
(* server_ssl_context of master/server.py, over restarts.                  *)
(*                                                                         *)
(* A key is a number, and so is the certificate signed with it and the     *)
(* fingerprint of that certificate.  write_bytes opens the file, which     *)
(* empties it, and then writes: a process that dies in between leaves a    *)
(* file that exists and holds nothing.  File modes are left out.           *)
(***************************************************************************)
EXTENDS Integers, FiniteSets

CONSTANTS
    NoFile,    \* the path does not exist
    Emptied,   \* the file exists and has no contents yet
    KeyBound   \* bound: keys ever generated

ASSUME NoContentsAssumption == NoFile \notin Nat /\ Emptied \notin Nat
ASSUME KeyBoundAssumption == KeyBound \in Nat

VARIABLES
    pc,         \* where the Master's start-up is
    keyFile,    \* master-key.pem
    certFile,   \* master-cert.pem
    made,       \* keys generated so far: the latest is the one in memory
    embedded    \* history: fingerprints tokens got since the last rotation

certVars == <<pc, keyFile, certFile, made, embedded>>

FileState == Nat \cup {NoFile, Emptied}

CertTypeOK ==
    /\ pc \in {"down", "key", "keyOpen", "cert", "certOpen", "load", "serving", "failed"}
    /\ keyFile \in FileState
    /\ certFile \in FileState
    /\ made \in 0..KeyBound
    /\ embedded \subseteq 1..KeyBound

CertInit ==
    /\ pc = "down"
    /\ keyFile = NoFile
    /\ certFile = NoFile
    /\ made = 0
    /\ embedded = {}

-----------------------------------------------------------------------------
\* ensure_cert: generate unless both files exist.
MustGenerate_Always == TRUE
MustGenerate_KeyMissing == keyFile = NoFile
MustGenerate == ~(keyFile # NoFile /\ certFile # NoFile)

Boot ==
    /\ pc = "down"
    /\ pc' = IF MustGenerate THEN "key" ELSE "load"
    /\ made' = IF MustGenerate THEN made + 1 ELSE made
    /\ made' <= KeyBound
    /\ UNCHANGED <<keyFile, certFile, embedded>>

\* _generate_cert: the key is written first, then the certificate.
OpenKey_KeepsOld ==
    /\ pc = "key"
    /\ pc' = IF keyFile \in Nat THEN "cert" ELSE "keyOpen"
    /\ keyFile' = IF keyFile \in Nat THEN keyFile ELSE Emptied
    /\ UNCHANGED <<certFile, made, embedded>>
OpenKey ==
    /\ pc = "key"
    /\ pc' = "keyOpen"
    /\ keyFile' = Emptied
    /\ UNCHANGED <<certFile, made, embedded>>

WriteKey ==
    /\ pc = "keyOpen"
    /\ pc' = "cert"
    /\ keyFile' = made
    /\ UNCHANGED <<certFile, made, embedded>>

OpenCert ==
    /\ pc = "cert"
    /\ pc' = "certOpen"
    /\ certFile' = Emptied
    /\ UNCHANGED <<keyFile, made, embedded>>

WriteCert ==
    /\ pc = "certOpen"
    /\ pc' = "load"
    /\ certFile' = made
    /\ UNCHANGED <<keyFile, made, embedded>>

\* fingerprint_of reads the certificate, load_cert_chain both files; a pair
\* that does not match or does not parse makes one of them raise.
Loadable == certFile \in Nat /\ keyFile = certFile
Load ==
    /\ pc = "load"
    /\ Loadable
    /\ pc' = "serving"
    /\ embedded' = embedded \cup {certFile}
    /\ UNCHANGED <<keyFile, certFile, made>>

LoadRaises ==
    /\ pc = "load"
    /\ ~Loadable
    /\ pc' = "failed"
    /\ UNCHANGED <<keyFile, certFile, made, embedded>>

\* The process stops or dies, at any of these points.
Stop ==
    /\ pc # "down"
    /\ pc' = "down"
    /\ UNCHANGED <<keyFile, certFile, made, embedded>>

\* operations.md 1.5: the operator removes both files while the Master is down.
Rotate ==
    /\ pc = "down"
    /\ made < KeyBound
    /\ keyFile' = NoFile
    /\ certFile' = NoFile
    /\ embedded' = {}
    /\ UNCHANGED <<pc, made>>

CertNext ==
    \/ Boot \/ OpenKey \/ WriteKey \/ OpenCert \/ WriteCert
    \/ Load \/ LoadRaises \/ Stop \/ Rotate

CertSpec == CertInit /\ [][CertNext]_certVars

-----------------------------------------------------------------------------
(* Between two rotations the Master presents one fingerprint, in spite of  *)
(* any number of restarts and crashes in the middle of the generation: the *)
(* tokens that embed it stay valid.  (ensure_cert: "the fingerprint is     *)
(* stable across restarts".)                                               *)
FingerprintStable == Cardinality(embedded) <= 1

(* A certificate that is complete on disk has its own key beside it, also  *)
(* when an earlier generation died half way and left a key of its own.     *)
(* (_generate_cert: the key is overwritten before the certificate.)        *)
CertHasItsKey == certFile \in Nat => keyFile = certFile

(* The one thing that keeps a start-up from loading its files is a         *)
(* certificate that an earlier start-up emptied and died before writing:   *)
(* a half-written key or a lone key is generated anew.                     *)
(* (ensure_cert: exists() of both files decides.)                          *)
RaisesOnlyOnTornCert == pc = "failed" => certFile = Emptied
=============================================================================
