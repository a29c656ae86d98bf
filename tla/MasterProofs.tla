---------------------------- MODULE MasterProofs ----------------------------
(***************************************************************************)
(* Theorems about MasterCert, for every number of keys, restarts, crashes  *)
(* and rotations, and with them about Master: it behaves as its token      *)
(* service and as its certificate do, and tokens find the certificate they *)
(* pin.                                                                    *)
(***************************************************************************)
EXTENDS Master, TokenServiceProofs, FiniteSetTheorems

(* The certificate.                                                        *)
Generating == {"key", "keyOpen", "cert", "certOpen"}

\* A generation never runs beside a complete certificate, and the certificate
\* is written only once the key in memory is on disk.
GenerationOrder ==
    /\ pc \in Generating => certFile \notin Nat /\ made > 0
    /\ pc \in {"cert", "certOpen"} => keyFile = made
    /\ certFile \in Nat => certFile \in 1..KeyBound

\* Tokens have the fingerprint of the certificate that is on disk.
EmbeddedIsOnDisk == embedded # {} => certFile \in Nat /\ embedded = {certFile}

\* The files are loaded only when both exist.
LoadsWhatExists == pc \in {"load", "failed"} => certFile # NoFile

\* CertHasItsKey alone is not inductive: it must be known that a complete
\* certificate is never beside a key that is about to be overwritten.
CertInv ==
    /\ CertTypeOK
    /\ CertHasItsKey
    /\ GenerationOrder
    /\ EmbeddedIsOnDisk
    /\ LoadsWhatExists
    /\ RaisesOnlyOnTornCert

(* An empty directory satisfies the invariant.                             *)
LEMMA CertInvInit == CertInit => CertInv
BY KeyBoundAssumption, NoContentsAssumption
DEF CertInit, CertInv, CertTypeOK, FileState, CertHasItsKey, GenerationOrder,
    EmbeddedIsOnDisk, Generating, LoadsWhatExists, RaisesOnlyOnTornCert

(* ensure_cert generates only where no complete certificate is on disk.    *)
LEMMA GeneratesWithoutCert == CertInv /\ MustGenerate => certFile \notin Nat
BY NoContentsAssumption DEF CertInv, CertHasItsKey, MustGenerate

(* Every step of a start-up, a crash and a rotation preserve it.           *)
LEMMA CertInvStep == CertInv /\ [CertNext]_certVars => CertInv'
<1> SUFFICES ASSUME CertInv, [CertNext]_certVars PROVE CertInv'
    OBVIOUS
<1> USE NoContentsAssumption, KeyBoundAssumption
    DEF CertInv, CertTypeOK, FileState, CertHasItsKey, GenerationOrder,
        EmbeddedIsOnDisk, Generating, LoadsWhatExists, RaisesOnlyOnTornCert
<1>1. CASE Boot
    BY <1>1, GeneratesWithoutCert DEF Boot, MustGenerate
<1>2. CASE OpenKey
    BY <1>2 DEF OpenKey
<1>3. CASE WriteKey
    BY <1>3 DEF WriteKey
<1>4. CASE OpenCert
    BY <1>4 DEF OpenCert
<1>5. CASE WriteCert
    BY <1>5 DEF WriteCert
<1>6. CASE Load
    BY <1>6 DEF Load, Loadable
<1>7. CASE LoadRaises
    BY <1>7 DEF LoadRaises, Loadable
<1>8. CASE Stop
    BY <1>8 DEF Stop
<1>9. CASE Rotate
    BY <1>9 DEF Rotate
<1>10. CASE UNCHANGED certVars
    BY <1>10 DEF certVars
<1> QED
    BY <1>1, <1>2, <1>3, <1>4, <1>5, <1>6, <1>7, <1>8, <1>9, <1>10 DEF CertNext

(* One certificate on disk means one fingerprint in tokens.                *)
LEMMA OnDiskIsOne == EmbeddedIsOnDisk => FingerprintStable
<1> SUFFICES ASSUME EmbeddedIsOnDisk PROVE FingerprintStable
    OBVIOUS
<1>1. CASE embedded = {}
    BY <1>1, FS_EmptySet DEF FingerprintStable
<1>2. CASE embedded = {certFile}
    <2>1. Cardinality({certFile}) = 1
        BY FS_Singleton, Zenon
    <2> QED BY <1>2, <2>1 DEF FingerprintStable
<1> QED BY <1>1, <1>2 DEF EmbeddedIsOnDisk

(* The invariant holds in every reachable state of the files.              *)
THEOREM CertInvariant == CertSpec => []CertInv
BY CertInvInit, CertInvStep, PTL DEF CertSpec

(* ensure_cert: between two rotations the fingerprint that tokens embed is *)
(* one and the same, wherever earlier start-ups died.                      *)
THEOREM StableTheorem == CertSpec => []FingerprintStable
<1>1. CertInv => FingerprintStable
    BY OnDiskIsOne DEF CertInv
<1> QED BY <1>1, CertInvariant, PTL

(* _generate_cert: a complete certificate has its own key beside it.       *)
THEOREM PairedTheorem == CertSpec => []CertHasItsKey
<1>1. CertInv => CertHasItsKey
    BY DEF CertInv
<1> QED BY <1>1, CertInvariant, PTL

(* ensure_cert: of all the half-finished generations, only one that died   *)
(* between emptying and writing the certificate makes a start-up fail.     *)
THEOREM TornTheorem == CertSpec => []RaisesOnlyOnTornCert
<1>1. CertInv => RaisesOnlyOnTornCert
    BY DEF CertInv
<1> QED BY <1>1, CertInvariant, PTL

-----------------------------------------------------------------------------
(* The Master.                                                             *)

(* A step of a Master is a step of each part, or leaves the part alone.    *)
LEMMA PartsStep == [MasterNext]_masterVars => [CertNext]_certVars /\ [TokNext]_tokVars
BY DEF MasterNext, masterVars, Prepare, Assemble, Serving, Halt, ReplaceCert, CertNext, TokNext

(* A Master behaves as its certificate files and as its token service:     *)
(* what is proved of either module holds of a Master.                      *)
THEOREM MasterImplementsParts == MasterSpec => CertSpec /\ TokSpec
<1>1. MasterInit => CertInit /\ TokInit
    BY DEF MasterInit
<1> QED BY <1>1, PartsStep, PTL DEF MasterSpec, CertSpec, TokSpec

-----------------------------------------------------------------------------
\* While it serves, the fingerprint in memory is that of the file.
ServesItsFile ==
    /\ fp \in 0..KeyBound
    /\ up <=> pc = "serving"
    /\ pc = "serving" => certFile \in Nat /\ fp = certFile /\ fp \in embedded

\* Keys are numbered in the order they were made; the pins of the tokens that
\* were handed out are among them.
PinsWereMade ==
    /\ certFile \in Nat => certFile \in 1..made
    /\ pin \in [Tokens -> 0..KeyBound]
    /\ \A t \in handedOut : pin[t] \in 1..made

\* A token of this rotation has a fingerprint that this rotation served; an older
\* one has that of a key made before the one on disk, or on its way there.
PinsByRotation ==
    /\ old \subseteq handedOut
    /\ \A t \in handedOut \ old : pin[t] \in embedded
    /\ \A t \in old :
        /\ certFile \in Nat => pin[t] < certFile
        /\ pc \in Generating => pin[t] < made

\* PinsServed alone says nothing of a Master that is down or generates a key.
PinInv == TokInv /\ CertInv /\ ServesItsFile /\ PinsWereMade /\ PinsByRotation

(* A Master that was never started satisfies the invariant.                *)
LEMMA PinInvInit == MasterInit => PinInv
<1>1. MasterInit => TokInv /\ CertInv
    BY CertInvInit, TokInvInit DEF MasterInit
<1>2. MasterInit => ServesItsFile /\ PinsWereMade /\ PinsByRotation
    BY NoContentsAssumption, KeyBoundAssumption
    DEF MasterInit, TokInit, CertInit, ServesItsFile, PinsWereMade, PinsByRotation
<1> QED BY <1>1, <1>2 DEF PinInv

(* Every step of a Master preserves it.                                    *)
LEMMA PinInvStep == PinInv /\ [MasterNext]_masterVars => PinInv'
<1> SUFFICES ASSUME PinInv, [MasterNext]_masterVars PROVE PinInv'
    OBVIOUS
<1>1. TokInv' /\ CertInv'
    BY PartsStep, TokNextIsStep, TokInvStep, CertInvStep DEF PinInv
<1> DEFINE Pins == ServesItsFile /\ PinsWereMade /\ PinsByRotation
<1> USE NoContentsAssumption, KeyBoundAssumption
    DEF PinInv, ServesItsFile, PinsWereMade, PinsByRotation, Generating
<1>2. CASE Prepare
    <2>1. UNCHANGED <<fp, pin, old, handedOut, up>>
        BY <1>2 DEF Prepare, tokVars
    <2>2. CASE Boot
        <3>1. MustGenerate => old = handedOut
            BY GeneratesWithoutCert DEF CertInv, EmbeddedIsOnDisk
        <3> QED BY <2>1, <2>2, <3>1, <1>1 DEF Boot, CertInv, CertTypeOK
    <2>3. CASE OpenKey \/ WriteKey \/ OpenCert
        BY <2>1, <2>3, <1>1 DEF OpenKey, WriteKey, OpenCert, CertInv, CertTypeOK
    <2>4. CASE WriteCert
        BY <2>1, <2>4, <1>1 DEF WriteCert, CertInv, CertTypeOK, GenerationOrder
    <2>5. CASE LoadRaises
        BY <2>1, <2>5, <1>1 DEF LoadRaises
    <2> QED BY <1>2, <2>2, <2>3, <2>4, <2>5 DEF Prepare
<1>3. CASE Assemble
    BY <1>3, <1>1 DEF Assemble, Load, Loadable, TokStart, CertInv, CertTypeOK, GenerationOrder
<1>4. CASE Serving
    <2>1. handedOut \subseteq handedOut' /\ up' = up /\ (~up => handedOut' = handedOut)
        BY <1>4 DEF Serving, TokAdmin, Issue, IssueFails, Revoke, RevokeStoreError, Expire,
                    Admit, Release
    <2>2. handedOut' \subseteq Tokens
        BY <1>1 DEF TokInv, TokTypeOK
    <2>3. UNCHANGED <<certVars, fp, old>>
        BY <1>4 DEF Serving
    <2>4. pin' = [t \in Tokens |-> IF t \in handedOut' \ handedOut THEN fp ELSE pin[t]]
        BY <1>4 DEF Serving
    <2> QED BY <1>1, <2>1, <2>2, <2>3, <2>4 DEF certVars
<1>5. CASE Halt
    <2>1. handedOut' = handedOut /\ ~up'
        BY <1>5 DEF Halt, TokCrash, TokCrashInCall, IssueThenCrash, RevokeThenCrash, MemoryLost,
                    tokVars
    <2> QED BY <1>1, <1>5, <2>1 DEF Halt, Stop
<1>6. CASE ReplaceCert
    BY <1>1, <1>6 DEF ReplaceCert, Rotate, tokVars
<1>7. CASE UNCHANGED masterVars
    BY <1>1, <1>7 DEF masterVars, tokVars, certVars
<1> QED BY <1>2, <1>3, <1>4, <1>5, <1>6, <1>7 DEF MasterNext

(* The invariant holds in every reachable state of a Master.               *)
THEOREM PinInvariant == MasterSpec => []PinInv
BY PinInvInit, PinInvStep, PTL DEF MasterSpec

(* Every variable of a Master keeps its type, the TokenService exists      *)
(* exactly while the Master serves, and a rotation only makes old what was *)
(* handed out.                                                             *)
THEOREM MasterTypes == MasterSpec => []MasterTypeOK
<1>1. PinInv => MasterTypeOK
    BY DEF PinInv, TokInv, CertInv, ServesItsFile, PinsWereMade, PinsByRotation, MasterTypeOK
<1> QED BY <1>1, PinInvariant, PTL

(* issue and ensure_cert: a token finds the certificate it pins until the  *)
(* certificate is rotated, and never after, through any number of deaths   *)
(* of the Master at any point.                                             *)
THEOREM PinsTheorem == MasterSpec => []PinsServed
<1>1. PinInv => PinsServed
    <2> SUFFICES ASSUME PinInv, pc = "serving", NEW t \in handedOut
                 PROVE  pin[t] = certFile <=> t \notin old
        BY DEF PinsServed
    <2>1. certFile \in Nat /\ embedded = {certFile}
        BY DEF PinInv, ServesItsFile, CertInv, EmbeddedIsOnDisk
    <2>2. t \notin old => pin[t] = certFile
        BY <2>1 DEF PinInv, PinsByRotation
    <2>3. t \in old => pin[t] < certFile /\ pin[t] \in Nat
        BY <2>1 DEF PinInv, PinsByRotation, PinsWereMade
    <2> QED BY <2>1, <2>2, <2>3
<1> QED BY <1>1, PinInvariant, PTL
=============================================================================
