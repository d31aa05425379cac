--------------------------- MODULE TrustAnchorProofs --------------------------
(***************************************************************************)
(* What TrustAnchor promises of the announced fingerprint and of the       *)
(* script's verdict holds for any number of key pairs and faults.          *)
(***************************************************************************)
EXTENDS TrustAnchor, TLAPS

(* What the key file, the running process and the log have in common.      *)
FileInv ==
    /\ cpc \in {"label", "print", "serve"} =>
          keyFile = cloudKey /\ cloudKey \in Keys
    /\ cpc \in {"generate", "truncate", "write"} =>
          announced = NoKey \/ disturbed
    /\ cpc = "serve" => announced = cloudKey
    /\ announced # NoKey => announced \in generated
    /\ log # NoKey => log = announced
    /\ keyFile \in Keys => keyFile \in generated

(* A key that is neither on file nor in use never comes back.              *)
Dead(k) ==
    /\ k \in generated
    /\ k # keyFile
    /\ cpc \notin {"down", "load", "generate"} => cloudKey # k

(* Whatever was announced before the last announcement is dead.  So is the *)
(* gateway's pin, if the script is about to replace it.                    *)
PinInv ==
    /\ pin \in Keys /\ pin # announced => Dead(pin)
    /\ spc \in {"truncate", "write", "up"} =>
          /\ fingerprint \in Keys
          /\ fingerprint # announced => Dead(fingerprint)
          /\ pin \in Keys /\ pin # fingerprint => Dead(pin)
    /\ spc = "up" => env = fingerprint
    /\ spc \in {"gateway", "session", "reading"} => pin = env

(* A session, and a reading, are evidence for the gateway's current pin.   *)
EvidenceInv ==
    session \/ stored => cpc = "serve" /\ pin = cloudKey

IInv ==
    /\ TypeOK
    /\ FileInv
    /\ AnnouncedIsDurable
    /\ PinInv
    /\ EvidenceInv

-----------------------------------------------------------------------------
(* Flags stay flags.                                                       *)
LEMMA FlagTypeStep ==
    ASSUME FlagTypes, [Next]_vars
    PROVE  FlagTypes'
<1> USE TrustAssumption DEF cloud, gateway, traffic, script, Fault, CloudGoto,
   ScriptGoto, StartCloud, FlagTypes
<1>1. CASE Load
  BY <1>1, Zenon DEF Load, Loads, AfterLoad
<1>2. CASE Generate
  BY <1>2, Zenon DEF Generate, SaveNext
<1>3. CASE Truncate \/ Write
  BY <1>3, Zenon DEF Truncate, Write
<1>4. CASE PrintLabel
  BY <1>4, Zenon DEF PrintLabel
<1>5. CASE PrintFingerprint
  BY <1>5, Zenon DEF PrintFingerprint
<1>6. CASE ReadError
  BY <1>6, Zenon DEF ReadError
<1>7. CASE CloudDies
  BY <1>7, Zenon DEF CloudDies
<1>8. CASE OperatorStartsCloud
  BY <1>8, Zenon DEF OperatorStartsCloud
<1>9. CASE Wipe
  BY <1>9, Zenon DEF Wipe
<1>10. CASE Establish
  BY <1>10, Zenon DEF Establish
<1>11. CASE Reading \/ SessionBreaks \/ RetryLoopEnds
  BY <1>11, Zenon DEF Reading, SessionBreaks, RetryLoopEnds
<1>12. CASE UpCloud
  BY <1>12, Zenon DEF UpCloud
<1>13. CASE CloudHealthy \/ Extract
  BY <1>13, Zenon DEF CloudHealthy, Extract
<1>14. CASE TruncateEnv \/ WriteEnv
  BY <1>14, Zenon DEF TruncateEnv, WriteEnv
<1>15. CASE UpAll
  BY <1>15, Zenon DEF UpAll
<1>16. CASE GatewayHealthy \/ SessionLogged \/ ReadingStored
  BY <1>16, Zenon DEF GatewayHealthy, SessionLogged, ReadingStored
<1>17. CASE GiveUp \/ RunAgain
  BY <1>17, Zenon DEF GiveUp, RunAgain
<1>18. CASE UNCHANGED vars
  BY <1>18, Zenon DEF vars
<1>19. QED
  BY <1>1, <1>2, <1>3, <1>4, <1>5, <1>6, <1>7, <1>8, <1>9, <1>10, <1>11,
     <1>12, <1>13, <1>14, <1>15, <1>16, <1>17, <1>18 DEF Next, CloudStep,
     ScriptStep

(* Every variable keeps its type.                                          *)
LEMMA StateTypeStep ==
    ASSUME StateTypes, FileInv, [Next]_vars
    PROVE  StateTypes'
<1> USE TrustAssumption DEF cloud, gateway, traffic, script, Fault, CloudGoto,
   ScriptGoto, StartCloud, StateTypes, MaybeKey, FileInv
<1>1. CASE Load
  BY <1>1 DEF Load, Loads, AfterLoad
<1>2. CASE Generate
  BY <1>2 DEF Generate, SaveNext
<1>3. CASE Truncate \/ Write
  BY <1>3 DEF Truncate, Write
<1>4. CASE PrintLabel
  BY <1>4 DEF PrintLabel
<1>5. CASE PrintFingerprint
  BY <1>5 DEF PrintFingerprint
<1>6. CASE ReadError
  BY <1>6 DEF ReadError
<1>7. CASE CloudDies
  BY <1>7 DEF CloudDies
<1>8. CASE OperatorStartsCloud
  BY <1>8 DEF OperatorStartsCloud
<1>9. CASE Wipe
  BY <1>9 DEF Wipe
<1>10. CASE Establish
  BY <1>10 DEF Establish
<1>11. CASE Reading \/ SessionBreaks \/ RetryLoopEnds
  BY <1>11 DEF Reading, SessionBreaks, RetryLoopEnds
<1>12. CASE UpCloud
  BY <1>12 DEF UpCloud
<1>13. CASE CloudHealthy \/ Extract
  BY <1>13 DEF CloudHealthy, Extract
<1>14. CASE TruncateEnv \/ WriteEnv
  BY <1>14 DEF TruncateEnv, WriteEnv
<1>15. CASE UpAll
  BY <1>15 DEF UpAll
<1>16. CASE GatewayHealthy \/ SessionLogged \/ ReadingStored
  BY <1>16 DEF GatewayHealthy, SessionLogged, ReadingStored
<1>17. CASE GiveUp \/ RunAgain
  BY <1>17 DEF GiveUp, RunAgain
<1>18. CASE UNCHANGED vars
  BY <1>18 DEF vars
<1>19. QED
  BY <1>1, <1>2, <1>3, <1>4, <1>5, <1>6, <1>7, <1>8, <1>9, <1>10, <1>11,
     <1>12, <1>13, <1>14, <1>15, <1>16, <1>17, <1>18 DEF Next, CloudStep,
     ScriptStep

(* The file, the process and the log keep step.                            *)
LEMMA FileStep ==
    ASSUME StateTypes, FileInv, AnnouncedIsDurable, [Next]_vars
    PROVE  FileInv'
<1> USE TrustAssumption DEF cloud, gateway, traffic, script, Fault, CloudGoto,
   ScriptGoto, StartCloud, StateTypes, MaybeKey, FileInv, AnnouncedIsDurable
<1>1. CASE Load
  BY <1>1 DEF Load, Loads, AfterLoad
<1>2. CASE Generate
  BY <1>2 DEF Generate, SaveNext
<1>3. CASE Truncate \/ Write
  BY <1>3 DEF Truncate, Write
<1>4. CASE PrintLabel
  BY <1>4 DEF PrintLabel
<1>5. CASE PrintFingerprint
  BY <1>5 DEF PrintFingerprint
<1>6. CASE ReadError
  BY <1>6 DEF ReadError
<1>7. CASE CloudDies
  BY <1>7 DEF CloudDies
<1>8. CASE OperatorStartsCloud
  BY <1>8 DEF OperatorStartsCloud
<1>9. CASE Wipe
  BY <1>9 DEF Wipe
<1>10. CASE Establish
  BY <1>10 DEF Establish
<1>11. CASE Reading \/ SessionBreaks \/ RetryLoopEnds
  BY <1>11 DEF Reading, SessionBreaks, RetryLoopEnds
<1>12. CASE UpCloud
  BY <1>12 DEF UpCloud
<1>13. CASE CloudHealthy \/ Extract
  BY <1>13 DEF CloudHealthy, Extract
<1>14. CASE TruncateEnv \/ WriteEnv
  BY <1>14 DEF TruncateEnv, WriteEnv
<1>15. CASE UpAll
  BY <1>15 DEF UpAll
<1>16. CASE GatewayHealthy \/ SessionLogged \/ ReadingStored
  BY <1>16 DEF GatewayHealthy, SessionLogged, ReadingStored
<1>17. CASE GiveUp \/ RunAgain
  BY <1>17 DEF GiveUp, RunAgain
<1>18. CASE UNCHANGED vars
  BY <1>18 DEF vars
<1>19. QED
  BY <1>1, <1>2, <1>3, <1>4, <1>5, <1>6, <1>7, <1>8, <1>9, <1>10, <1>11,
     <1>12, <1>13, <1>14, <1>15, <1>16, <1>17, <1>18 DEF Next, CloudStep,
     ScriptStep

(* No step takes an announced key off the file.                            *)
LEMMA DurableStep ==
    ASSUME StateTypes, FileInv, AnnouncedIsDurable, [Next]_vars
    PROVE  AnnouncedIsDurable'
<1> USE TrustAssumption DEF cloud, gateway, traffic, script, Fault, CloudGoto,
   ScriptGoto, StartCloud, StateTypes, MaybeKey, FileInv, AnnouncedIsDurable
<1>1. CASE Load
  BY <1>1 DEF Load, Loads, AfterLoad
<1>2. CASE Generate
  BY <1>2 DEF Generate, SaveNext
<1>3. CASE Truncate \/ Write
  BY <1>3 DEF Truncate, Write
<1>4. CASE PrintLabel
  BY <1>4 DEF PrintLabel
<1>5. CASE PrintFingerprint
  BY <1>5 DEF PrintFingerprint
<1>6. CASE ReadError
  BY <1>6 DEF ReadError
<1>7. CASE CloudDies
  BY <1>7 DEF CloudDies
<1>8. CASE OperatorStartsCloud
  BY <1>8 DEF OperatorStartsCloud
<1>9. CASE Wipe
  BY <1>9 DEF Wipe
<1>10. CASE Establish
  BY <1>10 DEF Establish
<1>11. CASE Reading \/ SessionBreaks \/ RetryLoopEnds
  BY <1>11 DEF Reading, SessionBreaks, RetryLoopEnds
<1>12. CASE UpCloud
  BY <1>12 DEF UpCloud
<1>13. CASE CloudHealthy \/ Extract
  BY <1>13 DEF CloudHealthy, Extract
<1>14. CASE TruncateEnv \/ WriteEnv
  BY <1>14 DEF TruncateEnv, WriteEnv
<1>15. CASE UpAll
  BY <1>15 DEF UpAll
<1>16. CASE GatewayHealthy \/ SessionLogged \/ ReadingStored
  BY <1>16 DEF GatewayHealthy, SessionLogged, ReadingStored
<1>17. CASE GiveUp \/ RunAgain
  BY <1>17 DEF GiveUp, RunAgain
<1>18. CASE UNCHANGED vars
  BY <1>18 DEF vars
<1>19. QED
  BY <1>1, <1>2, <1>3, <1>4, <1>5, <1>6, <1>7, <1>8, <1>9, <1>10, <1>11,
     <1>12, <1>13, <1>14, <1>15, <1>16, <1>17, <1>18 DEF Next, CloudStep,
     ScriptStep

(* A dead key stays dead.                                                  *)
LEMMA DeadStep ==
    ASSUME StateTypes, FileInv, [Next]_vars
    PROVE  \A k \in Keys : Dead(k) => Dead(k)'
<1> USE TrustAssumption DEF cloud, gateway, traffic, script, Fault, CloudGoto,
   ScriptGoto, StartCloud, StateTypes, MaybeKey, FileInv, Dead
<1>1. CASE Load
  BY <1>1 DEF Load, Loads, AfterLoad
<1>2. CASE Generate
  BY <1>2 DEF Generate, SaveNext
<1>3. CASE Truncate \/ Write
  BY <1>3 DEF Truncate, Write
<1>4. CASE PrintLabel
  BY <1>4 DEF PrintLabel
<1>5. CASE PrintFingerprint
  BY <1>5 DEF PrintFingerprint
<1>6. CASE ReadError
  BY <1>6 DEF ReadError
<1>7. CASE CloudDies
  BY <1>7 DEF CloudDies
<1>8. CASE OperatorStartsCloud
  BY <1>8 DEF OperatorStartsCloud
<1>9. CASE Wipe
  BY <1>9 DEF Wipe
<1>10. CASE Establish
  BY <1>10 DEF Establish
<1>11. CASE Reading \/ SessionBreaks \/ RetryLoopEnds
  BY <1>11 DEF Reading, SessionBreaks, RetryLoopEnds
<1>12. CASE UpCloud
  BY <1>12 DEF UpCloud
<1>13. CASE CloudHealthy \/ Extract
  BY <1>13 DEF CloudHealthy, Extract
<1>14. CASE TruncateEnv \/ WriteEnv
  BY <1>14 DEF TruncateEnv, WriteEnv
<1>15. CASE UpAll
  BY <1>15 DEF UpAll
<1>16. CASE GatewayHealthy \/ SessionLogged \/ ReadingStored
  BY <1>16 DEF GatewayHealthy, SessionLogged, ReadingStored
<1>17. CASE GiveUp \/ RunAgain
  BY <1>17 DEF GiveUp, RunAgain
<1>18. CASE UNCHANGED vars
  BY <1>18 DEF vars
<1>19. QED
  BY <1>1, <1>2, <1>3, <1>4, <1>5, <1>6, <1>7, <1>8, <1>9, <1>10, <1>11,
     <1>12, <1>13, <1>14, <1>15, <1>16, <1>17, <1>18 DEF Next, CloudStep,
     ScriptStep

(* Pins and fingerprints are current or dead.                              *)
LEMMA PinStep ==
    ASSUME StateTypes, FileInv, PinInv, [Next]_vars
    PROVE  PinInv'
<1> USE TrustAssumption DEF cloud, gateway, traffic, script, Fault, CloudGoto,
   ScriptGoto, StartCloud, StateTypes, MaybeKey, FileInv, PinInv
<1>1. CASE Load
  BY DeadStep, <1>1 DEF Load
<1>2. CASE Generate
  BY DeadStep, <1>2 DEF Generate
<1>3. CASE Truncate \/ Write
  BY DeadStep, <1>3 DEF Truncate, Write
<1>4. CASE PrintLabel
  BY DeadStep, <1>4 DEF PrintLabel
<1>5. CASE PrintFingerprint
  BY DeadStep, <1>5 DEF PrintFingerprint, Dead
<1>6. CASE ReadError
  BY DeadStep, <1>6 DEF ReadError
<1>7. CASE CloudDies
  BY DeadStep, <1>7 DEF CloudDies
<1>8. CASE OperatorStartsCloud
  BY DeadStep, <1>8 DEF OperatorStartsCloud
<1>9. CASE Wipe
  BY DeadStep, <1>9 DEF Wipe
<1>10. CASE Establish
  BY DeadStep, <1>10 DEF Establish
<1>11. CASE Reading \/ SessionBreaks \/ RetryLoopEnds
  BY DeadStep, <1>11 DEF Reading, SessionBreaks, RetryLoopEnds
<1>12. CASE UpCloud
  BY DeadStep, <1>12 DEF UpCloud
<1>13. CASE CloudHealthy \/ Extract
  BY DeadStep, <1>13 DEF CloudHealthy, Extract
<1>14. CASE TruncateEnv \/ WriteEnv
  BY DeadStep, <1>14 DEF TruncateEnv, WriteEnv
<1>15. CASE UpAll
  BY DeadStep, <1>15 DEF UpAll
<1>16. CASE GatewayHealthy \/ SessionLogged \/ ReadingStored
  BY DeadStep, <1>16 DEF GatewayHealthy, SessionLogged, ReadingStored
<1>17. CASE GiveUp \/ RunAgain
  BY DeadStep, <1>17 DEF GiveUp, RunAgain
<1>18. CASE UNCHANGED vars
  BY DeadStep, <1>18 DEF vars
<1>19. QED
  BY DeadStep, <1>1, <1>2, <1>3, <1>4, <1>5, <1>6, <1>7, <1>8, <1>9,
     <1>10, <1>11, <1>12, <1>13, <1>14, <1>15, <1>16, <1>17, <1>18
  DEF Next, CloudStep, ScriptStep

(* Evidence stays evidence for the current pin.                            *)
LEMMA EvidenceStep ==
    ASSUME StateTypes, FileInv, PinInv, EvidenceInv, [Next]_vars
    PROVE  EvidenceInv'
<1> USE TrustAssumption DEF cloud, gateway, traffic, script, Fault, CloudGoto,
   ScriptGoto, StartCloud, StateTypes, MaybeKey, EvidenceInv
<1>1. CASE Load
  BY <1>1 DEF Load
<1>2. CASE Generate
  BY <1>2 DEF Generate
<1>3. CASE Truncate \/ Write
  BY <1>3 DEF Truncate, Write
<1>4. CASE PrintLabel
  BY <1>4 DEF PrintLabel
<1>5. CASE PrintFingerprint
  BY <1>5 DEF PrintFingerprint
<1>6. CASE ReadError
  BY <1>6 DEF ReadError
<1>7. CASE CloudDies
  BY <1>7 DEF CloudDies
<1>8. CASE OperatorStartsCloud
  BY <1>8 DEF OperatorStartsCloud
<1>9. CASE Wipe
  BY <1>9 DEF Wipe
<1>10. CASE Establish
  BY <1>10 DEF Establish
<1>11. CASE Reading \/ SessionBreaks \/ RetryLoopEnds
  BY <1>11 DEF Reading, SessionBreaks, RetryLoopEnds
<1>12. CASE UpCloud
  BY <1>12 DEF UpCloud
<1>13. CASE CloudHealthy \/ Extract
  BY <1>13 DEF CloudHealthy, Extract
<1>14. CASE TruncateEnv \/ WriteEnv
  BY <1>14 DEF TruncateEnv, WriteEnv
<1>15. CASE UpAll
  BY <1>15 DEF UpAll, PinInv, Dead
<1>16. CASE GatewayHealthy \/ SessionLogged \/ ReadingStored
  BY <1>16 DEF GatewayHealthy, SessionLogged, ReadingStored
<1>17. CASE GiveUp \/ RunAgain
  BY <1>17 DEF GiveUp, RunAgain
<1>18. CASE UNCHANGED vars
  BY <1>18 DEF vars
<1>19. QED
  BY <1>1, <1>2, <1>3, <1>4, <1>5, <1>6, <1>7, <1>8, <1>9, <1>10, <1>11,
     <1>12, <1>13, <1>14, <1>15, <1>16, <1>17, <1>18 DEF Next, CloudStep,
     ScriptStep

LEMMA InitInv == Init => IInv
<1>1. Init => FlagTypes
  BY Zenon DEF Init, FlagTypes
<1>2. Init => StateTypes /\ FileInv /\ AnnouncedIsDurable /\ PinInv
  BY TrustAssumption DEF Init, StateTypes, MaybeKey, FileInv,
     AnnouncedIsDurable, PinInv
<1>3. Init => EvidenceInv
  BY Zenon DEF Init, EvidenceInv
<1>4. QED
  BY <1>1, <1>2, <1>3 DEF IInv, TypeOK

LEMMA StepInv == IInv /\ [Next]_vars => IInv'
BY StateTypeStep, FlagTypeStep, FileStep, DurableStep, PinStep,
   EvidenceStep DEF IInv, TypeOK

LEMMA Invariance == Spec => []IInv
BY InitInv, StepInv, PTL DEF Spec

(* Only the last step of the script reports success.                       *)
LEMMA DoneStep ==
    ASSUME IInv, [Next]_vars, spc' = "done", spc # "done"
    PROVE  pin = env /\ pin = cloudKey
<1>1. ReadingStored
  BY DEF Next, vars, CloudStep, ScriptStep, cloud, gateway, traffic, script,
     Fault, CloudGoto, ScriptGoto, StartCloud, Load, Generate, Truncate,
     Write, PrintLabel, PrintFingerprint, ReadError, CloudDies,
     OperatorStartsCloud, Wipe, Establish, Reading, SessionBreaks,
     RetryLoopEnds, UpCloud, CloudHealthy, Extract, TruncateEnv, WriteEnv,
     UpAll, GatewayHealthy, SessionLogged, GiveUp, RunAgain
<1>2. QED
  BY <1>1 DEF ReadingStored, ScriptGoto, Evidence, IInv, PinInv, EvidenceInv

-----------------------------------------------------------------------------
(* Every variable has its type, and a serving cloud has a key.             *)
THEOREM TypeCorrect == Spec => []TypeOK
BY Invariance, PTL DEF IInv

(* An announced fingerprint is that of the key on file, whenever the cloud *)
(* dies, unless reading the file has failed.                               *)
THEOREM Durable == Spec => []AnnouncedIsDurable
BY Invariance, PTL DEF IInv

(* The script reports success only for the pin of the running cloud's key. *)
THEOREM PinnedWhenDone == Spec => DoneMeansPinned
<1>1. IInv /\ [Next]_vars =>
         [spc' = "done" /\ spc # "done" => pin = env /\ pin = cloudKey]_vars
  BY DoneStep
<1>2. QED
  BY <1>1, Invariance, PTL DEF Spec, DoneMeansPinned
=============================================================================
