----------------------------- MODULE TrustAnchor -----------------------------
(***************************************************************************)
(* How the gateway comes to trust the cloud's key: the key file of         *)
(* load_or_generate_keypair and main in src/cloud/cloud.py, the            *)
(* fingerprint main logs, and src/scripts/docker_bootstrap.py, which reads *)
(* it off the log, writes it to .env and starts the gateway with it.       *)
(*                                                                         *)
(* The cloud may die between any two steps; so may the script.  Nothing    *)
(* restarts the cloud but docker compose up -d, by the script or by an     *)
(* operator.  Docker Compose itself, the gateway and the device are        *)
(* modelled by what the script relies on: up -d starts what is not running *)
(* and recreates a gateway whose pin has changed; it then waits for the    *)
(* gateway's health page, which is served from the first session on and    *)
(* answers 200 whatever its status.  How the gateway establishes a session *)
(* is the subject of SessionSetup; here it takes the right pin.            *)
(***************************************************************************)
EXTENDS Naturals

CONSTANTS
    Keys,       \* bound: key pairs that can be generated
    NoKey,      \* no key, no fingerprint
    MaxFaults   \* bound: crashes, errors, wipes, lost sessions, timeouts

ASSUME TrustAssumption ==
    /\ {NoKey, "missing", "empty"} \cap Keys = {}
    /\ MaxFaults \in Nat

VARIABLES
    keyFile,     \* contents of CLOUD_KEY_FILE: "missing", "empty" or a key
    generated,   \* key pairs generated so far
    cpc,         \* where the cloud's main is
    cloudKey,    \* the key pair of the running process
    log,         \* what follows the last label in the cloud's log
    sessionLine, \* the log has an "ML-KEM-768 session" line
    stored,      \* the running cloud has stored a reading
    gpc,         \* the gateway's container
    pin,         \* CLOUD_PUBLIC_KEY_SHA256 in that container
    session,     \* the gateway has a session with the running cloud
    env,         \* the fingerprint in .env
    spc,         \* where the script's main is
    fingerprint, \* the script's variable
    faults,      \* faults so far
    announced,   \* history: the fingerprint last logged since a wipe
    disturbed    \* history: reading the key file has failed since then

cloud   == <<keyFile, generated, cpc, cloudKey, log, announced, disturbed>>
gateway == <<gpc, pin>>
traffic == <<session, sessionLine, stored>>
script  == <<env, spc, fingerprint>>
vars    == <<cloud, gateway, traffic, script, faults>>

Fault == faults < MaxFaults /\ faults' = faults + 1

Init ==
    /\ keyFile = "missing" /\ generated = {} /\ cloudKey = NoKey
    /\ cpc = "down" /\ gpc = "absent" /\ spc = "start"
    /\ log = NoKey /\ announced = NoKey /\ disturbed = FALSE
    /\ sessionLine = FALSE /\ stored = FALSE /\ session = FALSE
    /\ pin = NoKey /\ env = NoKey /\ fingerprint = NoKey
    /\ faults = 0

-----------------------------------------------------------------------------
(* The cloud's main: load_or_generate_keypair, then the announcement, then *)
(* the health endpoint and the listener.                                   *)

CloudGoto(from, to) == cpc = from /\ cpc' = to

(* load_mlkem_private_key.                                                 *)
Loads(file) == file \in Keys

(* A ValueError is caught.  Mutant: a damaged file ends the process.       *)
AfterStrictLoad(file) ==
    CASE Loads(file)    -> "label"
      [] file = "empty" -> "down"
      [] OTHER          -> "generate"

AfterLoad(file) == IF Loads(file) THEN "label" ELSE "generate"

Load ==
    /\ cpc = "load"
    /\ cloudKey' = IF Loads(keyFile) THEN keyFile ELSE NoKey
    /\ cpc' = AfterLoad(keyFile)
    /\ UNCHANGED <<keyFile, generated, log, announced, disturbed, faults>>
    /\ UNCHANGED <<gateway, traffic, script>>

(* An existing file cannot be read for a moment: OSError is caught too.    *)
ReadError ==
    /\ keyFile # "missing"
    /\ CloudGoto("load", "generate")
    /\ Fault
    /\ disturbed' = TRUE
    /\ UNCHANGED <<keyFile, generated, cloudKey, log, announced>>
    /\ UNCHANGED <<gateway, traffic, script>>

(* A new pair is saved before it is announced.  Mutant: it is not saved.   *)
AnnounceNext == "label"
SaveNext     == "truncate"

Generate ==
    /\ CloudGoto("generate", SaveNext)
    /\ \E k \in Keys \ generated :
          cloudKey' = k /\ generated' = generated \cup {k}
    /\ UNCHANGED <<keyFile, log, announced, disturbed, faults>>
    /\ UNCHANGED <<gateway, traffic, script>>

(* The two halves of write_bytes in save_mlkem_private_key.                *)
Truncate ==
    /\ CloudGoto("truncate", "write")
    /\ keyFile' = "empty"
    /\ UNCHANGED <<generated, cloudKey, log, announced, disturbed, faults>>
    /\ UNCHANGED <<gateway, traffic, script>>

Write ==
    /\ CloudGoto("write", "label")
    /\ keyFile' = cloudKey
    /\ UNCHANGED <<generated, cloudKey, log, announced, disturbed, faults>>
    /\ UNCHANGED <<gateway, traffic, script>>

PrintLabel ==
    /\ CloudGoto("label", "print")
    /\ log' = NoKey
    /\ UNCHANGED <<keyFile, generated, cloudKey, announced, disturbed, faults>>
    /\ UNCHANGED <<gateway, traffic, script>>

PrintFingerprint ==
    /\ CloudGoto("print", "serve")
    /\ log' = cloudKey
    /\ announced' = cloudKey
    /\ disturbed' = FALSE
    /\ UNCHANGED <<keyFile, generated, cloudKey, faults>>
    /\ UNCHANGED <<gateway, traffic, script>>

CloudStep ==
    \/ Load \/ Generate \/ Truncate \/ Write
    \/ PrintLabel \/ PrintFingerprint

-----------------------------------------------------------------------------
(* Crashes of the cloud, and what the script and the operator do to it.    *)

CloudDies ==
    /\ cpc # "down"
    /\ Fault
    /\ cpc' = "down"
    /\ session' = FALSE
    /\ stored' = FALSE
    /\ UNCHANGED <<keyFile, generated, cloudKey, log, announced, disturbed>>
    /\ UNCHANGED <<gateway, sessionLine, script>>

StartCloud ==
    /\ CloudGoto("down", "load")
    /\ UNCHANGED <<keyFile, generated, cloudKey, log, announced, disturbed>>

OperatorStartsCloud ==
    /\ StartCloud
    /\ UNCHANGED <<gateway, traffic, script, faults>>

(* docker compose down -v: containers, their logs and the volume.          *)
Wipe ==
    /\ spc \in {"done", "failed"}
    /\ Fault
    /\ cpc' = "down" /\ keyFile' = "missing" /\ log' = NoKey
    /\ gpc' = "absent" /\ pin' = NoKey
    /\ session' = FALSE /\ sessionLine' = FALSE /\ stored' = FALSE
    /\ announced' = NoKey /\ disturbed' = FALSE
    /\ UNCHANGED <<generated, cloudKey, script>>

-----------------------------------------------------------------------------
(* The gateway's container and the readings that pass through it.          *)

Establish ==
    /\ gpc \in {"trying", "healthy"}
    /\ ~session
    /\ cpc = "serve"
    /\ pin = cloudKey
    /\ session' = TRUE
    /\ sessionLine' = TRUE
    /\ gpc' = "healthy"
    /\ UNCHANGED <<cloud, pin, stored, script, faults>>

Reading ==
    /\ session
    /\ ~stored
    /\ stored' = TRUE
    /\ UNCHANGED <<cloud, gateway, session, sessionLine, script, faults>>

SessionBreaks ==
    /\ session
    /\ Fault
    /\ session' = FALSE
    /\ UNCHANGED <<cloud, gateway, sessionLine, stored, script>>

(* The cloud hangs up in a handshake: the retry loop ends, and with it the *)
(* process unless it had got beyond its first session (see CloudChannel).  *)
RetryLoopEnds ==
    /\ gpc \in {"trying", "healthy"}
    /\ ~session
    /\ Fault
    /\ gpc' = IF gpc = "trying" THEN "exited" ELSE "stuck"
    /\ UNCHANGED <<cloud, pin, traffic, script>>

-----------------------------------------------------------------------------
(* The script's main.                                                      *)

ScriptGoto(from, to) == spc = from /\ spc' = to

(* up -d cloud.                                                            *)
UpCloud ==
    /\ ScriptGoto("start", "health")
    /\ StartCloud \/ (cpc # "down" /\ UNCHANGED cloud)
    /\ UNCHANGED <<gateway, traffic, env, fingerprint, faults>>

(* wait_until(cloud_health_ok): served only after the announcement.        *)
CloudHealthy ==
    /\ ScriptGoto("health", "extract")
    /\ cpc = "serve"
    /\ UNCHANGED <<cloud, gateway, traffic, env, fingerprint, faults>>

(* extract_fingerprint: the last label, or sys.exit.                       *)
Extract ==
    /\ ScriptGoto("extract", IF log = NoKey THEN "failed" ELSE "truncate")
    /\ fingerprint' = log
    /\ UNCHANGED <<cloud, gateway, traffic, env, faults>>

(* The two halves of ENV_FILE.write_text.                                  *)
TruncateEnv ==
    /\ ScriptGoto("truncate", "write")
    /\ env' = NoKey
    /\ UNCHANGED <<cloud, gateway, traffic, fingerprint, faults>>

WriteEnv ==
    /\ ScriptGoto("write", "up")
    /\ env' = fingerprint
    /\ UNCHANGED <<cloud, gateway, traffic, fingerprint, faults>>

(* up -d: the cloud first, then, once it is healthy, the gateway.          *)
UpAll ==
    /\ spc = "up"
    /\ \/ /\ StartCloud
          /\ UNCHANGED <<gateway, traffic, spc>>
       \/ /\ cpc = "serve"
          /\ spc' = "gateway"
          /\ IF gpc \in {"absent", "exited"} \/ pin # env
             THEN /\ gpc' = "trying" /\ pin' = env /\ session' = FALSE
                  /\ UNCHANGED <<sessionLine, stored>>
             ELSE UNCHANGED <<gateway, traffic>>
          /\ UNCHANGED cloud
    /\ UNCHANGED <<env, fingerprint, faults>>

GatewayHealthy ==
    /\ ScriptGoto("gateway", "session")
    /\ gpc \in {"healthy", "stuck"}
    /\ UNCHANGED <<cloud, gateway, traffic, env, fingerprint, faults>>

SessionLogged ==
    /\ ScriptGoto("session", "reading")
    /\ sessionLine
    /\ UNCHANGED <<cloud, gateway, traffic, env, fingerprint, faults>>

(* cloud_readings_count() >= 1.  Mutant: the log line is evidence enough.  *)
NoEvidence == TRUE
Evidence   == cpc = "serve" /\ stored

ReadingStored ==
    /\ ScriptGoto("reading", "done")
    /\ Evidence
    /\ UNCHANGED <<cloud, gateway, traffic, env, fingerprint, faults>>

ScriptStep ==
    \/ UpCloud \/ CloudHealthy \/ Extract \/ TruncateEnv \/ WriteEnv
    \/ UpAll \/ GatewayHealthy \/ SessionLogged \/ ReadingStored

(* A wait times out, or compose reports a failed container: because what   *)
(* it waits for cannot happen, or because of a fault (a slow machine; an   *)
(* interrupted script).                                                    *)
Hopeless ==
    \/ cpc = "down"
    \/ spc \in {"gateway", "session", "reading"} /\ ~session /\
       (pin # cloudKey \/ gpc \in {"absent", "exited", "stuck"})

GiveUp ==
    /\ spc \notin {"start", "done", "failed"}
    /\ \/ spc \in {"health", "gateway", "session", "reading"} /\ Hopeless /\
          UNCHANGED faults
       \/ Fault
    /\ spc' = "failed"
    /\ UNCHANGED <<cloud, gateway, traffic, env, fingerprint>>

(* Re-running the script is safe, says its docstring.                      *)
RunAgain ==
    /\ spc \in {"done", "failed"}
    /\ spc' = "start"
    /\ UNCHANGED <<cloud, gateway, traffic, env, fingerprint, faults>>

Next ==
    \/ CloudStep \/ ReadError \/ CloudDies \/ OperatorStartsCloud \/ Wipe
    \/ Establish \/ Reading \/ SessionBreaks \/ RetryLoopEnds
    \/ ScriptStep \/ GiveUp \/ RunAgain

Spec == Init /\ [][Next]_vars

(* Processes run; the gateway retries every 3 s and the device sends every *)
(* 5 s.  Faults, the operator and the script's timeouts need not happen.   *)
FairSpec ==
    /\ Spec
    /\ WF_vars(CloudStep)
    /\ WF_vars(ScriptStep)
    /\ WF_vars(Establish)
    /\ WF_vars(Reading)

-----------------------------------------------------------------------------
(* Properties.                                                             *)

MaybeKey == Keys \cup {NoKey}

FlagTypes ==
    /\ session \in BOOLEAN /\ sessionLine \in BOOLEAN
    /\ stored \in BOOLEAN /\ disturbed \in BOOLEAN

StateTypes ==
    /\ keyFile \in Keys \cup {"missing", "empty"}
    /\ generated \subseteq Keys
    /\ cpc \in {"down", "load", "generate", "truncate", "write", "label",
                "print", "serve"}
    /\ cloudKey \in MaybeKey
    /\ cpc \in {"truncate", "write", "label", "print", "serve"} =>
          cloudKey \in generated
    /\ log \in MaybeKey /\ announced \in MaybeKey
    /\ gpc \in {"absent", "trying", "healthy", "stuck", "exited"}
    /\ pin \in MaybeKey /\ env \in MaybeKey /\ fingerprint \in MaybeKey
    /\ spc \in {"start", "health", "extract", "truncate", "write", "up",
                "gateway", "session", "reading", "done", "failed"}
    /\ faults \in 0 .. MaxFaults

(* Every variable has its type, and a serving cloud has a key.             *)
TypeOK == StateTypes /\ FlagTypes

(* A fingerprint that was announced is that of the key on file, wherever   *)
(* the cloud died and however often it started: nobody is given a pin that *)
(* the next start makes worthless, unless a read of the file fails.        *)
AnnouncedIsDurable ==
    announced # NoKey /\ ~disturbed => keyFile = announced

(* The script reports success only while the gateway has the pin of the    *)
(* key the running cloud serves with, although the cloud may have been     *)
(* restarted, with another key, after its fingerprint was read.            *)
DoneMeansPinned ==
    [][spc' = "done" /\ spc # "done" => pin = env /\ pin = cloudKey]_vars

(* Once the faults are over, running the script provisions the pin and     *)
(* gets readings through, whatever state the earlier runs and crashes left *)
(* behind, except a gateway whose retry loop has ended.                    *)
Provisions ==
    spc = "start" /\ faults = MaxFaults /\ gpc # "stuck" ~> spc = "done"
=============================================================================
