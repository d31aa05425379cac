---------------------------- MODULE SessionSetup ----------------------------
(***************************************************************************)
(* How one gateway and the cloud establish a session, message by message:  *)
(* _establish_once in src/gateway/cloud_channel.py against                 *)
(* _establish_session in src/cloud/cloud.py, with the checks of both       *)
(* processing modules and the use of ML-KEM in src/common/crypto.py.       *)
(*                                                                         *)
(* CloudChannel and CloudServer show what the threads inside the gateway   *)
(* and inside the cloud do to each other and leave the messages out; here  *)
(* each side is sequential and what the messages say matters.  Every       *)
(* attempt of the gateway has a number, which names its TCP connection,    *)
(* the identifier it proposes for the session (secrets.token_hex) and the  *)
(* secret it encapsulates.  A connection holds one message per direction   *)
(* at most: the handshake is strict request and reply, and of the readings *)
(* that follow only what seals them matters.                               *)
(*                                                                         *)
(* ML-KEM is symbolic.  A key pair is a name.  A ciphertext says which key *)
(* it was made for and from which attempt; a secret also says whether its  *)
(* derivation was genuine.  Decapsulating with another key does not fail   *)
(* but gives a secret nobody else has (implicit rejection).                *)
(***************************************************************************)
EXTENDS Naturals

CONSTANTS
    Keys,         \* the key pairs the cloud may have
    NoKey,        \* no key pair
    Pins,         \* the pairs that may be pinned; NoKey for no pin
    Registered,   \* gateways in the cloud's key registry
    Self,         \* this gateway
    MaxAttempts,  \* bound: establishment attempts
    MaxFaults     \* bound: faults of the network and the cloud

ASSUME SetupAssumption ==
    /\ NoKey \notin Keys
    /\ Pins \subseteq Keys \cup {NoKey}
    /\ MaxAttempts \in Nat
    /\ MaxFaults \in Nat

VARIABLES
    gpc,       \* what the gateway waits for, or how far it got
    attempt,   \* its current attempt
    gkey,      \* the secret it has encapsulated last
    pin,       \* the pair whose fingerprint it was started with, or NoKey
    cpc,       \* per connection: the cloud's handler
    ckey,      \* per connection: the secret the cloud has derived
    csid,      \* per connection: the session identifier the cloud was given
    cloudKey,  \* the key pair of the running cloud process
    up,        \* per connection: message on its way to the cloud
    down,      \* per connection: message on its way to the gateway
    faults,    \* faults so far
    altered,   \* history: connections damaged, and in which direction
    done,      \* history: attempts the gateway counted as established
    accepted   \* history: connections over which the cloud took a reading

gateway == <<gpc, attempt, gkey, done>>
keys    == <<ckey, csid, cloudKey>>
handler == <<cpc, keys, accepted>>
vars == <<gateway, handler, up, down, faults, altered, pin>>

Attempts == 1 .. MaxAttempts

-----------------------------------------------------------------------------
(* Keys, tags and messages.                                                *)

Secret(k, n, genuine) == [to |-> k, from |-> n, genuine |-> genuine]
Secrets  == [to : Keys, from : 0 .. MaxAttempts, genuine : BOOLEAN]
NoSecret == [to |-> NoKey, from |-> 0, genuine |-> FALSE]

Ciphertext(k, n) == [to |-> k, from |-> n]
NotACiphertext   == [to |-> NoKey, from |-> 0]

(* Mutant: every attempt seals under the secret of the first.              *)
EncapsulateOnce(key, n) == Secret(key, 1, TRUE)
Encapsulate(key, n)     == Secret(key, n, TRUE)

Decapsulate(sk, text) == Secret(sk, text.from, text.to = sk)

(* build_gateway_auth under the key of gateway g for the claim id.         *)
Tag(g, id) == [key |-> g, claim |-> id]
NoTag      == [key |-> "none", claim |-> "none"]

Nothing         == [type |-> "nothing"]
Request(id, t)  == [type |-> "request", id |-> id, tag |-> t]
PubKey(k)       == [type |-> "pubkey", key |-> k]
Encaps(s, text) == [type |-> "encaps", session |-> s, text |-> text]
Confirm(s)      == [type |-> "established", session |-> s]
Frame(s, key)   == [type |-> "reading", session |-> s,
                    seal |-> [key |-> key, aad |-> s]]

(* What damage on the way may turn a message into.  A session 0 or NoKey   *)
(* stands for a field that is missing or does not decode.                  *)
DamagedUp ==
    {Request(id, t) : id \in Registered \cup {"stranger"},
                      t \in {NoTag, Tag(Self, Self)}}
    \cup {Encaps(s, t) : s \in 0 .. MaxAttempts,
                         t \in {NotACiphertext} \cup
                               {Ciphertext(k, 0) : k \in Keys}}
    \cup {Frame(s, NoSecret) : s \in 0 .. MaxAttempts}

DamagedDown ==
    {PubKey(k) : k \in Keys \cup {NoKey}} \cup
    {Confirm(s) : s \in 0 .. MaxAttempts}

Fault ==
    /\ faults < MaxFaults
    /\ faults' = faults + 1

Init ==
    /\ gpc = "begin"
    /\ attempt = 0
    /\ gkey = NoSecret
    /\ pin \in Pins
    /\ cpc = [n \in Attempts |-> "none"]
    /\ ckey = [n \in Attempts |-> NoSecret]
    /\ csid = [n \in Attempts |-> 0]
    /\ cloudKey \in Keys
    /\ up = [n \in Attempts |-> Nothing]
    /\ down = [n \in Attempts |-> Nothing]
    /\ faults = 0
    /\ altered = {}
    /\ done = {}
    /\ accepted = {}

-----------------------------------------------------------------------------
(* The gateway.                                                            *)

Send(channel, n, m)   == channel' = [channel EXCEPT ![n] = m]
Receives(channel, n)  == channel[n] # Nothing /\ Send(channel, n, Nothing)

Begin ==
    /\ gpc = "begin"
    /\ attempt < MaxAttempts
    /\ attempt' = attempt + 1
    /\ gpc' = "pubkey"
    /\ cpc' = [cpc EXCEPT ![attempt'] = "request"]
    /\ Send(up, attempt', Request(Self, Tag(Self, Self)))
    /\ UNCHANGED <<gkey, done, keys, accepted, down, faults, altered, pin>>

(* parse_mlkem_pubkey_reply and verify_cloud_public_key.  Mutant: any key  *)
(* of the right length will do.                                            *)
TrustsAny(m) == m.type = "pubkey" /\ m.key # NoKey
Trusts(m)    == m.type = "pubkey" /\ m.key # NoKey /\ m.key = pin

ReadPubKey ==
    /\ gpc = "pubkey"
    /\ Receives(down, attempt)
    /\ Trusts(down[attempt])
    /\ LET key == down[attempt].key
       IN  /\ gkey' = Encapsulate(key, attempt)
           /\ Send(up, attempt, Encaps(attempt, Ciphertext(key, attempt)))
    /\ gpc' = "established"
    /\ UNCHANGED <<attempt, done, handler, faults, altered, pin>>

(* parse_mlkem_established_reply.  Mutant: any identifier will do.         *)
ConfirmsAny(m) == m.type = "established" /\ m.session # 0
Confirms(m)    == m.type = "established" /\ m.session = attempt

ReadConfirm ==
    /\ gpc = "established"
    /\ Receives(down, attempt)
    /\ Confirms(down[attempt])
    /\ gpc' = "up"
    /\ done' = done \cup {attempt}
    /\ UNCHANGED <<attempt, gkey, handler, up, faults, altered, pin>>

(* ProtocolError or CryptoError: the socket is closed, the attempt repeated*)
RejectReply ==
    /\ \/ gpc = "pubkey" /\ ~Trusts(down[attempt])
       \/ gpc = "established" /\ ~Confirms(down[attempt])
    /\ Receives(down, attempt)
    /\ gpc' = "begin"
    /\ UNCHANGED <<attempt, gkey, done, handler, up, faults, altered, pin>>

(* The cloud has closed the connection.  A clean end of the stream raises  *)
(* ConnectionClosedError, which ends the retry loop (see CloudChannel); a  *)
(* reset is an OSError.                                                    *)
PeerClosed ==
    /\ gpc \in {"pubkey", "established"}
    /\ cpc[attempt] = "closed"
    /\ down[attempt] = Nothing
    /\ gpc' \in {"dead", "begin"}
    /\ UNCHANGED <<attempt, gkey, done, handler, up, down, faults, altered,
                   pin>>

(* The socket timeout of 10 s, or another OSError, in the handshake.       *)
TimesOut ==
    /\ gpc \in {"pubkey", "established"}
    /\ Fault
    /\ gpc' = "begin"
    /\ UNCHANGED <<attempt, gkey, done, handler, up, down, altered, pin>>

(* is_established, build_protected_reading and sendall.                    *)
SendReading ==
    /\ gpc = "up"
    /\ up[attempt] = Nothing
    /\ cpc[attempt] # "closed"
    /\ Send(up, attempt, Frame(attempt, gkey))
    /\ UNCHANGED <<gateway, handler, down, faults, altered, pin>>

(* A write fails: the session is given up and another attempt made.        *)
Invalidate ==
    /\ gpc = "up"
    /\ \/ cpc[attempt] = "closed" /\ UNCHANGED faults
       \/ cpc[attempt] # "closed" /\ Fault
    /\ gpc' = "begin"
    /\ UNCHANGED <<attempt, gkey, done, handler, up, down, altered, pin>>

GatewayStep ==
    \/ Begin
    \/ ReadPubKey
    \/ ReadConfirm
    \/ RejectReply
    \/ PeerClosed

-----------------------------------------------------------------------------
(* The cloud's handler of connection n.                                    *)

(* parse_mlkem_request, config.gateway_key and verify_gateway_auth.        *)
(* Mutant: the verifier serialises the claim differently.                  *)
AuthenticElse(m) ==
    m.type = "request" /\ m.id \in Registered /\ m.tag = Tag(m.id, "device")

Authentic(m) ==
    /\ m.type = "request"
    /\ m.id \in Registered
    /\ m.tag = Tag(m.id, m.id)

AnswerRequest(n) ==
    /\ cpc[n] = "request"
    /\ Receives(up, n)
    /\ Authentic(up[n])
    /\ Send(down, n, PubKey(cloudKey))
    /\ cpc' = [cpc EXCEPT ![n] = "encaps"]
    /\ UNCHANGED <<gateway, keys, accepted, faults, altered, pin>>

(* parse_mlkem_encaps.                                                     *)
WellFormed(m) ==
    m.type = "encaps" /\ m.session # 0 /\ m.text # NotACiphertext

ReadEncaps(n) ==
    /\ cpc[n] = "encaps"
    /\ Receives(up, n)
    /\ WellFormed(up[n])
    /\ ckey' = [ckey EXCEPT ![n] = Decapsulate(cloudKey, up[n].text)]
    /\ csid' = [csid EXCEPT ![n] = up[n].session]
    /\ Send(down, n, Confirm(up[n].session))
    /\ cpc' = [cpc EXCEPT ![n] = "serve"]
    /\ UNCHANGED <<gateway, accepted, cloudKey, faults, altered, pin>>

(* A policy rejection or a ProtocolError: the connection is closed.        *)
RejectHandshake(n) ==
    /\ \/ cpc[n] = "request" /\ ~Authentic(up[n])
       \/ cpc[n] = "encaps" /\ ~WellFormed(up[n])
    /\ Receives(up, n)
    /\ cpc' = [cpc EXCEPT ![n] = "closed"]
    /\ UNCHANGED <<gateway, keys, accepted, down, faults, altered, pin>>

(* decrypt_protected_reading.  Mutant: whatever was sealed is opened.      *)
OpensAny(m, n) == m.type = "reading" /\ m.session = csid[n]

Opens(m, n) ==
    /\ m.type = "reading"
    /\ m.session = csid[n]
    /\ m.seal = [key |-> ckey[n], aad |-> csid[n]]

AcceptReading(n) ==
    /\ cpc[n] = "serve"
    /\ Receives(up, n)
    /\ Opens(up[n], n)
    /\ accepted' = accepted \cup {n}
    /\ UNCHANGED <<gateway, cpc, keys, down, faults, altered, pin>>

(* A frame that does not open is dropped and the connection goes on; one   *)
(* without an identifier is a ProtocolError and ends it.                   *)
DropReading(n) ==
    /\ cpc[n] = "serve"
    /\ Receives(up, n)
    /\ ~Opens(up[n], n)
    /\ LET missing == up[n].type = "reading" /\ up[n].session = 0
       IN  cpc' = [cpc EXCEPT ![n] = IF missing THEN "closed" ELSE @]
    /\ UNCHANGED <<gateway, keys, accepted, down, faults, altered, pin>>

GatewayLeft(n) == attempt # n \/ gpc \in {"begin", "dead"}

Reading(n) == cpc[n] \in {"request", "encaps", "serve"}

(* The end of the stream, or after a fault a timeout or another error.     *)
CloseConnection(n) ==
    /\ Reading(n)
    /\ \/ GatewayLeft(n) /\ up[n] = Nothing /\ UNCHANGED faults
       \/ Fault
    /\ cpc' = [cpc EXCEPT ![n] = "closed"]
    /\ UNCHANGED <<gateway, keys, accepted, up, down, altered, pin>>

HandlerStep(n) ==
    \/ AnswerRequest(n)
    \/ ReadEncaps(n)
    \/ RejectHandshake(n)
    \/ AcceptReading(n)
    \/ DropReading(n)
    \/ GatewayLeft(n) /\ CloseConnection(n)

-----------------------------------------------------------------------------
(* The cloud process starts again, with the key pair of its file or, if    *)
(* the file is lost, with another one.  Its connections are reset.         *)
CloudRestart ==
    /\ Fault
    /\ cloudKey' \in Keys
    /\ cpc' = [n \in Attempts |->
                  IF cpc[n] = "none" THEN "none" ELSE "closed"]
    /\ up' = [n \in Attempts |-> Nothing]
    /\ down' = [n \in Attempts |-> Nothing]
    /\ UNCHANGED <<gateway, ckey, csid, accepted, altered, pin>>

Damage(n) ==
    /\ Fault
    /\ \/ /\ up[n] # Nothing
          /\ \E m \in DamagedUp : m # up[n] /\ Send(up, n, m)
          /\ altered' = altered \cup {<<n, "up">>}
          /\ UNCHANGED down
       \/ /\ down[n] # Nothing
          /\ \E m \in DamagedDown : m # down[n] /\ Send(down, n, m)
          /\ altered' = altered \cup {<<n, "down">>}
          /\ UNCHANGED up
    /\ UNCHANGED <<gateway, handler, pin>>

Next ==
    \/ GatewayStep
    \/ TimesOut
    \/ SendReading
    \/ Invalidate
    \/ \E n \in Attempts : \/ HandlerStep(n)
                           \/ CloseConnection(n)
                           \/ Damage(n)
    \/ CloudRestart

Spec == Init /\ [][Next]_vars

(* Neither side stops for ever: each is a thread whose blocking calls end  *)
(* by an answer or by a timeout.  Nothing is assumed of the faults, and    *)
(* nothing of readings.                                                    *)
FairSpec ==
    /\ Spec
    /\ WF_vars(GatewayStep)
    /\ \A n \in Attempts : WF_vars(HandlerStep(n))

-----------------------------------------------------------------------------
(* Properties.                                                             *)

UpMessage ==
    {Nothing, Request(Self, Tag(Self, Self))} \cup DamagedUp
    \cup {Encaps(s, Ciphertext(k, s)) : s \in Attempts, k \in Keys}
    \cup {Frame(s, key) : s \in Attempts, key \in Secrets}

(* Every variable has its type, and a session in service has a name.       *)
TypeOK ==
    /\ gpc \in {"begin", "pubkey", "established", "up", "dead"}
    /\ attempt \in 0 .. MaxAttempts
    /\ gpc # "begin" => attempt \in Attempts
    /\ gkey \in Secrets \cup {NoSecret}
    /\ pin \in Pins
    /\ cpc \in [Attempts -> {"none", "request", "encaps", "serve", "closed"}]
    /\ ckey \in [Attempts -> Secrets \cup {NoSecret}]
    /\ csid \in [Attempts -> 0 .. MaxAttempts]
    /\ \A n \in Attempts : cpc[n] = "serve" => csid[n] # 0
    /\ cloudKey \in Keys
    /\ up \in [Attempts -> UpMessage]
    /\ down \in [Attempts -> {Nothing} \cup DamagedDown]
    /\ faults \in 0 .. MaxFaults
    /\ altered \subseteq Attempts \X {"up", "down"}
    /\ done \subseteq Attempts
    /\ accepted \subseteq Attempts

InSession(n) == n = attempt /\ gpc = "up" /\ cpc[n] = "serve"

(* Both ends of a session have the same key, although nothing in the       *)
(* handshake proves it to either.  What reaches the gateway may be damaged *)
(* as it will: the pin catches it.  Only damage on the way to the cloud,   *)
(* or a pinned key shown by another cloud, goes unnoticed (decapsulation   *)
(* does not fail but rejects implicitly).                                  *)
KeyAgreement ==
    \A n \in Attempts :
        InSession(n) /\ <<n, "up">> \notin altered /\ cloudKey = pin =>
            ckey[n] = gkey

(* Both ends call a session by the same name, whatever happened to the     *)
(* name on its way to the cloud: the confirmation repeats it.              *)
NameAgreement ==
    \A n \in Attempts :
        InSession(n) /\ <<n, "down">> \notin altered => csid[n] = n

(* The pin fails closed: the gateway encapsulates a secret for no key but  *)
(* the pinned one, whatever key it is shown; without a pin it encapsulates *)
(* none and has no session.  So whoever can open what it seals is a cloud  *)
(* with the pinned key, although the cloud may come back with another one. *)
FailsClosed ==
    /\ gkey # NoSecret => pin # NoKey /\ gkey.to = pin
    /\ done # {} => pin # NoKey
    /\ \A n \in Attempts :
          cpc[n] = "serve" /\ ckey[n] = gkey => cloudKey = pin

(* A session whose ends disagree delivers nothing: a reading is accepted   *)
(* only over a session which the gateway has seen confirmed, and only when *)
(* key and name are the same at both ends.                                 *)
AcceptedIfAgreed ==
    \A n \in accepted :
        /\ n \in done
        /\ InSession(n) => ckey[n] = gkey /\ csid[n] = n

(* The two sides never wait for each other for ever: attempts against the  *)
(* pinned cloud lead to a session, unless the cloud hangs up on the        *)
(* gateway (which ends its retry loop) or comes back with another key.     *)
(* The bounds must leave an attempt for every fault to come.               *)
Establishes ==
    gpc = "begin" /\ MaxAttempts - attempt > MaxFaults - faults ~>
        gpc \in {"up", "dead"} \/ cloudKey # pin
=============================================================================
