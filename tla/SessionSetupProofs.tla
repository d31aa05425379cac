-------------------------- MODULE SessionSetupProofs -------------------------
(***************************************************************************)
(* What SessionSetup promises of keys, names and readings holds for any    *)
(* number of attempts, faults, key pairs and registered gateways.          *)
(***************************************************************************)
EXTENDS SessionSetup, TLAPS

(* TypeOK in two parts: the state of the two ends, and the messages.       *)
EndTypes ==
    /\ gpc \in {"begin", "pubkey", "established", "up", "dead"}
    /\ attempt \in 0 .. MaxAttempts
    /\ gpc # "begin" => attempt \in Attempts
    /\ cpc \in [Attempts -> {"none", "request", "encaps", "serve", "closed"}]
    /\ cloudKey \in Keys
    /\ pin \in Pins
    /\ faults \in 0 .. MaxFaults
    /\ altered \subseteq Attempts \X {"up", "down"}
    /\ done \subseteq Attempts
    /\ accepted \subseteq Attempts

KeyTypes ==
    /\ gkey \in Secrets \cup {NoSecret}
    /\ ckey \in [Attempts -> Secrets \cup {NoSecret}]
    /\ csid \in [Attempts -> 0 .. MaxAttempts]
    /\ \A n \in Attempts : cpc[n] = "serve" => csid[n] # 0

WireTypes ==
    /\ up \in [Attempts -> UpMessage]
    /\ down \in [Attempts -> {Nothing} \cup DamagedDown]

(* How far the two ends of the current connection can be apart; the other  *)
(* connections are over or not yet begun.                                  *)
PhaseInv ==
    /\ \A n \in Attempts : n > attempt =>
          cpc[n] = "none" /\ up[n] = Nothing /\ down[n] = Nothing
    /\ gpc = "pubkey" =>
          /\ cpc[attempt] \in {"request", "encaps", "closed"}
          /\ cpc[attempt] = "request" => down[attempt] = Nothing
          /\ cpc[attempt] = "encaps" => up[attempt] = Nothing
    /\ gpc = "established" =>
          /\ cpc[attempt] \in {"encaps", "serve", "closed"}
          /\ cpc[attempt] = "encaps" => down[attempt] = Nothing
    /\ gpc = "up" => cpc[attempt] \in {"serve", "closed"}

(* The gateway's secret is for the pinned key and of its current attempt.  *)
GatewayInv ==
    /\ gkey = NoSecret \/ gkey.to = pin
    /\ gpc \in {"established", "up"} =>
          gkey = Secret(pin, attempt, TRUE) /\ pin \in Keys
    /\ gpc = "up" => attempt \in done
    /\ done # {} => pin \in Keys

(* What is on its way to the cloud, and under which secret it is sealed.   *)
WireInv ==
    \A n \in Attempts :
        /\ up[n].type = "encaps" /\ <<n, "up">> \notin altered =>
              up[n].text = Ciphertext(pin, n)
        /\ up[n].type = "reading" /\ up[n].seal.key # NoSecret =>
              /\ up[n] = Frame(n, Secret(pin, n, TRUE))
              /\ n \in done

(* The cloud's secret is for its own key, and the gateway's own if nothing *)
(* was damaged.                                                            *)
CloudInv ==
    \A n \in Attempts :
        cpc[n] = "serve" =>
            /\ ckey[n] \in Secrets
            /\ ckey[n].to = cloudKey
            /\ <<n, "up">> \notin altered /\ cloudKey = pin =>
                  ckey[n] = Secret(pin, n, TRUE)

(* The confirmation repeats the name the cloud has understood.             *)
NameInv ==
    /\ \A n \in Attempts :
          down[n].type = "established" /\ <<n, "down">> \notin altered =>
              cpc[n] \in {"serve", "closed"} /\ down[n].session = csid[n]
    /\ gpc = "up" /\ <<attempt, "down">> \notin altered =>
          csid[attempt] = attempt

(* Connections on which a reading was accepted agree on key and name.      *)
AcceptedInv ==
    \A n \in accepted :
        /\ cpc[n] \in {"serve", "closed"}
        /\ ckey[n] = Secret(pin, n, TRUE)
        /\ csid[n] = n
        /\ n \in done

IInv ==
    /\ EndTypes
    /\ KeyTypes
    /\ WireTypes
    /\ PhaseInv
    /\ GatewayInv
    /\ WireInv
    /\ CloudInv
    /\ NameInv
    /\ AcceptedInv

-----------------------------------------------------------------------------
(* Messages to the cloud have the fields their type says.                  *)
LEMMA UpShape ==
    ASSUME NEW m \in UpMessage
    PROVE  /\ m.type = "encaps" =>
                /\ m.session \in 0 .. MaxAttempts
                /\ m.text.to \in Keys \cup {NoKey}
                /\ m.text.from \in 0 .. MaxAttempts
           /\ m.type = "reading" => m.session \in 0 .. MaxAttempts
BY SetupAssumption DEF UpMessage, DamagedUp, Nothing, Request, Encaps,
   Frame, Ciphertext, NotACiphertext, Attempts

(* So does what the gateway reads as a public key.                         *)
LEMMA DownShape ==
    ASSUME NEW m \in {Nothing} \cup DamagedDown
    PROVE  m.type = "pubkey" => m.key \in Keys \cup {NoKey}
BY DEF DamagedDown, Nothing, PubKey, Confirm

(* What is sent has the type of its channel.                               *)
LEMMA UpTypes ==
    /\ Nothing \in UpMessage
    /\ Request(Self, Tag(Self, Self)) \in UpMessage
    /\ \A n \in Attempts, k \in Keys :
          Encaps(n, Ciphertext(k, n)) \in UpMessage
    /\ \A n \in Attempts, key \in Secrets : Frame(n, key) \in UpMessage
    /\ DamagedUp \subseteq UpMessage
BY DEF UpMessage

LEMMA DownTypes ==
    /\ \A k \in Keys : PubKey(k) \in DamagedDown
    /\ \A s \in 0 .. MaxAttempts : Confirm(s) \in DamagedDown
BY DEF DamagedDown

(* The kinds of messages are told apart.                                   *)
LEMMA Kinds ==
    /\ Nothing.type = "nothing"
    /\ Request(Self, Tag(Self, Self)).type = "request"
    /\ \A n, t : /\ Encaps(n, t).type = "encaps"
                 /\ Encaps(n, t).text = t
    /\ \A n, key : /\ Frame(n, key).type = "reading"
                   /\ Frame(n, key).session = n
                   /\ Frame(n, key).seal = [key |-> key, aad |-> n]
                   /\ Frame(n, key).seal.key = key
                   /\ Frame(n, key).seal.aad = n
    /\ \A k : PubKey(k).type = "pubkey"
    /\ \A n : /\ Confirm(n).type = "established"
              /\ Confirm(n).session = n
BY DEF Nothing, Request, Encaps, Frame, PubKey, Confirm

(* A damaged reading is sealed under no secret.                            *)
LEMMA DamagedSeal ==
    ASSUME NEW m \in DamagedUp, m.type = "reading"
    PROVE  m.seal.key = NoSecret
BY DEF DamagedUp, Request, Encaps, Frame

LEMMA DecapsulateShape ==
    ASSUME NEW k \in Keys, NEW t, t.from \in 0 .. MaxAttempts
    PROVE  /\ Decapsulate(k, t) \in Secrets
           /\ Decapsulate(k, t).to = k
BY DEF Decapsulate, Secret, Secrets

(* Decapsulating with the right key gives what was encapsulated.           *)
LEMMA RightKey ==
    ASSUME NEW k, NEW n
    PROVE  Decapsulate(k, Ciphertext(k, n)) = Secret(k, n, TRUE)
<1>1. Ciphertext(k, n).to = k /\ Ciphertext(k, n).from = n
  BY DEF Ciphertext
<1>2. (Ciphertext(k, n).to = k) = TRUE
  BY <1>1, Zenon
<1>3. QED
  BY <1>1, <1>2, Zenon DEF Decapsulate

LEMMA NoSecretTo == NoSecret.to = NoKey
BY DEF NoSecret

LEMMA SecretShape ==
    ASSUME NEW k \in Keys, NEW n \in Attempts
    PROVE  /\ Secret(k, n, TRUE) \in Secrets
           /\ Secret(k, n, TRUE).to = k
           /\ Secret(k, n, TRUE) # NoSecret
<1>1. Secret(k, n, TRUE) \in Secrets
  <2>1. n \in 0 .. MaxAttempts
    BY SetupAssumption DEF Attempts
  <2>2. QED
    BY <2>1 DEF Secret, Secrets
<1>2. QED
  BY <1>1, SetupAssumption DEF Secret, NoSecret

(* The two ends keep their types.                                          *)
LEMMA EndTypeStep ==
    ASSUME EndTypes, PhaseInv, GatewayInv, [Next]_vars
    PROVE  EndTypes'
<1> USE SetupAssumption DEF gateway, handler, keys, Send, Receives, Fault,
       Attempts, EndTypes, Reading
<1>1. CASE Begin
  BY <1>1 DEF Begin
<1>2. CASE ReadPubKey
  BY <1>2 DEF ReadPubKey
<1>3. CASE ReadConfirm
  BY <1>3 DEF ReadConfirm
<1>4. CASE RejectReply
  BY <1>4 DEF RejectReply
<1>5. CASE PeerClosed
  BY <1>5 DEF PeerClosed
<1>6. CASE TimesOut
  BY <1>6 DEF TimesOut
<1>7. CASE SendReading
  BY <1>7 DEF SendReading
<1>8. CASE Invalidate
  BY <1>8 DEF Invalidate
<1>9. CASE CloudRestart
  BY <1>9 DEF CloudRestart
<1>10. ASSUME NEW n \in Attempts, AnswerRequest(n) PROVE EndTypes'
  BY <1>10 DEF AnswerRequest
<1>11. ASSUME NEW n \in Attempts, ReadEncaps(n) PROVE EndTypes'
  BY <1>11 DEF ReadEncaps
<1>12. ASSUME NEW n \in Attempts, RejectHandshake(n) PROVE EndTypes'
  BY <1>12 DEF RejectHandshake
<1>13. ASSUME NEW n \in Attempts, AcceptReading(n) PROVE EndTypes'
  BY <1>13 DEF AcceptReading
<1>14. ASSUME NEW n \in Attempts, DropReading(n) PROVE EndTypes'
  BY <1>14 DEF DropReading
<1>15. ASSUME NEW n \in Attempts, CloseConnection(n) PROVE EndTypes'
  BY <1>15 DEF CloseConnection
<1>16. ASSUME NEW n \in Attempts, Damage(n) PROVE EndTypes'
  BY <1>16 DEF Damage
<1>17. CASE UNCHANGED vars
  BY <1>17 DEF vars
<1>18. QED
  BY <1>1, <1>2, <1>3, <1>4, <1>5, <1>6, <1>7, <1>8, <1>9, <1>10, <1>11,
     <1>12, <1>13, <1>14, <1>15, <1>16, <1>17 DEF Next, GatewayStep,
     HandlerStep

(* Keys and names keep their types.                                        *)
LEMMA KeyTypeStep ==
    ASSUME EndTypes, KeyTypes, WireTypes, [Next]_vars
    PROVE  KeyTypes'
<1> USE SetupAssumption DEF gateway, handler, keys, Send, Receives, Fault,
       Attempts, EndTypes, KeyTypes, WireTypes
<1>1. CASE Begin
  BY <1>1 DEF Begin
<1>2. CASE ReadPubKey
  BY <1>2, DownShape, SecretShape DEF ReadPubKey, Trusts, Encapsulate
<1>3. CASE ReadConfirm
  BY <1>3 DEF ReadConfirm
<1>4. CASE RejectReply
  BY <1>4 DEF RejectReply
<1>5. CASE PeerClosed
  BY <1>5 DEF PeerClosed
<1>6. CASE TimesOut
  BY <1>6 DEF TimesOut
<1>7. CASE SendReading
  BY <1>7 DEF SendReading
<1>8. CASE Invalidate
  BY <1>8 DEF Invalidate
<1>9. CASE CloudRestart
  BY <1>9 DEF CloudRestart
<1>10. ASSUME NEW n \in Attempts, AnswerRequest(n) PROVE KeyTypes'
  BY <1>10 DEF AnswerRequest
<1>11. ASSUME NEW n \in Attempts, ReadEncaps(n) PROVE KeyTypes'
  BY <1>11, UpShape, DecapsulateShape DEF ReadEncaps, WellFormed
<1>12. ASSUME NEW n \in Attempts, RejectHandshake(n) PROVE KeyTypes'
  BY <1>12 DEF RejectHandshake
<1>13. ASSUME NEW n \in Attempts, AcceptReading(n) PROVE KeyTypes'
  BY <1>13 DEF AcceptReading
<1>14. ASSUME NEW n \in Attempts, DropReading(n) PROVE KeyTypes'
  BY <1>14 DEF DropReading
<1>15. ASSUME NEW n \in Attempts, CloseConnection(n) PROVE KeyTypes'
  BY <1>15 DEF CloseConnection
<1>16. ASSUME NEW n \in Attempts, Damage(n) PROVE KeyTypes'
  BY <1>16 DEF Damage
<1>17. CASE UNCHANGED vars
  BY <1>17 DEF vars
<1>18. QED
  BY <1>1, <1>2, <1>3, <1>4, <1>5, <1>6, <1>7, <1>8, <1>9, <1>10, <1>11,
     <1>12, <1>13, <1>14, <1>15, <1>16, <1>17 DEF Next, GatewayStep,
     HandlerStep

(* What is on its way keeps its type.                                      *)
LEMMA WireTypeStep ==
    ASSUME EndTypes, KeyTypes, WireTypes, GatewayInv, [Next]_vars
    PROVE  WireTypes'
<1> USE SetupAssumption DEF gateway, handler, keys, Send, Receives, Fault,
       Attempts, EndTypes, WireTypes
<1>1. CASE Begin
  BY <1>1, UpTypes, DownTypes DEF Begin
<1>2. CASE ReadPubKey
  BY <1>2, UpTypes, DownShape DEF ReadPubKey, Trusts
<1>3. CASE ReadConfirm
  BY <1>3, UpTypes, DownTypes DEF ReadConfirm
<1>4. CASE RejectReply
  BY <1>4, UpTypes, DownTypes DEF RejectReply
<1>5. CASE PeerClosed
  BY <1>5, UpTypes, DownTypes DEF PeerClosed
<1>6. CASE TimesOut
  BY <1>6, UpTypes, DownTypes DEF TimesOut
<1>7. CASE SendReading
  BY <1>7, UpTypes, SecretShape DEF SendReading, GatewayInv
<1>8. CASE Invalidate
  BY <1>8, UpTypes, DownTypes DEF Invalidate
<1>9. CASE CloudRestart
  BY <1>9, UpTypes, DownTypes DEF CloudRestart
<1>10. ASSUME NEW n \in Attempts, AnswerRequest(n) PROVE WireTypes'
  BY <1>10, UpTypes, DownTypes DEF AnswerRequest
<1>11. ASSUME NEW n \in Attempts, ReadEncaps(n) PROVE WireTypes'
  BY <1>11, UpTypes, UpShape, DownTypes DEF ReadEncaps, WellFormed
<1>12. ASSUME NEW n \in Attempts, RejectHandshake(n) PROVE WireTypes'
  BY <1>12, UpTypes, DownTypes DEF RejectHandshake
<1>13. ASSUME NEW n \in Attempts, AcceptReading(n) PROVE WireTypes'
  BY <1>13, UpTypes, DownTypes DEF AcceptReading
<1>14. ASSUME NEW n \in Attempts, DropReading(n) PROVE WireTypes'
  BY <1>14, UpTypes, DownTypes DEF DropReading
<1>15. ASSUME NEW n \in Attempts, CloseConnection(n) PROVE WireTypes'
  BY <1>15, UpTypes, DownTypes DEF CloseConnection
<1>16. ASSUME NEW n \in Attempts, Damage(n) PROVE WireTypes'
  BY <1>16, UpTypes, DownTypes DEF Damage
<1>17. CASE UNCHANGED vars
  BY <1>17 DEF vars
<1>18. QED
  BY <1>1, <1>2, <1>3, <1>4, <1>5, <1>6, <1>7, <1>8, <1>9, <1>10, <1>11,
     <1>12, <1>13, <1>14, <1>15, <1>16, <1>17 DEF Next, GatewayStep,
     HandlerStep

(* The two ends of a connection keep step.                                 *)
LEMMA PhaseStep ==
    ASSUME EndTypes, WireTypes, PhaseInv, [Next]_vars
    PROVE  PhaseInv'
<1> USE SetupAssumption DEF gateway, handler, keys, Send, Receives, Fault,
       Attempts, EndTypes, WireTypes, PhaseInv
<1>1. CASE Begin
  BY <1>1 DEF Begin
<1>2. CASE ReadPubKey
  BY <1>2 DEF ReadPubKey
<1>3. CASE ReadConfirm
  BY <1>3 DEF ReadConfirm
<1>4. CASE RejectReply
  BY <1>4 DEF RejectReply
<1>5. CASE PeerClosed
  BY <1>5 DEF PeerClosed
<1>6. CASE TimesOut
  BY <1>6 DEF TimesOut
<1>7. CASE SendReading
  BY <1>7 DEF SendReading
<1>8. CASE Invalidate
  BY <1>8 DEF Invalidate
<1>9. CASE CloudRestart
  BY <1>9 DEF CloudRestart
<1>10. ASSUME NEW n \in Attempts, AnswerRequest(n) PROVE PhaseInv'
  BY <1>10 DEF AnswerRequest
<1>11. ASSUME NEW n \in Attempts, ReadEncaps(n) PROVE PhaseInv'
  BY <1>11 DEF ReadEncaps
<1>12. ASSUME NEW n \in Attempts, RejectHandshake(n) PROVE PhaseInv'
  BY <1>12 DEF RejectHandshake
<1>13. ASSUME NEW n \in Attempts, AcceptReading(n) PROVE PhaseInv'
  BY <1>13 DEF AcceptReading
<1>14. ASSUME NEW n \in Attempts, DropReading(n) PROVE PhaseInv'
  BY <1>14 DEF DropReading
<1>15. ASSUME NEW n \in Attempts, CloseConnection(n) PROVE PhaseInv'
  BY <1>15 DEF CloseConnection, Reading
<1>16. ASSUME NEW n \in Attempts, Damage(n) PROVE PhaseInv'
  BY <1>16 DEF Damage
<1>17. CASE UNCHANGED vars
  BY <1>17 DEF vars
<1>18. QED
  BY <1>1, <1>2, <1>3, <1>4, <1>5, <1>6, <1>7, <1>8, <1>9, <1>10, <1>11,
     <1>12, <1>13, <1>14, <1>15, <1>16, <1>17 DEF Next, GatewayStep,
     HandlerStep

(* The gateway's secret stays one for the pinned key.                      *)
LEMMA GatewayStepInv ==
    ASSUME EndTypes, WireTypes, GatewayInv, [Next]_vars
    PROVE  GatewayInv'
<1> USE SetupAssumption DEF gateway, handler, keys, Send, Receives, Fault,
       Attempts, EndTypes, WireTypes, GatewayInv
<1>1. CASE Begin
  BY <1>1 DEF Begin
<1>2. CASE ReadPubKey
  BY <1>2, DownShape, SecretShape DEF ReadPubKey, Trusts, Encapsulate
<1>3. CASE ReadConfirm
  BY <1>3 DEF ReadConfirm
<1>4. CASE RejectReply
  BY <1>4 DEF RejectReply
<1>5. CASE PeerClosed
  BY <1>5 DEF PeerClosed
<1>6. CASE TimesOut
  BY <1>6 DEF TimesOut
<1>7. CASE SendReading
  BY <1>7 DEF SendReading
<1>8. CASE Invalidate
  BY <1>8 DEF Invalidate
<1>9. CASE CloudRestart
  BY <1>9 DEF CloudRestart
<1>10. ASSUME NEW n \in Attempts, AnswerRequest(n) PROVE GatewayInv'
  BY <1>10 DEF AnswerRequest
<1>11. ASSUME NEW n \in Attempts, ReadEncaps(n) PROVE GatewayInv'
  BY <1>11 DEF ReadEncaps
<1>12. ASSUME NEW n \in Attempts, RejectHandshake(n) PROVE GatewayInv'
  BY <1>12 DEF RejectHandshake
<1>13. ASSUME NEW n \in Attempts, AcceptReading(n) PROVE GatewayInv'
  BY <1>13 DEF AcceptReading
<1>14. ASSUME NEW n \in Attempts, DropReading(n) PROVE GatewayInv'
  BY <1>14 DEF DropReading
<1>15. ASSUME NEW n \in Attempts, CloseConnection(n) PROVE GatewayInv'
  BY <1>15 DEF CloseConnection
<1>16. ASSUME NEW n \in Attempts, Damage(n) PROVE GatewayInv'
  BY <1>16 DEF Damage
<1>17. CASE UNCHANGED vars
  BY <1>17 DEF vars
<1>18. QED
  BY <1>1, <1>2, <1>3, <1>4, <1>5, <1>6, <1>7, <1>8, <1>9, <1>10, <1>11,
     <1>12, <1>13, <1>14, <1>15, <1>16, <1>17 DEF Next, GatewayStep,
     HandlerStep

(* What leaves the gateway is sealed and encapsulated as its own.          *)
LEMMA WireStep ==
    ASSUME EndTypes, WireTypes, GatewayInv, WireInv, [Next]_vars
    PROVE  WireInv'
<1> USE SetupAssumption DEF gateway, handler, keys, Send, Receives, Fault,
       Attempts, EndTypes, WireTypes, WireInv
<1>1. CASE Begin
  BY <1>1, Kinds DEF Begin
<1>2. CASE ReadPubKey
  <2>1. /\ attempt \in Attempts
        /\ up' = [up EXCEPT ![attempt] =
                      Encaps(attempt, Ciphertext(pin, attempt))]
        /\ UNCHANGED <<altered, done, pin>>
    BY <1>2 DEF ReadPubKey, Trusts
  <2>2. up'[attempt].type = "encaps" /\
        up'[attempt].text = Ciphertext(pin, attempt)
    BY <2>1, Kinds
  <2>3. \A n \in Attempts \ {attempt} : up'[n] = up[n]
    BY <2>1
  <2>4. QED
    BY <2>1, <2>2, <2>3
<1>3. CASE ReadConfirm
  BY <1>3, Kinds DEF ReadConfirm
<1>4. CASE RejectReply
  BY <1>4, Kinds DEF RejectReply
<1>5. CASE PeerClosed
  BY <1>5, Kinds DEF PeerClosed
<1>6. CASE TimesOut
  BY <1>6, Kinds DEF TimesOut
<1>7. CASE SendReading
  BY <1>7, Kinds, ZenonT(40) DEF SendReading, GatewayInv
<1>8. CASE Invalidate
  BY <1>8, Kinds DEF Invalidate
<1>9. CASE CloudRestart
  BY <1>9, Kinds DEF CloudRestart
<1>10. ASSUME NEW n \in Attempts, AnswerRequest(n) PROVE WireInv'
  BY <1>10, Kinds DEF AnswerRequest
<1>11. ASSUME NEW n \in Attempts, ReadEncaps(n) PROVE WireInv'
  BY <1>11, Kinds DEF ReadEncaps
<1>12. ASSUME NEW n \in Attempts, RejectHandshake(n) PROVE WireInv'
  BY <1>12, Kinds DEF RejectHandshake
<1>13. ASSUME NEW n \in Attempts, AcceptReading(n) PROVE WireInv'
  BY <1>13, Kinds DEF AcceptReading
<1>14. ASSUME NEW n \in Attempts, DropReading(n) PROVE WireInv'
  BY <1>14, Kinds DEF DropReading
<1>15. ASSUME NEW n \in Attempts, CloseConnection(n) PROVE WireInv'
  BY <1>15, Kinds DEF CloseConnection
<1>16. ASSUME NEW n \in Attempts, Damage(n) PROVE WireInv'
  BY <1>16, DamagedSeal DEF Damage
<1>17. CASE UNCHANGED vars
  BY <1>17 DEF vars
<1>18. QED
  BY <1>1, <1>2, <1>3, <1>4, <1>5, <1>6, <1>7, <1>8, <1>9, <1>10, <1>11,
     <1>12, <1>13, <1>14, <1>15, <1>16, <1>17 DEF Next, GatewayStep,
     HandlerStep

(* The cloud's secret is the gateway's own unless something was damaged.   *)
LEMMA CloudStep ==
    ASSUME EndTypes, KeyTypes, WireTypes, WireInv, CloudInv, [Next]_vars
    PROVE  CloudInv'
<1> USE SetupAssumption DEF gateway, handler, keys, Send, Receives, Fault,
       Attempts, EndTypes, KeyTypes, WireTypes, CloudInv
<1>1. CASE Begin
  BY <1>1 DEF Begin
<1>2. CASE ReadPubKey
  BY <1>2 DEF ReadPubKey
<1>3. CASE ReadConfirm
  BY <1>3 DEF ReadConfirm
<1>4. CASE RejectReply
  BY <1>4 DEF RejectReply
<1>5. CASE PeerClosed
  BY <1>5 DEF PeerClosed
<1>6. CASE TimesOut
  BY <1>6 DEF TimesOut
<1>7. CASE SendReading
  BY <1>7 DEF SendReading
<1>8. CASE Invalidate
  BY <1>8 DEF Invalidate
<1>9. CASE CloudRestart
  BY <1>9 DEF CloudRestart
<1>10. ASSUME NEW n \in Attempts, AnswerRequest(n) PROVE CloudInv'
  BY <1>10 DEF AnswerRequest
<1>11. ASSUME NEW n \in Attempts, ReadEncaps(n) PROVE CloudInv'
  <2>1. /\ ckey' = [ckey EXCEPT ![n] = Decapsulate(cloudKey, up[n].text)]
        /\ cpc' = [cpc EXCEPT ![n] = "serve"]
        /\ UNCHANGED <<altered, cloudKey, pin>>
        /\ up[n].type = "encaps"
    BY <1>11 DEF ReadEncaps, WellFormed
  <2>2. ckey'[n] \in Secrets /\ ckey'[n].to = cloudKey
    BY <2>1, UpShape, DecapsulateShape
  <2>3. ASSUME <<n, "up">> \notin altered, cloudKey = pin
        PROVE  ckey'[n] = Secret(pin, n, TRUE)
    <3>1. up[n].text = Ciphertext(pin, n)
      BY <2>1, <2>3 DEF WireInv
    <3>2. QED
      BY <2>1, <2>3, <3>1, RightKey
  <2>4. \A i \in Attempts \ {n} : ckey'[i] = ckey[i] /\ cpc'[i] = cpc[i]
    BY <2>1
  <2>5. QED
    BY <2>1, <2>2, <2>3, <2>4
<1>12. ASSUME NEW n \in Attempts, RejectHandshake(n) PROVE CloudInv'
  BY <1>12 DEF RejectHandshake
<1>13. ASSUME NEW n \in Attempts, AcceptReading(n) PROVE CloudInv'
  BY <1>13 DEF AcceptReading
<1>14. ASSUME NEW n \in Attempts, DropReading(n) PROVE CloudInv'
  BY <1>14 DEF DropReading
<1>15. ASSUME NEW n \in Attempts, CloseConnection(n) PROVE CloudInv'
  BY <1>15 DEF CloseConnection
<1>16. ASSUME NEW n \in Attempts, Damage(n) PROVE CloudInv'
  BY <1>16 DEF Damage
<1>17. CASE UNCHANGED vars
  BY <1>17 DEF vars
<1>18. QED
  BY <1>1, <1>2, <1>3, <1>4, <1>5, <1>6, <1>7, <1>8, <1>9, <1>10, <1>11,
     <1>12, <1>13, <1>14, <1>15, <1>16, <1>17 DEF Next, GatewayStep,
     HandlerStep

(* The confirmation keeps repeating the cloud's name of the session.       *)
LEMMA NameStep ==
    ASSUME EndTypes, KeyTypes, WireTypes, PhaseInv, NameInv, [Next]_vars
    PROVE  NameInv'
<1> USE SetupAssumption DEF gateway, handler, keys, Send, Receives, Fault,
       Attempts, EndTypes, KeyTypes, WireTypes, NameInv
<1>1. CASE Begin
  <2>1. /\ attempt' = attempt + 1 /\ attempt' \in Attempts
        /\ gpc' = "pubkey"
        /\ cpc' = [cpc EXCEPT ![attempt'] = "request"]
        /\ UNCHANGED <<down, altered, done, ckey, csid, accepted, pin>>
    BY <1>1 DEF Begin
  <2>2. cpc[attempt'] = "none" /\ down[attempt'] = Nothing
    BY <2>1 DEF PhaseInv
  <2>3. down[attempt'].type # "established"
    BY <2>2, Kinds
  <2>4. \A n \in Attempts \ {attempt'} : cpc'[n] = cpc[n]
    BY <2>1
  <2>5. QED
    BY <2>1, <2>3, <2>4
<1>2. CASE ReadPubKey
  BY <1>2, Kinds DEF ReadPubKey
<1>3. CASE ReadConfirm
  BY <1>3, Kinds DEF ReadConfirm, Confirms
<1>4. CASE RejectReply
  BY <1>4, Kinds DEF RejectReply
<1>5. CASE PeerClosed
  BY <1>5, Kinds DEF PeerClosed
<1>6. CASE TimesOut
  BY <1>6, Kinds DEF TimesOut
<1>7. CASE SendReading
  BY <1>7, Kinds DEF SendReading
<1>8. CASE Invalidate
  BY <1>8, Kinds DEF Invalidate
<1>9. CASE CloudRestart
  BY <1>9, Kinds DEF CloudRestart
<1>10. ASSUME NEW n \in Attempts, AnswerRequest(n) PROVE NameInv'
  BY <1>10, Kinds DEF AnswerRequest
<1>11. ASSUME NEW n \in Attempts, ReadEncaps(n) PROVE NameInv'
  BY <1>11, Kinds DEF ReadEncaps, PhaseInv, WellFormed
<1>12. ASSUME NEW n \in Attempts, RejectHandshake(n) PROVE NameInv'
  BY <1>12, Kinds DEF RejectHandshake
<1>13. ASSUME NEW n \in Attempts, AcceptReading(n) PROVE NameInv'
  BY <1>13, Kinds DEF AcceptReading
<1>14. ASSUME NEW n \in Attempts, DropReading(n) PROVE NameInv'
  BY <1>14, Kinds DEF DropReading
<1>15. ASSUME NEW n \in Attempts, CloseConnection(n) PROVE NameInv'
  BY <1>15, Kinds DEF CloseConnection
<1>16. ASSUME NEW n \in Attempts, Damage(n) PROVE NameInv'
  BY <1>16, Kinds, SMTT(30) DEF Damage
<1>17. CASE UNCHANGED vars
  BY <1>17 DEF vars
<1>18. QED
  BY <1>1, <1>2, <1>3, <1>4, <1>5, <1>6, <1>7, <1>8, <1>9, <1>10, <1>11,
     <1>12, <1>13, <1>14, <1>15, <1>16, <1>17 DEF Next, GatewayStep,
     HandlerStep

(* Readings are accepted from ends that agree.                             *)
LEMMA AcceptedStep ==
    ASSUME EndTypes, KeyTypes, WireTypes, PhaseInv, WireInv, CloudInv,
           AcceptedInv, [Next]_vars
    PROVE  AcceptedInv'
<1> USE SetupAssumption DEF gateway, handler, keys, Send, Receives, Fault,
       Attempts, EndTypes, KeyTypes, WireTypes, AcceptedInv
<1>1. CASE Begin
  <2>1. /\ attempt' = attempt + 1 /\ attempt' \in Attempts
        /\ gpc' = "pubkey"
        /\ cpc' = [cpc EXCEPT ![attempt'] = "request"]
        /\ UNCHANGED <<down, altered, done, ckey, csid, accepted, pin>>
    BY <1>1 DEF Begin
  <2>2. cpc[attempt'] = "none"
    BY <2>1 DEF PhaseInv
  <2>3. \A n \in accepted : n \in Attempts /\ n # attempt'
    BY <2>2
  <2>4. \A n \in accepted : cpc'[n] = cpc[n]
    BY <2>1, <2>3
  <2>5. QED
    BY <2>1, <2>4
<1>2. CASE ReadPubKey
  BY <1>2 DEF ReadPubKey
<1>3. CASE ReadConfirm
  BY <1>3 DEF ReadConfirm
<1>4. CASE RejectReply
  BY <1>4 DEF RejectReply
<1>5. CASE PeerClosed
  BY <1>5 DEF PeerClosed
<1>6. CASE TimesOut
  BY <1>6 DEF TimesOut
<1>7. CASE SendReading
  BY <1>7 DEF SendReading
<1>8. CASE Invalidate
  BY <1>8 DEF Invalidate
<1>9. CASE CloudRestart
  BY <1>9 DEF CloudRestart
<1>10. ASSUME NEW n \in Attempts, AnswerRequest(n) PROVE AcceptedInv'
  BY <1>10 DEF AnswerRequest
<1>11. ASSUME NEW n \in Attempts, ReadEncaps(n) PROVE AcceptedInv'
  BY <1>11 DEF ReadEncaps
<1>12. ASSUME NEW n \in Attempts, RejectHandshake(n) PROVE AcceptedInv'
  BY <1>12 DEF RejectHandshake
<1>13. ASSUME NEW n \in Attempts, AcceptReading(n) PROVE AcceptedInv'
  <2>1. /\ cpc[n] = "serve"
        /\ up[n].type = "reading"
        /\ up[n].seal.key = ckey[n]
        /\ up[n].seal.aad = csid[n]
        /\ accepted' = accepted \cup {n}
        /\ UNCHANGED <<cpc, ckey, csid, done, pin>>
    BY <1>13 DEF AcceptReading, Opens
  <2>2. ckey[n] # NoSecret
    BY <2>1, NoSecretTo, ZenonT(40) DEF CloudInv
  <2>3. up[n] = Frame(n, Secret(pin, n, TRUE)) /\ n \in done
    BY <2>1, <2>2 DEF WireInv
  <2>4. ckey[n] = Secret(pin, n, TRUE) /\ csid[n] = n
    <3>1. up[n].seal.key = Secret(pin, n, TRUE) /\ up[n].seal.aad = n
      <4> DEFINE own == Secret(pin, n, TRUE)
      <4>1. up[n] = Frame(n, own)
        BY <2>3
      <4> HIDE DEF own
      <4>2. Frame(n, own).seal.key = own /\ Frame(n, own).seal.aad = n
        BY Kinds
      <4>3. up[n].seal.key = own /\ up[n].seal.aad = n
        BY <4>1, <4>2
      <4>4. QED
        BY <4>3 DEF own
    <3>2. QED
      BY <2>1, <3>1
  <2>5. QED
    BY <2>1, <2>3, <2>4
<1>14. ASSUME NEW n \in Attempts, DropReading(n) PROVE AcceptedInv'
  BY <1>14 DEF DropReading
<1>15. ASSUME NEW n \in Attempts, CloseConnection(n) PROVE AcceptedInv'
  BY <1>15 DEF CloseConnection
<1>16. ASSUME NEW n \in Attempts, Damage(n) PROVE AcceptedInv'
  BY <1>16 DEF Damage
<1>17. CASE UNCHANGED vars
  BY <1>17 DEF vars
<1>18. QED
  BY <1>1, <1>2, <1>3, <1>4, <1>5, <1>6, <1>7, <1>8, <1>9, <1>10, <1>11,
     <1>12, <1>13, <1>14, <1>15, <1>16, <1>17 DEF Next, GatewayStep,
     HandlerStep

LEMMA InitInv == Init => IInv
<1> SUFFICES ASSUME Init PROVE IInv
  OBVIOUS
<1> USE SetupAssumption DEF Init
<1>1. EndTypes /\ PhaseInv /\ GatewayInv /\ AcceptedInv
  BY DEF EndTypes, PhaseInv, GatewayInv, AcceptedInv, Attempts
<1>2. KeyTypes
  BY DEF KeyTypes, Attempts
<1>3. WireTypes
  BY UpTypes DEF WireTypes
<1>4. WireInv /\ CloudInv /\ NameInv
  BY Kinds DEF WireInv, CloudInv, NameInv
<1>5. QED
  BY <1>1, <1>2, <1>3, <1>4 DEF IInv

LEMMA StepInv == IInv /\ [Next]_vars => IInv'
BY EndTypeStep, KeyTypeStep, WireTypeStep, PhaseStep, GatewayStepInv,
   WireStep, CloudStep, NameStep, AcceptedStep DEF IInv

(* The invariant contains what was promised.                               *)
LEMMA Consequences ==
    ASSUME IInv
    PROVE  /\ TypeOK
           /\ KeyAgreement
           /\ NameAgreement
           /\ FailsClosed
           /\ AcceptedIfAgreed
<1>1. TypeOK
  BY DEF IInv, EndTypes, KeyTypes, WireTypes, TypeOK
<1>2. KeyAgreement
  BY DEF IInv, GatewayInv, CloudInv, KeyAgreement, InSession, EndTypes
<1>3. NameAgreement
  BY DEF IInv, NameInv, NameAgreement, InSession
<1>4. FailsClosed
  <2> USE SetupAssumption DEF IInv, EndTypes, KeyTypes, GatewayInv
  <2>1. gkey # NoSecret => pin # NoKey /\ gkey.to = pin
    BY DEF Secrets
  <2>2. done # {} => pin # NoKey
    OBVIOUS
  <2>3. ASSUME NEW n \in Attempts, cpc[n] = "serve", ckey[n] = gkey
        PROVE  cloudKey = pin
    <3>1. ckey[n].to = cloudKey /\ cloudKey \in Keys
      BY <2>3 DEF CloudInv
    <3>2. gkey # NoSecret
      BY <2>3, <3>1, NoSecretTo
    <3>3. QED
      BY <2>1, <2>3, <3>1, <3>2
  <2>4. QED
    BY <2>1, <2>2, <2>3 DEF FailsClosed
<1>5. AcceptedIfAgreed
  BY DEF IInv, AcceptedInv, GatewayInv, AcceptedIfAgreed, InSession
<1>6. QED
  BY <1>1, <1>2, <1>3, <1>4, <1>5

LEMMA Invariance == Spec => []IInv
BY InitInv, StepInv, PTL DEF Spec

-----------------------------------------------------------------------------
(* Every variable has its type, and a session in service has a name.       *)
THEOREM TypeCorrect == Spec => []TypeOK
BY Invariance, Consequences, PTL

(* The two ends of a session have the same key unless a message to the     *)
(* cloud was damaged or the cloud is not the pinned one.                   *)
THEOREM KeysAgree == Spec => []KeyAgreement
BY Invariance, Consequences, PTL

(* The two ends call a session by the same name unless the confirmation    *)
(* itself was damaged.                                                     *)
THEOREM NamesAgree == Spec => []NameAgreement
BY Invariance, Consequences, PTL

(* No secret is ever encapsulated to a key that is not pinned, there is no *)
(* session without a pin, and only a cloud with the pinned key can open    *)
(* what the gateway seals.                                                 *)
THEOREM PinFailsClosed == Spec => []FailsClosed
BY Invariance, Consequences, PTL

(* A reading is accepted only over a confirmed session, and only if both   *)
(* ends have the same key and name.                                        *)
THEOREM AcceptedOnlyIfAgreed == Spec => []AcceptedIfAgreed
BY Invariance, Consequences, PTL
=============================================================================
